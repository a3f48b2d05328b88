---------------------------- MODULE LayoutProofs ----------------------------
(***************************************************************************)
(* What holds of start-up's memory layout for every memory map and every   *)
(* kernel image within the first 4 MB, wraps of 32-bit addresses included; *)
(* and on ordinary machines, that the pool lies in memory and that         *)
(* start-up comes to its end.  (SMT is named where the numbers are too     *)
(* large for Zenon.)                                                       *)
(***************************************************************************)
EXTENDS Layout, TLAPS

\* PagesFor rounds up to whole pages.
LEMMA PagesForFacts ==
    ASSUME NEW b \in Nat
    PROVE  /\ PagesFor(b) \in Nat
           /\ b <= 4096 * PagesFor(b)
           /\ 4096 * PagesFor(b) < b + 4096
BY DEF PagesFor, PageBytes

\* The sizes are natural numbers, and the pool begins behind the image.
LEMMA SizesNat ==
    ASSUME NEW n \in Nat, NEW st \in Nat
    PROVE  /\ Estimate(n, st) \in Nat
           /\ KernSt(n, st) \in Nat /\ UserSt(n, st) \in Nat
           /\ st <= KernSt(n, st)
           /\ UserSt(n, st) = KernSt(n, st) + n
           /\ KPages(n, st) \in Nat /\ DescriptorsEnd(n, st) \in Nat
<1>1. Estimate(n, st) \in Nat
  BY DEF Estimate, DescBytes, NodeBytes
<1>2. AddPages(n, st) \in Nat
  <2> DEFINE est == Estimate(n, st)
             b == est + DescBytes * (est \div PageBytes) + DescBytes
  <2>1. b \in Nat
    <3> HIDE DEF est
    <3>1. est \in Nat
      BY <1>1 DEF est
    <3>2. est \div 4096 \in Nat
      BY <3>1
    <3> QED BY <3>1, <3>2 DEF PageBytes, DescBytes
  <2>2. AddPages(n, st) = PagesFor(b)
    BY DEF AddPages
  <2> HIDE DEF b
  <2> QED BY <2>1, <2>2, PagesForFacts
<1>3. KernSt(n, st) \in Nat /\ st <= KernSt(n, st)
  BY <1>2 DEF KernSt
<1>4. UserSt(n, st) = KernSt(n, st) + n
  BY DEF UserSt
<1>5. KPages(n, st) \in Nat
  BY DEF KPages, DescBytes, PageBytes, BuddyBytes, NodeBytes
<1>6. DescriptorsEnd(n, st) \in Nat
  BY <1>3, <1>4, <1>5 DEF DescriptorsEnd, DescBytes
<1> QED BY <1>1, <1>3, <1>4, <1>5, <1>6

\* setup_mm_page: while the space for the buddy tree and the page descriptors
\* is estimated at less than 1 MB, the one correction for the pages it takes
\* itself is enough, and the descriptors end where the pool begins or before.
THEOREM DescriptorsFit ==
    ASSUME NEW h \in Nat, NEW st \in Nat, Estimate(2 * h, st) < 1048576
    PROVE  DescriptorsEnd(2 * h, st) <= PageBytes * KernSt(2 * h, st)
<1> DEFINE n == 2 * h
           y == n + st + 1 + h
           est == Estimate(n, st)
           q == est \div 4096
           b == est + 16 * q + 16
           a == PagesFor(b)
<1>1. est = 16 * y /\ y \in Nat /\ est \in Nat /\ y < 65536
  BY DEF Estimate, DescBytes, NodeBytes
<1>2. q \in Nat /\ 256 * q <= y /\ y <= 256 * q + 255 /\ q <= 255
  <2> HIDE DEF est, y
  <2> QED BY <1>1
<1>3. b \in Nat /\ a \in Nat /\ b <= 4096 * a /\ 4096 * a < b + 4096
  <2>1. b \in Nat
    <3> HIDE DEF est, q
    <3> QED BY <1>1, <1>2
  <2> HIDE DEF b
  <2> QED BY <2>1, PagesForFacts
<1>4. a <= q + 2
  <2> HIDE DEF est, q, y, a
  <2> QED BY <1>1, <1>2, <1>3
<1>5. 16 * y + 16 * a <= 4096 * a
  <2> HIDE DEF est, q, y, a
  <2>1. CASE a <= q + 1
    BY <2>1, <1>1, <1>2, <1>3
  <2>2. CASE a = q + 2
    BY <2>2, <1>1, <1>2, <1>3
  <2> QED BY <2>1, <2>2, <1>2, <1>3, <1>4
<1>6. AddPages(n, st) = a
  BY DEF AddPages, DescBytes, PageBytes
<1>7. KPages(n, st) = 4096 * st + 16 + 16 * h
  BY DEF KPages, DescBytes, PageBytes, BuddyBytes, NodeBytes
<1>8. KernSt(n, st) = st + a /\ UserSt(n, st) = st + a + n
  <2> HIDE DEF a
  <2> QED BY <1>6, <1>3 DEF KernSt, UserSt
<1>9. DescriptorsEnd(n, st) = 4096 * st + 16 * y + 16 * a
  <2> HIDE DEF a
  <2> QED BY <1>3, <1>7, <1>8 DEF DescriptorsEnd, DescBytes
<1> HIDE DEF a, y
<1> QED BY <1>1, <1>3, <1>5, <1>8, <1>9 DEF PageBytes
-----------------------------------------------------------------------------
\* next_pow_of_2: the next power of two.
LEMMA NextPow2Fact ==
    ASSUME NEW x \in Nat, 0 < x, x <= 2 * KMAXSIZE
    PROVE  /\ NextPow2(x) \in PowersOf2
           /\ x <= NextPow2(x) /\ NextPow2(x) < 2 * x
<1>1. \E p \in PowersOf2 : x <= p /\ p < 2 * x
  BY SMT DEF PowersOf2, KMAXSIZE
<1> QED BY <1>1, SMT DEF NextPow2

\* all_mem is a number of 32 bits; where nothing wraps it is the memory behind
\* the image.
LEMMA AllMemFact ==
    ASSUME NEW end \in Nat, NEW st \in Nat
    PROVE  /\ AllMem(end, st) \in Nat
           /\ st <= end /\ end < Wrap => AllMem(end, st) = end - st
BY SMT DEF AllMem, Wrap

\* kern_pages is a natural number of at most 512 MB, whatever all_mem is, and
\* even if buddy_check passes.
LEMMA KernPagesFact ==
    ASSUME NEW end \in Nat, NEW st \in Nat \ {0}
    PROVE  /\ KernPages(end, st) \in Nat /\ KernPages(end, st) <= KMAXSIZE
           /\ KernPages(end, st) >= MinPool =>
                \E h \in Nat : KernPages(end, st) = 2 * h
<1> DEFINE x == Doubled(end, st)
<1>1. x \in Nat /\ 0 < x
  <2>1. AllMem(end, st) \in Nat
    BY AllMemFact
  <2>2. x = AllMem(end, st) + 2 * st
    BY DEF Doubled
  <2> HIDE DEF x
  <2> QED BY <2>1, <2>2, SMT
<1>2. CASE x > 2 * KMAXSIZE
  <2>1. KernPages(end, st) = KMAXSIZE
    BY <1>2 DEF KernPages
  <2> QED BY <2>1, SMT DEF KMAXSIZE
<1>3. CASE x <= 2 * KMAXSIZE
  <2>1. KernPages(end, st) = NextPow2(x) \div 4
    BY <1>1, <1>3, SMT DEF KernPages, KMAXSIZE
  <2> HIDE DEF x
  <2>2. NextPow2(x) \in PowersOf2 /\ NextPow2(x) < 2 * x
    BY <1>1, <1>3, NextPow2Fact
  <2>3. PICK p \in PowersOf2 : KernPages(end, st) = p \div 4 /\ p < 2 * x
    BY <2>1, <2>2
  <2>4. p \in Nat /\ p \div 4 \in Nat /\ 4 * (p \div 4) <= p
    BY SMT DEF PowersOf2
  <2>5. p \div 4 <= 131072
    BY <1>1, <1>3, <2>3, <2>4, SMT DEF KMAXSIZE
  <2>6. ASSUME p \div 4 >= 1024 PROVE \E h \in Nat : p \div 4 = 2 * h
    BY <2>6, SMT DEF PowersOf2
  <2> QED BY <2>3, <2>4, <2>5, <2>6, SMT DEF MinPool, KMAXSIZE
<1> QED BY <1>1, <1>2, <1>3, SMT DEF KMAXSIZE

MapFacts == /\ Len(map) \in Nat
            /\ \A i \in 1 .. Len(map) : map[i].addr \in Nat /\ EntryEnd(map[i]) \in Nat

\* What the BIOS reports is a sequence of areas.
LEMMA MapOK == ASSUME map \in Maps PROVE MapFacts
<1>1. map \in Seq([addr : Nat, size : Nat, type : Nat])
  BY LayoutAssumption
<1>2. \A i \in 1 .. Len(map) : map[i] \in [addr : Nat, size : Nat, type : Nat]
  <2> DEFINE Entries == [addr : Nat, size : Nat, type : Nat]
  <2>1. map \in Seq(Entries)
    BY <1>1
  <2> HIDE DEF Entries
  <2>2. \A i \in 1 .. Len(map) : map[i] \in Entries
    BY <2>1
  <2> QED BY <2>2 DEF Entries
<1>3. \A i \in 1 .. Len(map) : map[i].addr \in Nat /\ EntryEnd(map[i]) \in Nat
  <2> SUFFICES ASSUME NEW i \in 1 .. Len(map)
               PROVE  map[i].addr \in Nat /\ EntryEnd(map[i]) \in Nat
    OBVIOUS
  <2> DEFINE e == map[i]
  <2>1. e \in [addr : Nat, size : Nat, type : Nat]
    BY <1>2
  <2> HIDE DEF e
  <2>2. e.addr \in Nat /\ e.size \in Nat
    BY <2>1
  <2>3. EntryEnd(e) \in Nat
    BY <2>2 DEF EntryEnd
  <2> QED BY <2>2, <2>3 DEF e
<1> QED BY <1>1, <1>3 DEF MapFacts

LEMMA WrapFact == ASSUME NEW x \in Nat PROVE x % Wrap \in Nat /\ x % Wrap < Wrap
BY SMT DEF Wrap

\* mem_end is a natural number below 4 GB.
LEMMA MemEndNat == ASSUME TypeOK PROVE memEnd \in Nat /\ memEnd < Wrap
BY DEF TypeOK

\* mem_st is a page within the first 4 MB.
LEMMA MemStNat == ASSUME TypeOK PROVE memSt \in Nat \ {0} /\ memSt <= TablePages
<1>1. memSt \in ImageEnds
  BY DEF TypeOK
<1> QED BY <1>1, LayoutAssumption, SMT DEF TablePages

\* The types of the variables: a lemma for what follows.
LEMMA TypeHolds == Spec => []TypeOK
<1>1. Init => TypeOK
  <2> SUFFICES ASSUME Init PROVE TypeOK
    OBVIOUS
  <2>1. MapFacts
    BY MapOK DEF Init
  <2>2. memEnd \in Nat /\ memEnd < Wrap
    <3>1. memEnd = 0
      BY DEF Init
    <3> QED BY <3>1, SMT DEF Wrap
  <2> QED BY <2>1, <2>2 DEF Init, TypeOK, MapFacts, TablePages
<1>2. TypeOK /\ [Next]_vars => TypeOK'
  <2> SUFFICES ASSUME TypeOK, [Next]_vars PROVE TypeOK'
    OBVIOUS
  <2>1. MapFacts
    BY MapOK DEF TypeOK
  <2>2. memSt \in Nat \ {0} /\ kern \in Nat
    BY MemStNat DEF TypeOK
  <2>3. First \in Nat /\ Last \in Nat
    BY <2>2, SizesNat DEF First, Last
  <2>4. CASE ReadEntry
    <3>1. entry \in 1 .. Len(map) /\ entry + 1 \in 1 .. Len(map) + 1
      BY <2>1, <2>4 DEF TypeOK, MapFacts, ReadEntry
    <3>2. EntryEnd(map[entry]) % Wrap \in Nat /\ EntryEnd(map[entry]) % Wrap < Wrap
      <4>1. EntryEnd(map[entry]) \in Nat
        BY <2>1, <3>1 DEF MapFacts
      <4> QED BY <4>1, WrapFact
    <3>3. memEnd' \in Nat /\ memEnd' < Wrap
      BY <2>4, <3>2 DEF TypeOK, ReadEntry
    <3> QED BY <2>4, <3>1, <3>3 DEF TypeOK, ReadEntry
  <2>5. CASE PlacePool
    <3>1. KernPages(memEnd, memSt) \in Nat
      BY <2>2, MemEndNat, KernPagesFact
    <3> QED BY <2>5, <3>1 DEF TypeOK, PlacePool
  <2>6. CASE MapTable
    BY <2>3, <2>6 DEF TypeOK, MapTable, plan, TablePages
  <2>7. CASE TableUnmapped
    BY <2>7 DEF TypeOK, TableUnmapped, plan
  <2>8. CASE MapDone
    BY <2>8 DEF TypeOK, MapDone, plan
  <2>9. CASE ReservePages
    BY <2>3, <2>9 DEF TypeOK, ReservePages, plan
  <2>10. CASE ZeroPages
    <3>1. DescriptorsEnd(kern, memSt) \in Nat
      BY <2>2, SizesNat
    <3> QED BY <2>3, <2>10, <3>1 DEF TypeOK, ZeroPages, plan, PageBytes
  <2>11. CASE UNCHANGED vars
    BY <2>11 DEF TypeOK, vars
  <2> QED BY <2>4, <2>5, <2>6, <2>7, <2>8, <2>9, <2>10, <2>11 DEF Next
<1> QED BY <1>1, <1>2, PTL DEF Spec

-----------------------------------------------------------------------------
\* How many pages the tables take behind the image: an estimate of q pages and a
\* part is corrected for them and rounded up to a pages.
Rounded(k, st, q, a) ==
    LET est == 24 * k + 16 * st + 16
    IN  /\ 4096 * q <= est /\ est < 4096 * q + 4096
        /\ est + 16 * q + 16 <= 4096 * a /\ 4096 * a < est + 16 * q + 16 + 4096

LEMMA AddPagesIs ==
    ASSUME NEW k \in Nat, NEW st \in Nat
    PROVE  \E q \in Nat, a \in Nat : AddPages(k, st) = a /\ Rounded(k, st, q, a)
<1> DEFINE est == 24 * k + 16 * st + 16
           q == est \div 4096
           b == est + 16 * q + 16
           a == PagesFor(b)
<1>1. est \in Nat /\ Estimate(k, st) = est
  BY SMT DEF Estimate, DescBytes, NodeBytes
<1>2. AddPages(k, st) = a
  BY <1>1, SMT DEF AddPages, DescBytes, PageBytes
<1>3. q \in Nat /\ 4096 * q <= est /\ est < 4096 * q + 4096
  <2> HIDE DEF est
  <2> QED BY <1>1, SMT
<1>4. a \in Nat /\ b <= 4096 * a /\ 4096 * a < b + 4096
  <2>1. b \in Nat
    <3> HIDE DEF est, q
    <3> QED BY <1>1, <1>3, SMT
  <2> HIDE DEF b
  <2> QED BY <2>1, PagesForFacts, SMT
<1> HIDE DEF a, q
<1>5. Rounded(k, st, q, a)
  BY <1>3, <1>4, SMT DEF Rounded
<1> QED BY <1>2, <1>3, <1>4, <1>5, SMT

\* With kern_pages and the image at their limits, tables and pool stay below
\* 896 MB.
LEMMA PoolEnd ==
    ASSUME NEW k \in Nat, k <= KMAXSIZE, NEW st \in Nat, st <= TablePages
    PROVE  UserSt(k, st) <= KMEMSIZE
<1>1. PICK q \in Nat, a \in Nat : AddPages(k, st) = a /\ Rounded(k, st, q, a)
  BY AddPagesIs, SMT
<1>2. UserSt(k, st) = st + a + k
  BY <1>1 DEF UserSt, KernSt
<1>3. /\ 4096 * q <= 24 * k + 16 * st + 16
      /\ 4096 * a < 24 * k + 16 * st + 16 + 16 * q + 16 + 4096
  BY <1>1, SMT DEF Rounded
<1>4. k <= 131072 /\ st <= 1024
  BY SMT DEF KMAXSIZE, TablePages
<1>5. a <= 1000
  BY <1>3, <1>4, SMT
<1> QED BY <1>2, <1>4, <1>5, SMT DEF KMEMSIZE

\* setup_mm_page, for every memory map and every image within the first 4 MB,
\* wherever all_mem or mem_end wrap: the pool ends where it can be mapped.
THEOREM PoolMappableCorrect == Spec => []PoolMappable
<1> DEFINE Plan == pc # "probe" => kern <= KMAXSIZE
<1>1. Init => Plan
  BY DEF Init
<1>2. TypeOK /\ Plan /\ [Next]_vars => Plan'
  <2> SUFFICES ASSUME TypeOK, Plan, [Next]_vars PROVE Plan'
    OBVIOUS
  <2>1. CASE PlacePool
    <3>1. KernPages(memEnd, memSt) <= KMAXSIZE
      BY MemEndNat, MemStNat, KernPagesFact
    <3> QED BY <2>1, <3>1 DEF PlacePool
  <2>2. CASE ~PlacePool
    BY <2>2 DEF Next, ReadEntry, MapTable, TableUnmapped, MapDone, ReservePages,
                ZeroPages, plan, vars
  <2> QED BY <2>1, <2>2
<1>3. TypeOK /\ Plan => PoolMappable
  <2> SUFFICES ASSUME TypeOK, kern <= KMAXSIZE PROVE Last <= KMEMSIZE
    BY DEF PoolMappable
  <2>1. kern \in Nat /\ memSt \in Nat /\ memSt <= TablePages
    BY MemStNat DEF TypeOK
  <2> QED BY <2>1, PoolEnd DEF Last
<1> QED BY <1>1, <1>2, <1>3, TypeHolds, PTL DEF Spec

-----------------------------------------------------------------------------
\* The page tables taken so far are those of the part that is mapped.
Progress ==
    /\ pc = "probe" => tables = 0 /\ mapEnd = TablePages
    /\ pc = "map" /\ mapEnd < Last => mapEnd = TablePages * (tables + 1)
    /\ pc \in {"flags", "zero", "done"} => mapEnd >= Last

EvenPool == pc \in {"map", "flags", "zero", "done"} => \E h \in Nat : kern = 2 * h

LInv == TypeOK /\ Progress /\ EvenPool /\ FaultsOnlyBeyondBootMap /\ MappingKept

\* Every step keeps the progress of the mapping, and with it both properties.
LEMMA LInvKept == ASSUME LInv, TypeOK', [Next]_vars PROVE LInv'
<1> USE DEF LInv, Progress, EvenPool, FaultsOnlyBeyondBootMap, MappingKept
<1>1. memSt \in Nat \ {0} /\ kern \in Nat /\ tables \in Nat /\ mapEnd \in Nat
  BY MemStNat DEF TypeOK
<1>2. First \in Nat /\ Last \in Nat
  BY <1>1, SizesNat DEF First, Last
<1>3. CASE ReadEntry
  BY <1>3 DEF ReadEntry, First, Last
<1>4. CASE PlacePool
  <2>1. KernPages(memEnd, memSt) >= MinPool =>
           \E h \in Nat : KernPages(memEnd, memSt) = 2 * h
    BY <1>1, MemEndNat, KernPagesFact DEF LInv
  <2>2. tables' = 0 /\ mapEnd' = TablePages /\ pc' \in {"map", "panic"}
    BY <1>4 DEF PlacePool
  <2>3. pc' = "map" => kern' >= MinPool /\ kern' = KernPages(memEnd, memSt)
    BY <1>4 DEF PlacePool
  <2> QED BY <2>1, <2>2, <2>3 DEF TablePages
<1>5. CASE MapTable
  <2>1. First' = First /\ Last' = Last /\ kern' = kern /\ pc' = "map"
    BY <1>5 DEF MapTable, plan, First, Last
  <2>2. mapEnd = TablePages * (tables + 1) /\ tables' = tables + 1
    BY <1>5 DEF MapTable
  <2>3. mapEnd' < Last' => mapEnd' = TablePages * (tables' + 1)
    BY <1>1, <1>2, <1>5, <2>1, <2>2 DEF MapTable, TablePages
  <2> QED BY <1>5, <2>1, <2>3 DEF MapTable
<1>6. CASE TableUnmapped
  <2>1. First' = First /\ pc' = "fault"
    BY <1>6 DEF TableUnmapped, plan, First
  <2>2. First + tables >= TablePages * (tables + 1)
    BY <1>6 DEF TableUnmapped, TablePage
  <2>3. First >= TablePages
    BY <1>1, <1>2, <2>2 DEF TablePages
  <2> QED BY <2>1, <2>3
<1>7. CASE MapDone
  <2>1. Last' = Last /\ mapEnd' = mapEnd /\ kern' = kern /\ pc' = "flags"
    BY <1>7 DEF MapDone, plan, Last
  <2> QED BY <1>7, <2>1 DEF MapDone
<1>8. CASE ReservePages
  <2>1. Last' = Last /\ mapEnd' = mapEnd /\ kern' = kern /\ pc' \in {"zero", "panic"}
    BY <1>8 DEF ReservePages, plan, Last
  <2> QED BY <1>8, <2>1 DEF ReservePages
<1>9. CASE ZeroPages
  <2>1. /\ Last' = Last /\ mapEnd' = mapEnd /\ kern' = kern /\ memSt' = memSt
        /\ pc' = "done"
    BY <1>9 DEF ZeroPages, plan, Last
  <2>2. mapEnd >= Last
    BY <1>9 DEF ZeroPages
  <2>3. ASSUME Estimate(kern, memSt) < 1048576 PROVE lost' = 0
    <3>1. PICK h \in Nat : kern = 2 * h
      BY <1>9 DEF ZeroPages
    <3>2. DescriptorsEnd(kern, memSt) <= PageBytes * First
      BY <1>1, <2>3, <3>1, DescriptorsFit DEF First
    <3>3. DescriptorsEnd(kern, memSt) \in Nat /\ PageBytes * First \in Nat
      BY <1>1, <1>2, SizesNat DEF PageBytes
    <3> QED BY <1>9, <3>2, <3>3 DEF ZeroPages
  <2> QED BY <1>9, <2>1, <2>2, <2>3 DEF ZeroPages
<1>10. CASE UNCHANGED vars
  BY <1>10 DEF vars, First, Last
<1> QED BY <1>3, <1>4, <1>5, <1>6, <1>7, <1>8, <1>9, <1>10 DEF Next

\* The invariant the two properties follow from.
LEMMA LInvHolds == Spec => []LInv
<1>1. Init /\ TypeOK => LInv
  BY DEF Init, LInv, Progress, EvenPool, FaultsOnlyBeyondBootMap, MappingKept
<1>2. LInv /\ TypeOK' /\ [Next]_vars => LInv'
  BY LInvKept
<1> QED BY <1>1, <1>2, TypeHolds, PTL DEF Spec

\* pgdir_add: a page table is cleared through an address that is not mapped
\* only if the pool begins behind the 4 MB that entry.S maps.
THEOREM FaultCondition == Spec => []FaultsOnlyBeyondBootMap
BY LInvHolds, PTL DEF LInv

\* set_page_zero and pgdir_add: the mapping reaches the end of the pool, and
\* nothing of it is overwritten while the tables behind the image are
\* estimated at less than 1 MB.
THEOREM MappingCorrect == Spec => []MappingKept
BY LInvHolds, PTL DEF LInv

-----------------------------------------------------------------------------
(* Ordinary machines.                                                      *)

\* kern_size: less than half of what memory and image are together, and 4 MB or
\* more, which is enough for buddy_check.
LEMMA PoolSize ==
    ASSUME NEW end \in Nat, 1792 <= end, end < Wrap, NEW st \in Nat, 256 < st, st < 512
    PROVE  /\ KernPages(end, st) \in Nat
           /\ 1024 <= KernPages(end, st) /\ KernPages(end, st) <= 131072
           /\ 2 * KernPages(end, st) < end + st
           /\ end <= KMEMSIZE => KernPages(end, st) <= 65536
<1> DEFINE x == Doubled(end, st)
<1>0. x = end + st
  <2>1. AllMem(end, st) = end - st
    BY AllMemFact
  <2> QED BY <2>1 DEF Doubled
<1>1. CASE x > 2 * KMAXSIZE
  <2>1. KernPages(end, st) = KMAXSIZE
    BY <1>1 DEF KernPages
  <2> HIDE DEF x
  <2> QED BY <1>0, <1>1, <2>1, SMT DEF KMAXSIZE, KMEMSIZE
<1>2. CASE x <= 2 * KMAXSIZE
  <2>2. KernPages(end, st) = NextPow2(x) \div 4
    BY <1>0, <1>2, SMT DEF KernPages, KMAXSIZE
  <2> HIDE DEF x
  <2>1. x \in Nat /\ 2049 <= x /\ x <= 262144
    BY <1>0, <1>2, SMT DEF KMAXSIZE
  <2>3. PICK p \in PowersOf2 : p = NextPow2(x) /\ x <= p /\ p < 2 * x
    BY <1>2, <2>1, NextPow2Fact
  <2>5. PICK k \in Nat : 4 * k = p /\ 1024 <= k /\ k <= 65536
    <3> DEFINE k == p \div 4
    <3>1. /\ p \in Nat
          /\ p <= 2048 \/ p >= 524288 \/ (4 * k = p /\ k \in Nat /\ 1024 <= k /\ k <= 65536)
      BY <2>3, SMT DEF PowersOf2
    <3> HIDE DEF k
    <3> QED BY <2>1, <2>3, <3>1, SMT
  <2>6. KernPages(end, st) = k
    BY <2>2, <2>3, <2>5, SMT
  <2>7. 2 * k < x
    BY <2>1, <2>3, <2>5, SMT
  <2> QED BY <1>0, <2>1, <2>5, <2>6, <2>7, SMT
<1>3. x <= 2 * KMAXSIZE \/ x > 2 * KMAXSIZE
  <2> HIDE DEF x
  <2> QED BY <1>0, SMT DEF KMAXSIZE
<1> QED BY <1>1, <1>2, <1>3

\* setup_mm_page and init_reserved_pages on an ordinary machine: the tables
\* and the pool lie in memory; and below 896 MB both assertions hold and the
\* pool begins where entry.S has mapped.
LEMMA OrdinaryPlan ==
    ASSUME NEW end \in Nat, 1792 <= end, end < Wrap, NEW st \in Nat, 256 < st, st < 512,
           NEW k, k = KernPages(end, st)
    PROVE  /\ st < KernSt(k, st) /\ UserSt(k, st) <= end
           /\ KPages(k, st) + DescBytes * KernSt(k, st) < PageBytes * KernSt(k, st)
           /\ end <= KMEMSIZE => /\ KernSt(k, st) < TablePages
                                 /\ KPages(k, st) < PageBytes * TablePages
<1>1. /\ k \in Nat /\ 1024 <= k /\ k <= 131072 /\ 2 * k < end + st
      /\ end <= KMEMSIZE => k <= 65536
  BY PoolSize, SMT
<1>0. PICK q \in Nat, a \in Nat : AddPages(k, st) = a /\ Rounded(k, st, q, a)
  <2>1. k \in Nat /\ st \in Nat
    BY <1>1, SMT
  <2> QED BY <2>1, AddPagesIs, SMT
<1>2. /\ AddPages(k, st) = a
      /\ 4096 * q <= 24 * k + 16 * st + 16 /\ 24 * k + 16 * st + 16 < 4096 * q + 4096
      /\ 24 * k + 16 * st + 16 + 16 * q + 16 <= 4096 * a
      /\ 4096 * a < 24 * k + 16 * st + 16 + 16 * q + 16 + 4096
  BY <1>0, SMT DEF Rounded
<1>3. KernSt(k, st) = st + a /\ UserSt(k, st) = st + a + k
  BY <1>2, SMT DEF KernSt, UserSt
<1>4. PICK d \in Nat : KPages(k, st) = d /\ d <= 4096 * st + 8 * k + 31
  <2> DEFINE z == 4096 * st + 16 + 8 * k + 16 - 1
  <2>1. z \in Nat
    BY <1>1, SMT
  <2>2. KPages(k, st) = 16 * (z \div 16)
    BY SMT DEF KPages, DescBytes, PageBytes, BuddyBytes, NodeBytes
  <2>3. z = 4096 * st + 8 * k + 31
    BY <1>1, SMT
  <2> HIDE DEF z
  <2>4. 16 * (z \div 16) \in Nat /\ 16 * (z \div 16) <= z
    BY <2>1, SMT
  <2> QED BY <2>2, <2>3, <2>4, SMT
<1>5. a >= 1
  BY <1>1, <1>2, SMT
<1>6. st + a + k <= end
  BY <1>1, <1>2, SMT
<1>7. d + 16 * (st + a) < 4096 * (st + a)
  BY <1>1, <1>2, <1>4, SMT
<1>8. ASSUME k <= 65536 PROVE st + a < 1024 /\ d < 4096 * 1024
  BY <1>1, <1>2, <1>4, <1>8, SMT
<1> QED BY <1>1, <1>3, <1>4, <1>5, <1>6, <1>7, <1>8, SMT DEF DescBytes, PageBytes, TablePages

\* get_mem_layout finds the end of the piece of memory the image is in, and
\* what is planned on it stays.
Planned(h) == /\ memEnd <= EntryEnd(map[h])
              /\ entry > h => memEnd = EntryEnd(map[h])
              /\ pc # "probe" => entry > h /\ kern = KernPages(memEnd, memSt)
              /\ pc = "panic" => memEnd > KMEMSIZE

OInv == 256 < memSt /\ memSt < 512 => \A h \in 1 .. Len(map) : Main(h) => Planned(h)

\* A step of get_mem_layout.
LEMMA OInvRead ==
    ASSUME TypeOK, MapFacts, OInv, ReadEntry
    PROVE  OInv'
<1> SUFFICES ASSUME 256 < memSt', memSt' < 512, NEW h \in 1 .. Len(map'), Main(h)'
             PROVE  Planned(h)'
  BY DEF OInv
<1>1. /\ pc = "probe" /\ pc' = "probe" /\ entry \in 1 .. Len(map) /\ entry' = entry + 1
      /\ map' = map /\ memSt' = memSt /\ kern' = kern
  BY DEF ReadEntry, TypeOK
<1>2. h \in 1 .. Len(map) /\ Main(h) /\ Planned(h) /\ memSt < 512
  BY <1>1 DEF OInv, Main
<1>3. /\ memEnd \in Nat /\ EntryEnd(map[entry]) \in Nat /\ EntryEnd(map[h]) \in Nat
      /\ EntryEnd(map[h]) < Wrap
  BY <1>1, <1>2, MemEndNat DEF MapFacts, Main
<1> DEFINE Reads == /\ map[entry].type = ARM
                    /\ EntryEnd(map[entry]) > memEnd /\ map[entry].addr < KMAXSIZE
<1>4. Reads => EntryEnd(map[entry]) <= EntryEnd(map[h])
  BY <1>1, <1>2 DEF Main
<1>5. memEnd' = IF Reads THEN EntryEnd(map[entry]) ELSE memEnd
  <2>1. memEnd' = IF Reads THEN EntryEnd(map[entry]) % Wrap ELSE memEnd
    BY DEF ReadEntry
  <2>2. Reads => EntryEnd(map[entry]) % Wrap = EntryEnd(map[entry])
    <3> HIDE DEF Reads
    <3> QED BY <1>3, <1>4, SMT DEF Wrap
  <2> QED BY <2>1, <2>2
<1>6. memEnd' <= EntryEnd(map[h])
  BY <1>2, <1>4, <1>5 DEF Planned
<1>7. entry = h => memEnd' = EntryEnd(map[h])
  <2>1. map[h].addr \in Nat /\ map[h].addr <= memSt /\ map[h].type = ARM /\ memSt \in Nat
    BY <1>2, MemStNat DEF MapFacts, Main
  <2>2. map[h].addr < KMAXSIZE
    BY <1>2, <2>1, SMT DEF KMAXSIZE
  <2>3. memEnd <= EntryEnd(map[h])
    BY <1>2 DEF Planned
  <2> QED BY <1>3, <1>5, <2>1, <2>2, <2>3
<1>8. entry > h => memEnd' = EntryEnd(map[h])
  BY <1>2, <1>3, <1>4, <1>5 DEF Planned
<1> QED BY <1>1, <1>6, <1>7, <1>8 DEF Planned

\* The pool is placed: with all of the map read, on the piece the image is in.
LEMMA OInvPlace ==
    ASSUME TypeOK, MapFacts, OInv, PlacePool
    PROVE  OInv'
<1> SUFFICES ASSUME 256 < memSt', memSt' < 512, NEW h \in 1 .. Len(map'), Main(h)'
             PROVE  Planned(h)'
  BY DEF OInv
<1>1. /\ map' = map /\ memSt' = memSt /\ memEnd' = memEnd /\ entry' = entry
      /\ entry > Len(map) /\ kern' = KernPages(memEnd, memSt)
      /\ pc' = IF kern' >= MinPool /\ KPages(kern', memSt) < PageBytes * TablePages
               THEN "map" ELSE "panic"
  BY DEF PlacePool
<1>2. h \in 1 .. Len(map) /\ Main(h) /\ Planned(h)
  BY <1>1 DEF OInv, Main
<1>3. entry > h
  BY <1>1, <1>2 DEF MapFacts, TypeOK
<1>4. /\ memEnd = EntryEnd(map[h]) /\ memEnd \in Nat /\ memEnd < Wrap /\ 1792 <= memEnd
      /\ memSt \in Nat /\ 256 < memSt /\ memSt < 512
  BY <1>1, <1>2, <1>3, MemEndNat, MemStNat DEF Planned, Main
<1>5. kern' >= MinPool
  BY <1>1, <1>4, PoolSize DEF MinPool
<1>6. memEnd <= KMEMSIZE => KPages(kern', memSt) < PageBytes * TablePages
  BY <1>1, <1>4, OrdinaryPlan
<1>7. pc' = "panic" => memEnd > KMEMSIZE
  BY <1>1, <1>4, <1>5, <1>6, SMT DEF KMEMSIZE
<1> QED BY <1>1, <1>3, <1>4, <1>7 DEF Planned

\* The rest of pmm_init keeps to the plan; init_reserved_pages's assertion
\* holds on it.
LEMMA OInvMap ==
    ASSUME TypeOK, MapFacts, OInv,
           \/ MapTable \/ TableUnmapped \/ MapDone
           \/ ReservePages \/ ZeroPages \/ UNCHANGED vars
    PROVE  OInv'
<1> SUFFICES ASSUME 256 < memSt', memSt' < 512, NEW h \in 1 .. Len(map'), Main(h)'
             PROVE  Planned(h)'
  BY DEF OInv
<1>1. /\ map' = map /\ memSt' = memSt /\ memEnd' = memEnd /\ entry' = entry /\ kern' = kern
  BY DEF MapTable, TableUnmapped, MapDone, ReservePages, ZeroPages, plan, vars
<1>2. h \in 1 .. Len(map) /\ Main(h) /\ Planned(h)
  BY <1>1 DEF OInv, Main
<1>3. pc' = pc \/ (pc # "probe" /\ pc' # "probe")
  BY DEF MapTable, TableUnmapped, MapDone, ReservePages, ZeroPages, vars
<1>4. ASSUME pc' = "panic", pc # "panic" PROVE FALSE
  <2>1. ReservePages /\ pc = "flags"
    BY <1>4 DEF MapTable, TableUnmapped, MapDone, ReservePages, ZeroPages, vars
  <2>2. ~(KPages(kern, memSt) + DescBytes * First < PageBytes * First)
    BY <1>4, <2>1 DEF ReservePages
  <2>3. /\ kern = KernPages(memEnd, memSt)
        /\ memEnd \in Nat /\ memEnd < Wrap /\ 1792 <= memEnd
        /\ memSt \in Nat /\ 256 < memSt /\ memSt < 512
    BY <1>1, <1>2, <2>1, MemEndNat, MemStNat DEF Planned, Main
  <2>4. KPages(kern, memSt) + DescBytes * KernSt(kern, memSt) < PageBytes * KernSt(kern, memSt)
    BY <2>3, OrdinaryPlan
  <2> QED BY <2>2, <2>4 DEF First
<1> QED BY <1>1, <1>2, <1>3, <1>4 DEF Planned

\* What is planned stays, on every ordinary machine.
LEMMA OInvHolds == Spec => []OInv
<1>1. Init => OInv
  <2> SUFFICES ASSUME Init, NEW h \in 1 .. Len(map), Main(h) PROVE Planned(h)
    BY DEF OInv
  <2>1. MapFacts
    BY MapOK DEF Init
  <2>2. EntryEnd(map[h]) \in Nat /\ h \in Nat /\ h >= 1
    BY <2>1 DEF MapFacts
  <2> QED BY <2>2 DEF Init, Planned
<1>2. TypeOK /\ OInv /\ [Next]_vars => OInv'
  <2> SUFFICES ASSUME TypeOK, OInv, [Next]_vars PROVE OInv'
    OBVIOUS
  <2>2. MapFacts
    BY MapOK DEF TypeOK
  <2> QED BY <2>2, OInvRead, OInvPlace, OInvMap DEF Next
<1> QED BY <1>1, <1>2, TypeHolds, PTL DEF Spec

\* What an ordinary machine's image and memory are once the map has been read.
LEMMA OrdinaryRead ==
    ASSUME TypeOK, OInv, Ordinary, pc # "probe"
    PROVE  \E h \in 1 .. Len(map) :
              /\ Main(h) /\ Planned(h)
              /\ map[h].addr \in Nat /\ map[h].addr < KMAXSIZE
              /\ memEnd = EntryEnd(map[h]) /\ memEnd \in Nat
              /\ memEnd < Wrap /\ 1792 <= memEnd
              /\ memSt \in Nat /\ 256 < memSt /\ memSt < 512
              /\ kern = KernPages(memEnd, memSt) /\ kern \in Nat
<1>1. PICK h \in 1 .. Len(map) : Main(h)
  BY DEF Ordinary
<1>2. memSt \in Nat /\ 256 < memSt /\ memSt < 512 /\ memEnd \in Nat /\ memEnd < Wrap
  BY MemStNat, MemEndNat DEF Ordinary
<1>3. Planned(h)
  BY <1>1, <1>2 DEF OInv
<1>4. map[h].addr \in Nat /\ map[h].addr < KMAXSIZE
  <2>1. map[h].addr \in Nat /\ map[h].addr <= memSt
    BY <1>1, MapOK DEF TypeOK, MapFacts, Main
  <2> QED BY <1>2, <2>1, SMT DEF KMAXSIZE
<1>5. memEnd = EntryEnd(map[h]) /\ 1792 <= memEnd
  BY <1>1, <1>3 DEF Planned, Main
<1>6. kern = KernPages(memEnd, memSt) /\ kern \in Nat
  BY <1>3 DEF Planned, TypeOK
<1> QED BY <1>1, <1>2, <1>3, <1>4, <1>5, <1>6

\* setup_mm_page, on every ordinary machine: whatever the sizes of memory and image,
\* the tables and the pool behind the image lie in memory that the BIOS reported.
THEOREM PoolCorrect == Spec => [](Ordinary => PoolInMemory)
<1>1. TypeOK /\ OInv => (Ordinary => PoolInMemory)
  <2> SUFFICES ASSUME TypeOK, OInv, Ordinary, pc \notin {"probe", "panic"}
               PROVE  /\ memSt < First
                      /\ \E i \in 1 .. Len(map) : /\ map[i].type = ARM
                                                  /\ First .. Last - 1 \subseteq Memory(map[i])
    BY DEF PoolInMemory
  <2>1. PICK h \in 1 .. Len(map) :
              /\ Main(h)
              /\ map[h].addr \in Nat
              /\ memEnd = EntryEnd(map[h]) /\ memEnd \in Nat
              /\ memEnd < Wrap /\ 1792 <= memEnd
              /\ memSt \in Nat /\ 256 < memSt /\ memSt < 512
              /\ kern = KernPages(memEnd, memSt) /\ kern \in Nat
    BY OrdinaryRead
  <2>2. memSt < First /\ Last <= memEnd
    BY <2>1, OrdinaryPlan DEF First, Last
  <2>3. First \in Nat /\ Last \in Nat
    BY <2>1, SizesNat DEF First, Last
  <2>4. First .. Last - 1 \subseteq Memory(map[h])
    <3>1. map[h].addr <= memSt
      BY <2>1 DEF Main
    <3> QED BY <2>1, <2>2, <2>3, <3>1 DEF Memory
  <2> QED BY <2>1, <2>2, <2>4 DEF Main
<1> QED BY <1>1, TypeHolds, OInvHolds, PTL

\* pmm_init comes to its end on every ordinary machine of up to 896 MB.
THEOREM StartsUpCorrect == Spec => [](Ordinary => StartsUp)
<1>1. LInv /\ OInv => (Ordinary => StartsUp)
  <2> SUFFICES ASSUME LInv, OInv, Ordinary, pc # "probe",
                      \A i \in 1 .. Len(map) : map[i].type = ARM /\ map[i].addr < KMAXSIZE
                                               => EntryEnd(map[i]) <= KMEMSIZE
               PROVE  pc \notin {"panic", "fault"}
    BY DEF StartsUp
  <2>1. PICK h \in 1 .. Len(map) :
              /\ Main(h) /\ Planned(h)
              /\ map[h].addr \in Nat /\ map[h].addr < KMAXSIZE
              /\ memEnd = EntryEnd(map[h]) /\ memEnd \in Nat
              /\ memEnd < Wrap /\ 1792 <= memEnd
              /\ memSt \in Nat /\ 256 < memSt /\ memSt < 512
              /\ kern = KernPages(memEnd, memSt) /\ kern \in Nat
    BY OrdinaryRead DEF LInv
  <2>2. memEnd <= KMEMSIZE
    BY <2>1 DEF Main
  <2>3. pc # "panic"
    BY <2>1, <2>2, SMT DEF Planned, KMEMSIZE
  <2>4. ASSUME pc = "fault" PROVE FALSE
    <3>1. First < TablePages
      BY <2>1, <2>2, OrdinaryPlan DEF First
    <3>2. First >= TablePages
      BY <2>4 DEF LInv, FaultsOnlyBeyondBootMap
    <3>3. First \in Nat
      BY <2>1, SizesNat DEF First
    <3> QED BY <3>1, <3>2, <3>3 DEF TablePages
  <2> QED BY <2>3, <2>4
<1> QED BY <1>1, LInvHolds, OInvHolds, PTL
=============================================================================
