------------------------------ MODULE MCLayout ------------------------------
(***************************************************************************)
(* Layout for the memory map a PC's BIOS reports, with 8 MB to 3 GB of     *)
(* memory, for a machine whose memory goes on beyond 4 GB in one piece, so *)
(* that its end wraps, and for every kernel image that ends in the page    *)
(* range 0x108..0x1ff.                                                     *)
(***************************************************************************)
EXTENDS Layout

ARR == 2
Area(a, n, t) == [addr |-> a, size |-> n, type |-> t]

\* m MB: low memory, the BIOS's areas below and above it, and the last 128 KB
\* of the memory
PC(m) == << Area(0, 159, ARM), Area(159, 1, ARR), Area(240, 16, ARR),
            Area(256, 256 * m - 288, ARM), Area(256 * m - 32, 32, ARR),
            Area(1048512, 64, ARR) >>

\* No hole below 4 GB, and p pages beyond
Flat(p) == << Area(0, 159, ARM), Area(256, Wrap - 256 + p, ARM) >>

MCMaps == {PC(m) : m \in {8, 12, 32, 128, 511, 512, 896, 1024, 3072}} \cup {Flat(300)}
MCImageEnds == 264 .. 511
=============================================================================
