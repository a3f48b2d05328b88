------------------------------- MODULE Bitmap -------------------------------
(***************************************************************************)
(* The bitmaps of libs/bitmap.c: a map of len bytes is the set of its bits *)
(* that are set.                                                           *)
(***************************************************************************)
EXTENDS Integers

BIT_SCAN_FAIL == -1

\* Faulty variant: the bit is not set.
BitmapSetNever(bits, len, i) == bits

\* The number of the bit is compared with the number of bytes, so the bits of
\* all bytes but the first len \div 8 can never be set.
BitmapSet(bits, len, i) == IF i < len THEN bits \cup {i} ELSE bits

ByteFull(bits, b) == 8 * b .. 8 * b + 7 \subseteq bits

\* Where bitmap_scan_partial believes cnt clear bits begin.  The count is
\* forgotten at a byte that is full, but not at a bit that is set nor at the end
\* of a byte, where only the start is moved on: for more than one bit the answer
\* may be bits in use.
BitmapScan(bits, len, cnt) ==
    LET end == 8 * len
        From(cur, start, empty) == [cur |-> cur, start |-> start, empty |-> empty]
        scan[p \in [cur : 0 .. end, start : 0 .. end, empty : 0 .. cnt - 1]] ==
            IF p.cur = end THEN BIT_SCAN_FAIL
            ELSE IF p.cur % 8 = 0 /\ ByteFull(bits, p.cur \div 8)
                   THEN scan[From(p.cur + 8, p.cur + 8, 0)]
            ELSE IF p.cur \in bits THEN scan[From(p.cur + 1, p.cur + 1, p.empty)]
            ELSE IF p.empty + 1 = cnt THEN p.start
            ELSE scan[From(p.cur + 1,
                           IF (p.cur + 1) % 8 = 0 THEN p.cur + 1 ELSE p.start,
                           p.empty + 1)]
    IN  scan[From(0, 0, 0)]
=============================================================================
