---------------------------- MODULE ConsoleProofs ---------------------------
(***************************************************************************)
(* Proofs about Console, for any keys and serial characters, any size of   *)
(* the buffer and any number of events:                                    *)
(*                                                                         *)
(*   - shift, once the bytes under way are read, agrees with the keys      *)
(*     that are held;                                                      *)
(*   - console input implements CharQueue.                                 *)
(*                                                                         *)
(* What the keys have sent and kbd_proc_data has not read yet is judged    *)
(* through Spelt: each event of a key appends whole codes to the bytes     *)
(* under way (KeyDoes), each poll reads the first of them (SpeltFirst).    *)
(***************************************************************************)
EXTENDS Console, NatFacts, FiniteSetTheorems, SequenceTheorems, TLAPS

-----------------------------------------------------------------------------
(* The bytes that keys send.                                               *)

Shifts == SUBSET ShiftBits
Bytes  == 0 .. 255

\* The characters that a byte spells: one or none.
Letter(c) == IF c = NO THEN <<>> ELSE <<c>>

\* The keys of the model and the codes that they send when pressed.
LEMMA KeysAre ==
    DOMAIN MakeCode
      = {"A", "ENTER", "CAPS", "DELETE", "LSHIFT", "RSHIFT", "LCTL", "RCTL"}
BY DEF MakeCode

LEMMA MakeCodesAre ==
    /\ MakeCode["A"] = <<30>> /\ MakeCode["ENTER"] = <<28>> /\ MakeCode["CAPS"] = <<58>>
    /\ MakeCode["DELETE"] = <<224, 83>> /\ MakeCode["RCTL"] = <<224, 29>>
    /\ MakeCode["LSHIFT"] = <<42>> /\ MakeCode["RSHIFT"] = <<54>> /\ MakeCode["LCTL"] = <<29>>
BY DEF MakeCode

\* A released key sends its code with the top bit of the last byte set.
LEMMA OneByte ==
    ASSUME NEW k \in DOMAIN MakeCode, NEW b \in Nat, MakeCode[k] = <<b>>
    PROVE  BreakCode[k] = <<b + 128>>
<1>1. BreakCode[k] = [i \in DOMAIN <<b>> |-> <<b>>[i] + (IF i = Len(<<b>>) THEN 128 ELSE 0)]
  BY DEF BreakCode
<1>2. DOMAIN <<b>> = {1} /\ <<b>>[1] = b /\ Len(<<b>>) = 1
  OBVIOUS
<1>3. BreakCode[k] = [i \in {1} |-> b + 128]
  BY <1>1, <1>2
<1> QED BY <1>3

LEMMA TwoBytes ==
    ASSUME NEW k \in DOMAIN MakeCode, NEW a \in Nat, NEW b \in Nat, MakeCode[k] = <<a, b>>
    PROVE  BreakCode[k] = <<a, b + 128>>
<1>1. BreakCode[k] = [i \in DOMAIN <<a, b>> |-> <<a, b>>[i] + (IF i = Len(<<a, b>>) THEN 128 ELSE 0)]
  BY DEF BreakCode
<1>2. DOMAIN <<a, b>> = 1 .. 2 /\ <<a, b>>[1] = a /\ <<a, b>>[2] = b /\ Len(<<a, b>>) = 2
  OBVIOUS
<1>3. BreakCode[k] = [i \in 1 .. 2 |-> IF i = 2 THEN b + 128 ELSE a]
  BY <1>1, <1>2
<1> QED BY <1>3

\* The codes that released keys send.
LEMMA BreakCodesAre ==
    /\ BreakCode["A"] = <<158>> /\ BreakCode["ENTER"] = <<156>> /\ BreakCode["CAPS"] = <<186>>
    /\ BreakCode["DELETE"] = <<224, 211>> /\ BreakCode["RCTL"] = <<224, 157>>
    /\ BreakCode["LSHIFT"] = <<170>> /\ BreakCode["RSHIFT"] = <<182>>
    /\ BreakCode["LCTL"] = <<157>>
<1>1. BreakCode["A"] = <<30 + 128>> /\ BreakCode["ENTER"] = <<28 + 128>>
  BY OneByte, KeysAre, MakeCodesAre
<1>2. BreakCode["CAPS"] = <<58 + 128>> /\ BreakCode["LCTL"] = <<29 + 128>>
  BY OneByte, KeysAre, MakeCodesAre
<1>3. BreakCode["LSHIFT"] = <<42 + 128>> /\ BreakCode["RSHIFT"] = <<54 + 128>>
  BY OneByte, KeysAre, MakeCodesAre
<1>4. BreakCode["DELETE"] = <<224, 83 + 128>> /\ BreakCode["RCTL"] = <<224, 29 + 128>>
  BY TwoBytes, KeysAre, MakeCodesAre
<1> QED BY <1>1, <1>2, <1>3, <1>4

\* kbd_proc_data keeps shift a set of modifiers, whatever byte it reads.
LEMMA DecodeType ==
    ASSUME NEW s \in Shifts, NEW b \in Bytes
    PROVE  Decode(s, b) \in [shift : Shifts, c : Chars \cup {NO}]
<1>1. \A d : ShiftCode(d) \in Shifts /\ ToggleCode(d) \in Shifts
  BY DEF ShiftCode, ToggleCode, Shifts, ShiftBits
<1>2. \A t, d : CharCode(t, d) \in Chars \cup {NO}
  BY DEF CharCode, Chars, NO
<1>3. \A c \in Chars \cup {NO} : CapsSwap(c) \in Chars \cup {NO}
  BY DEF CapsSwap, Chars, NO
<1>4. CASE b = 224
  <2>1. Decode(s, b) = [shift |-> s \cup {"E0ESC"}, c |-> NO]
    BY <1>4 DEF Decode
  <2> QED BY <2>1 DEF Shifts, ShiftBits
<1>5. CASE b # 224 /\ b >= 128
  <2>1. \E A : Decode(s, b) = [shift |-> s \ A, c |-> NO]
    BY <1>5 DEF Decode
  <2> QED BY <2>1 DEF Shifts
<1>6. CASE b # 224 /\ ~(b >= 128)
  <2>1. \E A, d : LET t == SymDiff((s \ {"E0ESC"}) \cup ShiftCode(d), ToggleCode(d))
                      c == CharCode(t, d)
                  IN  Decode(s, b) = [shift |-> t, c |-> IF A THEN CapsSwap(c) ELSE c]
    BY <1>6 DEF Decode
  <2>2. \A d : SymDiff((s \ {"E0ESC"}) \cup ShiftCode(d), ToggleCode(d)) \in Shifts
    BY <1>1 DEF SymDiff, Shifts
  <2> QED BY <1>2, <1>3, <2>1, <2>2
<1> QED BY <1>4, <1>5, <1>6

\* What the bytes of each key do to shift, when it is in no prefix.
LEMMA PressBytes ==
    ASSUME NEW s \in Shifts, "E0ESC" \notin s
    PROVE  /\ Decode(s, 30).shift = s /\ Decode(s, 28).shift = s
           /\ Decode(s, 58).shift = SymDiff(s, {"CAPSLOCK"})
           /\ Decode(s, 42).shift = s \cup {"SHIFT"} /\ Decode(s, 54).shift = s \cup {"SHIFT"}
           /\ Decode(s, 29).shift = s \cup {"CTL"}
<1>1. ASSUME NEW b \in 0 .. 127
      PROVE  Decode(s, b).shift = SymDiff(s \cup ShiftCode(b), ToggleCode(b))
  <2>1. b # 224 /\ ~(b >= 128) /\ s \ {"E0ESC"} = s
    OBVIOUS
  <2> QED BY <2>1 DEF Decode
<1>2. \A A : SymDiff(A, {}) = A
  BY DEF SymDiff
<1>3. /\ ShiftCode(30) = {} /\ ShiftCode(28) = {} /\ ShiftCode(58) = {}
      /\ ToggleCode(30) = {} /\ ToggleCode(28) = {} /\ ToggleCode(58) = {"CAPSLOCK"}
  BY DEF ShiftCode, ToggleCode
<1>4. /\ ShiftCode(42) = {"SHIFT"} /\ ShiftCode(54) = {"SHIFT"} /\ ShiftCode(29) = {"CTL"}
      /\ ToggleCode(42) = {} /\ ToggleCode(54) = {} /\ ToggleCode(29) = {}
  BY DEF ShiftCode, ToggleCode
<1>5. ASSUME NEW b \in 0 .. 127, NEW A, ShiftCode(b) = A, ToggleCode(b) = {}
      PROVE  Decode(s, b).shift = s \cup A
  BY <1>1, <1>2, <1>5
<1>6. ASSUME NEW b \in 0 .. 127, ShiftCode(b) = {}, ToggleCode(b) = {}
      PROVE  Decode(s, b).shift = s
  <2>1. Decode(s, b).shift = s \cup {}
    BY <1>5, <1>6
  <2> QED BY <2>1
<1>7. Decode(s, 30).shift = s /\ Decode(s, 28).shift = s
  <2>1. 30 \in 0 .. 127 /\ 28 \in 0 .. 127
    OBVIOUS
  <2> QED BY <1>3, <1>6, <2>1, Zenon
<1>8. Decode(s, 58).shift = SymDiff(s, {"CAPSLOCK"})
  <2>1. Decode(s, 58).shift = SymDiff(s \cup ShiftCode(58), ToggleCode(58))
    BY <1>1
  <2>2. s \cup {} = s
    OBVIOUS
  <2> QED BY <1>3, <2>1, <2>2, Zenon
<1>9. /\ Decode(s, 42).shift = s \cup {"SHIFT"} /\ Decode(s, 54).shift = s \cup {"SHIFT"}
      /\ Decode(s, 29).shift = s \cup {"CTL"}
  <2>1. 42 \in 0 .. 127 /\ 54 \in 0 .. 127 /\ 29 \in 0 .. 127
    OBVIOUS
  <2> QED BY <1>4, <1>5, <2>1, Zenon
<1> QED BY <1>7, <1>8, <1>9

\* The same for the codes of released keys.
LEMMA ReleaseBytes ==
    ASSUME NEW s \in Shifts, "E0ESC" \notin s
    PROVE  /\ Decode(s, 158).shift = s /\ Decode(s, 156).shift = s /\ Decode(s, 186).shift = s
           /\ Decode(s, 170).shift = s \ {"SHIFT"} /\ Decode(s, 182).shift = s \ {"SHIFT"}
           /\ Decode(s, 157).shift = s \ {"CTL"}
<1>1. ASSUME NEW b \in 128 .. 255, b # 224
      PROVE  Decode(s, b).shift = s \ (ShiftCode(b - 128) \cup {"E0ESC"})
  BY <1>1 DEF Decode
<1>2. /\ ShiftCode(30) = {} /\ ShiftCode(28) = {} /\ ShiftCode(58) = {}
      /\ ShiftCode(42) = {"SHIFT"} /\ ShiftCode(54) = {"SHIFT"} /\ ShiftCode(29) = {"CTL"}
  BY DEF ShiftCode
<1>3. ASSUME NEW b \in 128 .. 255, b # 224, NEW A, ShiftCode(b - 128) = A
      PROVE  Decode(s, b).shift = s \ A
  <2>1. s \ (A \cup {"E0ESC"}) = s \ A
    OBVIOUS
  <2> QED BY <1>1, <1>3, <2>1
<1>4. ASSUME NEW b \in 128 .. 255, b # 224, ShiftCode(b - 128) = {}
      PROVE  Decode(s, b).shift = s
  <2>1. Decode(s, b).shift = s \ {}
    BY <1>3, <1>4
  <2> QED BY <2>1
<1>5. /\ 158 - 128 = 30 /\ 156 - 128 = 28 /\ 186 - 128 = 58
      /\ 170 - 128 = 42 /\ 182 - 128 = 54 /\ 157 - 128 = 29
  OBVIOUS
<1>6. Decode(s, 158).shift = s /\ Decode(s, 156).shift = s /\ Decode(s, 186).shift = s
  <2>1. \A b \in {158, 156, 186} : b \in 128 .. 255 /\ b # 224 /\ ShiftCode(b - 128) = {}
    BY <1>2, <1>5
  <2> QED BY <1>4, <2>1
<1>7. Decode(s, 170).shift = s \ {"SHIFT"} /\ Decode(s, 182).shift = s \ {"SHIFT"}
  <2>1. \A b \in {170, 182} : b \in 128 .. 255 /\ b # 224 /\ ShiftCode(b - 128) = {"SHIFT"}
    BY <1>2, <1>5
  <2> QED BY <1>3, <2>1
<1>8. Decode(s, 157).shift = s \ {"CTL"}
  <2>1. 157 \in 128 .. 255 /\ 157 # 224 /\ ShiftCode(157 - 128) = {"CTL"}
    BY <1>2, <1>5
  <2> QED BY <1>3, <2>1
<1> QED BY <1>6, <1>7, <1>8

\* The prefix, and the bytes behind it.
LEMMA PrefixBytes ==
    ASSUME NEW s \in Shifts, "E0ESC" \notin s
    PROVE  LET e == s \cup {"E0ESC"}
           IN  /\ Decode(s, 224) = [shift |-> e, c |-> NO]
               /\ Decode(e, 83).shift = s /\ Decode(e, 29).shift = s \cup {"CTL"}
               /\ Decode(e, 211).shift = s /\ Decode(e, 157).shift = s \ {"CTL"}
<1> DEFINE e == s \cup {"E0ESC"}
<1>1. Decode(s, 224) = [shift |-> e, c |-> NO]
  BY DEF Decode
<1>2. "E0ESC" \in e /\ e \ {"E0ESC"} = s /\ \A A : e \ (A \cup {"E0ESC"}) = s \ A
  OBVIOUS
<1> HIDE DEF e
<1>3. ASSUME NEW b \in 0 .. 127
      PROVE  Decode(e, b).shift = SymDiff(s \cup ShiftCode(b + 128), ToggleCode(b + 128))
  <2>1. b # 224 /\ ~(b >= 128)
    OBVIOUS
  <2> QED BY <1>2, <2>1 DEF Decode
<1>4. ASSUME NEW b \in 128 .. 255, b # 224
      PROVE  Decode(e, b).shift = s \ ShiftCode(b)
  BY <1>2, <1>4 DEF Decode
<1>5. /\ ShiftCode(211) = {} /\ ToggleCode(211) = {}
      /\ ShiftCode(157) = {"CTL"} /\ ToggleCode(157) = {}
  BY DEF ShiftCode, ToggleCode
<1>6. (\A A : SymDiff(A, {}) = A) /\ s \cup {} = s /\ s \ {} = s
  BY DEF SymDiff
<1>7. /\ Decode(e, 83).shift = SymDiff(s \cup ShiftCode(211), ToggleCode(211))
      /\ Decode(e, 29).shift = SymDiff(s \cup ShiftCode(157), ToggleCode(157))
  <2>1. 83 \in 0 .. 127 /\ 83 + 128 = 211 /\ 29 \in 0 .. 127 /\ 29 + 128 = 157
    OBVIOUS
  <2>2. /\ Decode(e, 83).shift = SymDiff(s \cup ShiftCode(83 + 128), ToggleCode(83 + 128))
        /\ Decode(e, 29).shift = SymDiff(s \cup ShiftCode(29 + 128), ToggleCode(29 + 128))
    BY <1>3, <2>1
  <2> QED BY <2>1, <2>2
<1>8. Decode(e, 211).shift = s \ ShiftCode(211) /\ Decode(e, 157).shift = s \ ShiftCode(157)
  <2>1. 211 \in 128 .. 255 /\ 211 # 224 /\ 157 \in 128 .. 255 /\ 157 # 224
    OBVIOUS
  <2> QED BY <1>4, <2>1
<1>9. Decode(e, 83).shift = s /\ Decode(e, 29).shift = s \cup {"CTL"}
  BY <1>5, <1>6, <1>7
<1>10. Decode(e, 211).shift = s /\ Decode(e, 157).shift = s \ {"CTL"}
  BY <1>5, <1>6, <1>8
<1> QED BY <1>1, <1>9, <1>10 DEF e

\* shift s names the modifiers as ModifiersFollow says while the keys h are down.
Follows(s, h, m, K) == /\ m \in s => K \cap h # {}
                       /\ \A x : K = {x} /\ x \in h => m \in s
ShiftKeys == {"LSHIFT", "RSHIFT"} \cap Keys
CtlKeys   == {"LCTL", "RCTL"} \cap Keys
Mods(s, h, caps) == /\ s \in Shifts /\ "E0ESC" \notin s
                    /\ Follows(s, h, "SHIFT", ShiftKeys) /\ Follows(s, h, "CTL", CtlKeys)
                    /\ ("CAPSLOCK" \in s) = caps

\* A modifier keeps following its keys when neither of them changes,
LEMMA FollowsSame ==
    ASSUME NEW s, NEW h, NEW t, NEW g, NEW m, NEW K, Follows(s, h, m, K),
           m \in t <=> m \in s, K \cap g = K \cap h
    PROVE  Follows(t, g, m, K)
<1>1. ASSUME NEW x, K = {x}, x \in g PROVE m \in t
  <2>1. x \in h
    BY <1>1
  <2> QED BY <1>1, <2>1 DEF Follows
<1> QED BY <1>1 DEF Follows

\* when one of its keys is down and it is set,
LEMMA FollowsDown ==
    ASSUME NEW t, NEW g, NEW m, NEW K, NEW k \in K, k \in g, m \in t
    PROVE  Follows(t, g, m, K)
BY DEF Follows

\* and when one of its keys is up and it is cleared.
LEMMA FollowsUp ==
    ASSUME NEW t, NEW g, NEW m, NEW K, NEW k \in K, k \notin g, m \notin t
    PROVE  Follows(t, g, m, K)
BY DEF Follows

-----------------------------------------------------------------------------
(* What bytes spell.                                                       *)

\* f has the results byte by byte.
Runs(f, s, bytes) == /\ f[0] = [shift |-> s, out |-> <<>>]
                     /\ \A k \in 1 .. Len(bytes) : f[k] = Spelling(f[k - 1], bytes[k])

\* Spelt is the last result of such a run.
LEMMA SpeltRuns ==
    ASSUME NEW s, NEW bytes, Len(bytes) \in Nat
    PROVE  \E f : Runs(f, s, bytes) /\ Spelt(s, bytes) = f[Len(bytes)]
<1>0. PICK n \in Nat : n = Len(bytes)
  OBVIOUS
<1> DEFINE D == 0 .. n
           Image(S, k) == {Spelling(r, bytes[k]) : r \in S}
<1>1. PICK r0 : r0 = [shift |-> s, out |-> <<>>]
  OBVIOUS
<1> DEFINE Body(f, k) == IF k = 0 THEN {r0} ELSE Image(f[k - 1], k)
           Fix(f) == f = [k \in D |-> Body(f, k)]
           To(m) == \E f : f[0] = {r0} /\ \A k \in 1 .. m : f[k] = Image(f[k - 1], k)
           after == CHOOSE f : Fix(f)
<1>2. Spelt(s, bytes) = CHOOSE r \in after[n] : TRUE
  BY <1>0, <1>1 DEF Spelt
<1> HIDE DEF Image
<1>3. To(n)
  <2> DEFINE T == {m \in Nat : To(m)}
  <2>1. 0 \in T
    <3> DEFINE g == [k \in {0} |-> {r0}]
    <3>1. g[0] = {r0} /\ \A k \in 1 .. 0 : g[k] = Image(g[k - 1], k)
      OBVIOUS
    <3> HIDE DEF g
    <3> QED BY <3>1
  <2>2. ASSUME NEW m \in 0 .. n - 1, m \in T PROVE m + 1 \in T
    <3>1. PICK f : f[0] = {r0} /\ \A k \in 1 .. m : f[k] = Image(f[k - 1], k)
      BY <2>2
    <3> DEFINE g == [k \in 0 .. m + 1 |-> IF k = m + 1 THEN Image(f[m], m + 1) ELSE f[k]]
    <3>2. g[m + 1] = Image(f[m], m + 1) /\ \A k \in 0 .. m : g[k] = f[k]
      BY <2>2
    <3> HIDE DEF g
    <3>3. g[0] = {r0}
      BY <3>1, <3>2
    <3>4. ASSUME NEW k \in 1 .. m + 1 PROVE g[k] = Image(g[k - 1], k)
      <4>1. CASE k = m + 1
        <5>1. k - 1 = m /\ m \in 0 .. m
          BY <4>1
        <5> QED BY <3>2, <4>1, <5>1
      <4>2. CASE k \in 1 .. m
        <5>1. k \in 0 .. m /\ k - 1 \in 0 .. m
          BY <4>2
        <5> QED BY <3>1, <3>2, <4>2, <5>1
      <4> QED BY <4>1, <4>2
    <3>5. To(m + 1) /\ m + 1 \in Nat
      BY <3>3, <3>4
    <3> HIDE DEF To
    <3> QED BY <3>5
  <2> HIDE DEF To
  <2>3. 0 \in T /\ \A m \in 0 .. n - 1 : m \in T => m + 1 \in T
    BY <2>1, <2>2
  <2> HIDE DEF T
  <2>4. \A m \in 0 .. n : m \in T
    BY <2>3, IntervalInduction
  <2>5. n \in T
    BY <2>4
  <2> QED BY <2>5 DEF T
<1>4. \E f : Fix(f)
  <2>1. PICK f : f[0] = {r0} /\ \A k \in 1 .. n : f[k] = Image(f[k - 1], k)
    BY <1>3
  <2> DEFINE g == [k \in D |-> f[k]]
  <2>2. \A k \in D : f[k] = Body(g, k)
    <3> TAKE k \in D
    <3>1. CASE k = 0
      BY <2>1, <3>1
    <3>2. CASE k # 0
      <4>1. k \in 1 .. n /\ k - 1 \in D
        BY <3>2
      <4>2. g[k - 1] = f[k - 1]
        BY <4>1
      <4> QED BY <2>1, <3>2, <4>1, <4>2
    <3> QED BY <3>1, <3>2
  <2>3. g = [k \in D |-> Body(g, k)]
    <3> DEFINE B(k) == Body(g, k)
    <3>1. \A k \in D : f[k] = B(k)
      BY <2>2
    <3> HIDE DEF B
    <3>2. g = [k \in D |-> B(k)]
      BY <3>1
    <3> QED BY <3>2 DEF B
  <2> QED BY <2>3
<1>5. Fix(after)
  <2> HIDE DEF Fix
  <2> QED BY <1>4
<1> HIDE DEF after
<1>6. \A k \in D : after[k] = Body(after, k)
  <2> DEFINE B(k) == Body(after, k)
  <2>1. after = [k \in D |-> B(k)]
    BY <1>5
  <2> HIDE DEF B
  <2>2. \A k \in D : after[k] = B(k)
    BY <2>1
  <2> QED BY <2>2 DEF B
<1>7. after[0] = {r0}
  BY <1>6
<1>8. \A k \in 1 .. n : after[k] = Image(after[k - 1], k)
  <2> TAKE k \in 1 .. n
  <2>1. k \in D /\ k # 0
    OBVIOUS
  <2> QED BY <1>6, <2>1
<1> DEFINE g(k) == CHOOSE r \in after[k] : TRUE
<1> HIDE DEF Image
<1>9. \A r, k : Image({r}, k) = {Spelling(r, bytes[k])}
  BY DEF Image
<1>10. \A x : (CHOOSE r \in {x} : TRUE) = x
  OBVIOUS
<1>11. \A k \in 0 .. n : after[k] = {g(k)}
  <2> DEFINE T == {k \in 0 .. n : after[k] = {g(k)}}
  <2>1. 0 \in T
    BY <1>7, <1>10
  <2>2. ASSUME NEW k \in 0 .. n - 1, k \in T PROVE k + 1 \in T
    <3>1. k + 1 \in 1 .. n /\ (k + 1) - 1 = k
      OBVIOUS
    <3>2. after[k + 1] = Image(after[k], k + 1)
      BY <1>8, <3>1
    <3>3. after[k + 1] = {Spelling(g(k), bytes[k + 1])}
      BY <1>9, <2>2, <3>2
    <3>4. g(k + 1) = Spelling(g(k), bytes[k + 1])
      BY <1>10, <3>3
    <3>5. k + 1 \in 0 .. n
      BY <3>1
    <3> HIDE DEF g
    <3>6. after[k + 1] = {g(k + 1)}
      BY <3>3, <3>4
    <3> QED BY <3>5, <3>6
  <2> HIDE DEF T
  <2>3. \A k \in 0 .. n : k \in T
    BY <2>1, <2>2, IntervalInduction
  <2> QED BY <2>3 DEF T
<1>12. \A k \in 1 .. n : g(k) = Spelling(g(k - 1), bytes[k])
  <2> TAKE k \in 1 .. n
  <2>1. after[k - 1] = {g(k - 1)}
    BY <1>11
  <2>2. after[k] = {Spelling(g(k - 1), bytes[k])}
    BY <1>8, <1>9, <2>1
  <2> QED BY <1>10, <2>2
<1>13. g(0) = r0
  BY <1>7, <1>10
<1> HIDE DEF g
<1> DEFINE h == [k \in 0 .. n |-> g(k)]
<1>14. \A k \in 0 .. n : h[k] = g(k)
  OBVIOUS
<1>15. \A k \in 1 .. n : k \in 0 .. n /\ k - 1 \in 0 .. n
  OBVIOUS
<1> HIDE DEF h
<1>16. Runs(h, s, bytes)
  BY <1>0, <1>1, <1>12, <1>13, <1>14, <1>15 DEF Runs
<1>17. Spelt(s, bytes) = h[n]
  BY <1>2, <1>14 DEF g
<1> QED BY <1>0, <1>16, <1>17

\* The results depend on the bytes so far.
LEMMA RunsAgree ==
    ASSUME NEW s, NEW f, NEW a, Runs(f, s, a), NEW g, NEW b, Runs(g, s, b),
           NEW n \in Nat, Len(a) \in Nat, Len(b) \in Nat, n <= Len(a), n <= Len(b),
           \A k \in 1 .. n : a[k] = b[k]
    PROVE  f[n] = g[n]
<1> DEFINE T == {k \in 0 .. n : f[k] = g[k]}
<1>1. 0 \in T
  BY DEF Runs
<1>2. ASSUME NEW k \in 0 .. n - 1, k \in T PROVE k + 1 \in T
  <2>1. k + 1 \in 1 .. n /\ k + 1 \in 1 .. Len(a) /\ k + 1 \in 1 .. Len(b) /\ (k + 1) - 1 = k
    OBVIOUS
  <2>2. f[k + 1] = Spelling(f[k], a[k + 1]) /\ g[k + 1] = Spelling(g[k], b[k + 1])
    BY <2>1 DEF Runs
  <2> QED BY <1>2, <2>1, <2>2
<1> HIDE DEF T
<1>3. \A k \in 0 .. n : k \in T
  BY <1>1, <1>2, IntervalInduction
<1> QED BY <1>3 DEF T

Results == [shift : Shifts, out : Seq(Chars)]

\* One byte more adds its letter to the characters.
LEMMA SpellingType ==
    ASSUME NEW r \in Results, NEW b \in Bytes
    PROVE  /\ Spelling(r, b) \in Results
           /\ Spelling(r, b).shift = Decode(r.shift, b).shift
           /\ Spelling(r, b).out = r.out \o Letter(Decode(r.shift, b).c)
           /\ Letter(Decode(r.shift, b).c) \in Seq(Chars)
<1>1. PICK d \in [shift : Shifts, c : Chars \cup {NO}] : d = Decode(r.shift, b)
  BY DecodeType DEF Results
<1>2. Spelling(r, b) = [shift |-> d.shift, out |-> IF d.c = NO THEN r.out ELSE Append(r.out, d.c)]
  BY <1>1 DEF Spelling
<1>3. r.out \in Seq(Chars)
  BY DEF Results
<1>4. CASE d.c = NO
  <2>1. r.out \o <<>> = r.out
    BY <1>3, ConcatEmptySeq
  <2> QED BY <1>1, <1>2, <1>3, <1>4, <2>1 DEF Results, Letter
<1>5. CASE d.c # NO
  <2>1. d.c \in Chars
    BY <1>5
  <2>2. Append(r.out, d.c) \in Seq(Chars) /\ <<d.c>> \in Seq(Chars)
    BY <1>3, <2>1
  <2>3. r.out \o <<d.c>> = Append(r.out, d.c)
    BY <1>3, <2>1, AppendIsConcat
  <2>4. Letter(d.c) = <<d.c>>
    BY <1>5 DEF Letter
  <2>5. Spelling(r, b) = [shift |-> d.shift, out |-> Append(r.out, d.c)]
    BY <1>2, <1>5
  <2>6. Spelling(r, b) \in Results
    BY <1>1, <2>2, <2>5 DEF Results
  <2>7. /\ Spelling(r, b).shift = d.shift
        /\ Spelling(r, b).out = r.out \o <<d.c>>
    BY <2>3, <2>5
  <2> QED BY <1>1, <2>2, <2>4, <2>6, <2>7
<1> QED BY <1>4, <1>5

\* Every result of a run is one.
LEMMA RunTypes ==
    ASSUME NEW s \in Shifts, NEW bytes \in Seq(Bytes), NEW f, Runs(f, s, bytes)
    PROVE  \A k \in 0 .. Len(bytes) : f[k] \in Results
<1> DEFINE n == Len(bytes)
           T == {k \in 0 .. n : f[k] \in Results}
<1>1. n \in Nat
  OBVIOUS
<1>2. 0 \in T
  <2>1. <<>> \in Seq(Chars)
    OBVIOUS
  <2>2. [shift |-> s, out |-> <<>>] \in Results
    BY <2>1 DEF Results
  <2>3. f[0] \in Results
    BY <2>2 DEF Runs
  <2>4. 0 \in 0 .. n
    BY <1>1
  <2> QED BY <2>3, <2>4
<1>3. ASSUME NEW k \in 0 .. n - 1, k \in T PROVE k + 1 \in T
  <2>1. k + 1 \in 1 .. n /\ (k + 1) - 1 = k /\ bytes[k + 1] \in Bytes
    BY <1>1
  <2>2. f[k + 1] = Spelling(f[k], bytes[k + 1])
    BY <2>1 DEF Runs
  <2>3. f[k] \in Results
    BY <1>3
  <2>4. f[k + 1] \in Results
    BY <2>1, <2>2, <2>3, SpellingType
  <2>5. k + 1 \in 0 .. n
    BY <2>1
  <2> QED BY <2>4, <2>5
<1> HIDE DEF T, n
<1>4. \A k \in 0 .. n : k \in T
  BY <1>1, <1>2, <1>3, IntervalInduction
<1> QED BY <1>4 DEF T, n

\* No bytes spell nothing.
LEMMA SpeltNone ==
    ASSUME NEW s
    PROVE  Spelt(s, <<>>) = [shift |-> s, out |-> <<>>]
<1>1. Len(<<>>) = 0 /\ 0 \in Nat
  OBVIOUS
<1> QED BY <1>1, SpeltRuns DEF Runs

\* What bytes spell has its type.
LEMMA SpeltType ==
    ASSUME NEW s \in Shifts, NEW bytes \in Seq(Bytes)
    PROVE  Spelt(s, bytes) \in Results
<1>1. Len(bytes) \in Nat /\ Len(bytes) \in 0 .. Len(bytes)
  OBVIOUS
<1>2. PICK f : Runs(f, s, bytes) /\ Spelt(s, bytes) = f[Len(bytes)]
  BY <1>1, SpeltRuns
<1> QED BY <1>1, <1>2, RunTypes

\* A byte more is decoded last.
LEMMA SpeltAppend ==
    ASSUME NEW s \in Shifts, NEW bytes \in Seq(Bytes), NEW b \in Bytes
    PROVE  Spelt(s, Append(bytes, b)) = Spelling(Spelt(s, bytes), b)
<1> DEFINE more == Append(bytes, b)
<1>1. PICK n \in Nat : n = Len(bytes)
  OBVIOUS
<1>2. /\ Len(more) = n + 1 /\ more[n + 1] = b
      /\ \A k \in 1 .. n : bytes[k] = more[k]
  BY <1>1
<1> HIDE DEF more
<1>3. PICK f : Runs(f, s, bytes) /\ Spelt(s, bytes) = f[n]
  BY <1>1, SpeltRuns
<1>4. PICK g : Runs(g, s, more) /\ Spelt(s, more) = g[n + 1]
  <2>1. Len(more) \in Nat
    BY <1>2
  <2> QED BY <1>2, <2>1, SpeltRuns
<1>5. f[n] = g[n]
  <2>1. n <= Len(bytes) /\ n <= Len(more) /\ Len(bytes) \in Nat /\ Len(more) \in Nat
    BY <1>1, <1>2
  <2> QED BY <1>2, <1>3, <1>4, <2>1, RunsAgree
<1>6. g[n + 1] = Spelling(g[n], b)
  <2>1. n + 1 \in 1 .. Len(more) /\ (n + 1) - 1 = n
    BY <1>2
  <2> QED BY <1>2, <1>4, <2>1 DEF Runs
<1> QED BY <1>3, <1>4, <1>5, <1>6 DEF more

\* The first byte is decoded first.
LEMMA SpeltFirst ==
    ASSUME NEW s \in Shifts, NEW bytes \in Seq(Bytes), bytes # <<>>
    PROVE  LET d == Decode(s, Head(bytes))
           IN  /\ Spelt(s, bytes).shift = Spelt(d.shift, Tail(bytes)).shift
               /\ Spelt(s, bytes).out = Letter(d.c) \o Spelt(d.shift, Tail(bytes)).out
<1>1. PICK n \in Nat : Len(bytes) = n + 1
  <2>1. Len(bytes) \in Nat /\ Len(bytes) # 0
    OBVIOUS
  <2>2. Len(bytes) - 1 \in Nat /\ Len(bytes) = (Len(bytes) - 1) + 1
    BY <2>1
  <2> QED BY <2>2
<1>2. PICK rest \in Seq(Bytes) : rest = Tail(bytes)
  BY HeadTailProperties
<1>3. Len(rest) = n /\ \A k \in 1 .. n : rest[k] = bytes[k + 1]
  BY <1>1, <1>2
<1>4. PICK b \in Bytes : b = Head(bytes) /\ b = bytes[1]
  BY <1>1
<1>5. PICK d \in [shift : Shifts, c : Chars \cup {NO}] : d = Decode(s, b)
  BY DecodeType
<1>6. PICK f : Runs(f, s, bytes) /\ Spelt(s, bytes) = f[n + 1]
  BY <1>1, SpeltRuns
<1>7. PICK g : Runs(g, d.shift, rest) /\ Spelt(d.shift, rest) = g[n]
  <2>1. Len(rest) \in Nat
    OBVIOUS
  <2> QED BY <1>3, <2>1, SpeltRuns
<1>8. PICK l \in Seq(Chars) : l = Letter(d.c)
  <2>1. [shift |-> s, out |-> <<>>] \in Results
    <3>1. <<>> \in Seq(Chars)
      OBVIOUS
    <3> QED BY <3>1 DEF Results
  <2>2. Letter(Decode(s, b).c) \in Seq(Chars)
    BY <2>1, SpellingType
  <2> QED BY <1>5, <2>2
<1>9. \A k \in 0 .. n : g[k] \in Results
  BY <1>3, <1>7, RunTypes
<1>10. \A k \in 0 .. n + 1 : f[k] \in Results
  BY <1>1, <1>6, RunTypes
<1> DEFINE Same(k) == f[k + 1].shift = g[k].shift /\ f[k + 1].out = l \o g[k].out
           T == {k \in 0 .. n : Same(k)}
<1>11. 0 \in T
  <2>1. f[0] = [shift |-> s, out |-> <<>>] /\ g[0] = [shift |-> d.shift, out |-> <<>>]
    BY <1>6, <1>7 DEF Runs
  <2>2. f[1] = Spelling(f[0], b)
    <3>1. 1 \in 1 .. Len(bytes) /\ 1 - 1 = 0
      BY <1>1
    <3> QED BY <1>4, <1>6, <3>1 DEF Runs
  <2>3. PICK x \in Results : x = f[0] /\ x.shift = s /\ x.out = <<>>
    BY <1>10, <2>1
  <2>4. f[1].shift = d.shift /\ f[1].out = <<>> \o l
    <3>1. /\ Spelling(x, b).shift = Decode(x.shift, b).shift
          /\ Spelling(x, b).out = x.out \o Letter(Decode(x.shift, b).c)
      BY SpellingType
    <3> QED BY <1>5, <1>8, <2>2, <2>3, <3>1
  <2>5. <<>> \o l = l /\ l \o <<>> = l
    BY ConcatEmptySeq
  <2> QED BY <2>1, <2>4, <2>5
<1>12. ASSUME NEW k \in 0 .. n - 1, k \in T PROVE k + 1 \in T
  <2>1. /\ k + 1 \in 1 .. n /\ (k + 1) - 1 = k /\ k + 1 \in 1 .. Len(rest)
        /\ k + 2 \in 1 .. Len(bytes) /\ (k + 2) - 1 = k + 1 /\ (k + 1) + 1 = k + 2
        /\ k + 1 \in 0 .. n + 1 /\ k \in 0 .. n
    BY <1>1, <1>3
  <2>2. PICK c \in Bytes : c = rest[k + 1] /\ c = bytes[k + 2]
    BY <1>3, <2>1
  <2>3. g[k + 1] = Spelling(g[k], c)
    BY <1>7, <2>1, <2>2 DEF Runs
  <2>4. f[k + 2] = Spelling(f[k + 1], c)
    BY <1>6, <2>1, <2>2 DEF Runs
  <2>5. PICK x \in Results : x = f[k + 1]
    BY <1>10, <2>1
  <2>6. PICK y \in Results : y = g[k]
    BY <1>9, <2>1
  <2>7. x.shift = y.shift /\ x.out = l \o y.out
    BY <1>12, <2>5, <2>6
  <2>8. PICK e \in Seq(Chars) : e = Letter(Decode(y.shift, c).c)
    BY SpellingType
  <2>9. /\ f[k + 2].shift = Decode(y.shift, c).shift /\ g[k + 1].shift = Decode(y.shift, c).shift
        /\ f[k + 2].out = x.out \o e /\ g[k + 1].out = y.out \o e
    <3>1. /\ Spelling(x, c).shift = Decode(x.shift, c).shift
          /\ Spelling(x, c).out = x.out \o Letter(Decode(x.shift, c).c)
      BY SpellingType
    <3>2. /\ Spelling(y, c).shift = Decode(y.shift, c).shift
          /\ Spelling(y, c).out = y.out \o Letter(Decode(y.shift, c).c)
      BY SpellingType
    <3> QED BY <2>3, <2>4, <2>5, <2>6, <2>7, <2>8, <3>1, <3>2
  <2>10. (l \o y.out) \o e = l \o (y.out \o e)
    <3>1. PICK u \in Seq(Chars) : u = y.out
      BY DEF Results
    <3>2. (l \o u) \o e = l \o (u \o e)
      BY ConcatAssociative
    <3> QED BY <3>1, <3>2
  <2>11. Same(k + 1)
    BY <2>1, <2>7, <2>9, <2>10
  <2> HIDE DEF Same
  <2> QED BY <2>1, <2>11
<1> HIDE DEF T
<1>13. \A k \in 0 .. n : k \in T
  BY <1>11, <1>12, IntervalInduction
<1>14. Same(n)
  BY <1>13 DEF T
<1> QED BY <1>2, <1>4, <1>5, <1>6, <1>7, <1>8, <1>14

-----------------------------------------------------------------------------
(* The modifiers.                                                          *)

\* What a key that is pressed or released does to shift.
PressedShift(s, k) ==
    CASE k = "CAPS" -> SymDiff(s, {"CAPSLOCK"})
      [] k \in {"LSHIFT", "RSHIFT"} -> s \cup {"SHIFT"}
      [] k \in {"LCTL", "RCTL"} -> s \cup {"CTL"}
      [] OTHER -> s
ReleasedShift(s, k) ==
    CASE k \in {"LSHIFT", "RSHIFT"} -> s \ {"SHIFT"}
      [] k \in {"LCTL", "RCTL"} -> s \ {"CTL"}
      [] OTHER -> s

\* Bytes that take shift from s to t: one, or one behind a prefix.
Takes(bytes, s, t) ==
    \E b \in Bytes : \/ bytes = <<b>> /\ Decode(s, b).shift = t
                     \/ bytes = <<224, b>> /\ Decode(s \cup {"E0ESC"}, b).shift = t

LEMMA TakesOne ==
    ASSUME NEW s, NEW t, NEW b \in Bytes, Decode(s, b).shift = t
    PROVE  Takes(<<b>>, s, t)
BY DEF Takes

LEMMA TakesTwo ==
    ASSUME NEW s, NEW t, NEW b \in Bytes, Decode(s \cup {"E0ESC"}, b).shift = t
    PROVE  Takes(<<224, b>>, s, t)
BY DEF Takes

\* What the whole code of a key does to shift, when it is pressed,
LEMMA PressTakes ==
    ASSUME NEW s \in Shifts, "E0ESC" \notin s, NEW k \in DOMAIN MakeCode
    PROVE  Takes(MakeCode[k], s, PressedShift(s, k))
<1>1. CASE k = "A"
  <2>1. PressedShift(s, k) = s /\ 30 \in Bytes
    BY <1>1 DEF PressedShift, Bytes
  <2>2. Decode(s, 30).shift = s
    BY PressBytes
  <2>3. Takes(<<30>>, s, s)
    BY <2>1, <2>2, TakesOne
  <2> QED BY <1>1, <2>1, <2>3, MakeCodesAre
<1>2. CASE k = "ENTER"
  <2>1. PressedShift(s, k) = s /\ 28 \in Bytes
    BY <1>2 DEF PressedShift, Bytes
  <2>2. Decode(s, 28).shift = s
    BY PressBytes
  <2>3. Takes(<<28>>, s, s)
    BY <2>1, <2>2, TakesOne
  <2> QED BY <1>2, <2>1, <2>3, MakeCodesAre
<1>3. CASE k = "CAPS"
  <2>1. PressedShift(s, k) = SymDiff(s, {"CAPSLOCK"}) /\ 58 \in Bytes
    BY <1>3 DEF PressedShift, Bytes
  <2>2. Decode(s, 58).shift = SymDiff(s, {"CAPSLOCK"})
    BY PressBytes
  <2>3. Takes(<<58>>, s, SymDiff(s, {"CAPSLOCK"}))
    BY <2>1, <2>2, TakesOne
  <2> QED BY <1>3, <2>1, <2>3, MakeCodesAre
<1>4. CASE k = "LSHIFT"
  <2>1. PressedShift(s, k) = s \cup {"SHIFT"} /\ 42 \in Bytes
    BY <1>4 DEF PressedShift, Bytes
  <2>2. Decode(s, 42).shift = s \cup {"SHIFT"}
    BY PressBytes
  <2>3. Takes(<<42>>, s, s \cup {"SHIFT"})
    BY <2>1, <2>2, TakesOne
  <2> QED BY <1>4, <2>1, <2>3, MakeCodesAre
<1>5. CASE k = "RSHIFT"
  <2>1. PressedShift(s, k) = s \cup {"SHIFT"} /\ 54 \in Bytes
    BY <1>5 DEF PressedShift, Bytes
  <2>2. Decode(s, 54).shift = s \cup {"SHIFT"}
    BY PressBytes
  <2>3. Takes(<<54>>, s, s \cup {"SHIFT"})
    BY <2>1, <2>2, TakesOne
  <2> QED BY <1>5, <2>1, <2>3, MakeCodesAre
<1>6. CASE k = "LCTL"
  <2>1. PressedShift(s, k) = s \cup {"CTL"} /\ 29 \in Bytes
    BY <1>6 DEF PressedShift, Bytes
  <2>2. Decode(s, 29).shift = s \cup {"CTL"}
    BY PressBytes
  <2>3. Takes(<<29>>, s, s \cup {"CTL"})
    BY <2>1, <2>2, TakesOne
  <2> QED BY <1>6, <2>1, <2>3, MakeCodesAre
<1>7. CASE k = "RCTL"
  <2>1. PressedShift(s, k) = s \cup {"CTL"} /\ 29 \in Bytes
    BY <1>7 DEF PressedShift, Bytes
  <2>2. Decode(s \cup {"E0ESC"}, 29).shift = s \cup {"CTL"}
    BY PrefixBytes
  <2>3. Takes(<<224, 29>>, s, s \cup {"CTL"})
    BY <2>1, <2>2, TakesTwo
  <2> QED BY <1>7, <2>1, <2>3, MakeCodesAre
<1>8. CASE k = "DELETE"
  <2>1. PressedShift(s, k) = s /\ 83 \in Bytes
    BY <1>8 DEF PressedShift, Bytes
  <2>2. Decode(s \cup {"E0ESC"}, 83).shift = s
    BY PrefixBytes
  <2>3. Takes(<<224, 83>>, s, s)
    BY <2>1, <2>2, TakesTwo
  <2> QED BY <1>8, <2>1, <2>3, MakeCodesAre
<1> QED BY <1>1, <1>2, <1>3, <1>4, <1>5, <1>6, <1>7, <1>8, KeysAre

\* and when it is released.
LEMMA ReleaseTakes ==
    ASSUME NEW s \in Shifts, "E0ESC" \notin s, NEW k \in DOMAIN MakeCode
    PROVE  Takes(BreakCode[k], s, ReleasedShift(s, k))
<1>1. CASE k = "A"
  <2>1. ReleasedShift(s, k) = s /\ 158 \in Bytes
    BY <1>1 DEF ReleasedShift, Bytes
  <2>2. Decode(s, 158).shift = s
    BY ReleaseBytes
  <2>3. Takes(<<158>>, s, s)
    BY <2>1, <2>2, TakesOne
  <2> QED BY <1>1, <2>1, <2>3, BreakCodesAre
<1>2. CASE k = "ENTER"
  <2>1. ReleasedShift(s, k) = s /\ 156 \in Bytes
    BY <1>2 DEF ReleasedShift, Bytes
  <2>2. Decode(s, 156).shift = s
    BY ReleaseBytes
  <2>3. Takes(<<156>>, s, s)
    BY <2>1, <2>2, TakesOne
  <2> QED BY <1>2, <2>1, <2>3, BreakCodesAre
<1>3. CASE k = "CAPS"
  <2>1. ReleasedShift(s, k) = s /\ 186 \in Bytes
    BY <1>3 DEF ReleasedShift, Bytes
  <2>2. Decode(s, 186).shift = s
    BY ReleaseBytes
  <2>3. Takes(<<186>>, s, s)
    BY <2>1, <2>2, TakesOne
  <2> QED BY <1>3, <2>1, <2>3, BreakCodesAre
<1>4. CASE k = "LSHIFT"
  <2>1. ReleasedShift(s, k) = s \ {"SHIFT"} /\ 170 \in Bytes
    BY <1>4 DEF ReleasedShift, Bytes
  <2>2. Decode(s, 170).shift = s \ {"SHIFT"}
    BY ReleaseBytes
  <2>3. Takes(<<170>>, s, s \ {"SHIFT"})
    BY <2>1, <2>2, TakesOne
  <2> QED BY <1>4, <2>1, <2>3, BreakCodesAre
<1>5. CASE k = "RSHIFT"
  <2>1. ReleasedShift(s, k) = s \ {"SHIFT"} /\ 182 \in Bytes
    BY <1>5 DEF ReleasedShift, Bytes
  <2>2. Decode(s, 182).shift = s \ {"SHIFT"}
    BY ReleaseBytes
  <2>3. Takes(<<182>>, s, s \ {"SHIFT"})
    BY <2>1, <2>2, TakesOne
  <2> QED BY <1>5, <2>1, <2>3, BreakCodesAre
<1>6. CASE k = "LCTL"
  <2>1. ReleasedShift(s, k) = s \ {"CTL"} /\ 157 \in Bytes
    BY <1>6 DEF ReleasedShift, Bytes
  <2>2. Decode(s, 157).shift = s \ {"CTL"}
    BY ReleaseBytes
  <2>3. Takes(<<157>>, s, s \ {"CTL"})
    BY <2>1, <2>2, TakesOne
  <2> QED BY <1>6, <2>1, <2>3, BreakCodesAre
<1>7. CASE k = "RCTL"
  <2>1. ReleasedShift(s, k) = s \ {"CTL"} /\ 157 \in Bytes
    BY <1>7 DEF ReleasedShift, Bytes
  <2>2. Decode(s \cup {"E0ESC"}, 157).shift = s \ {"CTL"}
    BY PrefixBytes
  <2>3. Takes(<<224, 157>>, s, s \ {"CTL"})
    BY <2>1, <2>2, TakesTwo
  <2> QED BY <1>7, <2>1, <2>3, BreakCodesAre
<1>8. CASE k = "DELETE"
  <2>1. ReleasedShift(s, k) = s /\ 211 \in Bytes
    BY <1>8 DEF ReleasedShift, Bytes
  <2>2. Decode(s \cup {"E0ESC"}, 211).shift = s
    BY PrefixBytes
  <2>3. Takes(<<224, 211>>, s, s)
    BY <2>1, <2>2, TakesTwo
  <2> QED BY <1>8, <2>1, <2>3, BreakCodesAre
<1> QED BY <1>1, <1>2, <1>3, <1>4, <1>5, <1>6, <1>7, <1>8, KeysAre

\* The modifiers go on following the keys when one is pressed,
LEMMA ModsPress ==
    ASSUME NEW s, NEW h, NEW caps \in BOOLEAN, Mods(s, h, caps), NEW k \in Keys, k \notin h
    PROVE  Mods(PressedShift(s, k), h \cup {k}, IF k = "CAPS" THEN ~caps ELSE caps)
<1> DEFINE t == PressedShift(s, k)
           g == h \cup {k}
<1>0. /\ s \in Shifts /\ "E0ESC" \notin s /\ ("CAPSLOCK" \in s) = caps
      /\ Follows(s, h, "SHIFT", ShiftKeys) /\ Follows(s, h, "CTL", CtlKeys)
  BY DEF Mods
<1>1. ASSUME NEW K, k \notin K PROVE K \cap g = K \cap h
  BY <1>1
<1>2. CASE k \in {"LSHIFT", "RSHIFT"}
  <2>1. t = s \cup {"SHIFT"}
    BY <1>2 DEF PressedShift
  <2>2. k \in ShiftKeys /\ k \notin CtlKeys /\ k # "CAPS"
    BY <1>2 DEF ShiftKeys, CtlKeys
  <2>3. /\ t \in Shifts /\ "E0ESC" \notin t /\ "SHIFT" \in t
        /\ ("CAPSLOCK" \in t) = ("CAPSLOCK" \in s) /\ ("CTL" \in t <=> "CTL" \in s)
    BY <1>0, <2>1 DEF Shifts, ShiftBits
  <2> HIDE DEF t
  <2>4. Follows(t, g, "SHIFT", ShiftKeys)
    BY <2>2, <2>3, FollowsDown
  <2>5. CtlKeys \cap g = CtlKeys \cap h
    BY <1>1, <2>2
  <2> HIDE DEF g
  <2>6. Follows(t, g, "CTL", CtlKeys)
    BY <1>0, <2>3, <2>5, FollowsSame
  <2> QED BY <1>0, <2>2, <2>3, <2>4, <2>6 DEF Mods, t, g
<1>3. CASE k \in {"LCTL", "RCTL"}
  <2>1. t = s \cup {"CTL"}
    BY <1>3 DEF PressedShift
  <2>2. k \in CtlKeys /\ k \notin ShiftKeys /\ k # "CAPS"
    BY <1>3 DEF ShiftKeys, CtlKeys
  <2>3. /\ t \in Shifts /\ "E0ESC" \notin t /\ "CTL" \in t
        /\ ("CAPSLOCK" \in t) = ("CAPSLOCK" \in s) /\ ("SHIFT" \in t <=> "SHIFT" \in s)
    BY <1>0, <2>1 DEF Shifts, ShiftBits
  <2> HIDE DEF t
  <2>4. Follows(t, g, "CTL", CtlKeys)
    BY <2>2, <2>3, FollowsDown
  <2>5. ShiftKeys \cap g = ShiftKeys \cap h
    BY <1>1, <2>2
  <2> HIDE DEF g
  <2>6. Follows(t, g, "SHIFT", ShiftKeys)
    BY <1>0, <2>3, <2>5, FollowsSame
  <2> QED BY <1>0, <2>2, <2>3, <2>4, <2>6 DEF Mods, t, g
<1>4. CASE k \notin {"LSHIFT", "RSHIFT", "LCTL", "RCTL"}
  <2>1. t = IF k = "CAPS" THEN SymDiff(s, {"CAPSLOCK"}) ELSE s
    BY <1>4 DEF PressedShift
  <2>2. k \notin ShiftKeys /\ k \notin CtlKeys
    BY <1>4 DEF ShiftKeys, CtlKeys
  <2>3. /\ t \in Shifts /\ "E0ESC" \notin t
        /\ ("CTL" \in t <=> "CTL" \in s) /\ ("SHIFT" \in t <=> "SHIFT" \in s)
        /\ ("CAPSLOCK" \in t) = IF k = "CAPS" THEN ~caps ELSE caps
    <3>1. CASE k = "CAPS"
      BY <1>0, <2>1, <3>1 DEF Shifts, ShiftBits, SymDiff
    <3>2. CASE k # "CAPS"
      BY <1>0, <2>1, <3>2
    <3> QED BY <3>1, <3>2
  <2> HIDE DEF t
  <2>4. CtlKeys \cap g = CtlKeys \cap h /\ ShiftKeys \cap g = ShiftKeys \cap h
    BY <1>1, <2>2
  <2> HIDE DEF g
  <2>5. Follows(t, g, "SHIFT", ShiftKeys)
    BY <1>0, <2>3, <2>4, FollowsSame
  <2>6. Follows(t, g, "CTL", CtlKeys)
    BY <1>0, <2>3, <2>4, FollowsSame
  <2> QED BY <2>3, <2>5, <2>6 DEF Mods, t, g
<1> QED BY <1>2, <1>3, <1>4

\* and when one is released.
LEMMA ModsRelease ==
    ASSUME NEW s, NEW h, NEW caps \in BOOLEAN, Mods(s, h, caps), NEW k \in Keys, k \in h
    PROVE  Mods(ReleasedShift(s, k), h \ {k}, caps)
<1> DEFINE t == ReleasedShift(s, k)
           g == h \ {k}
<1>0. /\ s \in Shifts /\ "E0ESC" \notin s /\ ("CAPSLOCK" \in s) = caps
      /\ Follows(s, h, "SHIFT", ShiftKeys) /\ Follows(s, h, "CTL", CtlKeys)
  BY DEF Mods
<1>1. ASSUME NEW K, k \notin K PROVE K \cap g = K \cap h
  BY <1>1
<1>2. CASE k \in {"LSHIFT", "RSHIFT"}
  <2>1. t = s \ {"SHIFT"}
    BY <1>2 DEF ReleasedShift
  <2>2. k \in ShiftKeys /\ k \notin CtlKeys /\ k \notin g
    BY <1>2 DEF ShiftKeys, CtlKeys
  <2>3. /\ t \in Shifts /\ "E0ESC" \notin t /\ "SHIFT" \notin t
        /\ ("CAPSLOCK" \in t) = ("CAPSLOCK" \in s) /\ ("CTL" \in t <=> "CTL" \in s)
    BY <1>0, <2>1 DEF Shifts
  <2> HIDE DEF t
  <2>4. Follows(t, g, "SHIFT", ShiftKeys)
    BY <2>2, <2>3, FollowsUp
  <2>5. CtlKeys \cap g = CtlKeys \cap h
    BY <1>1, <2>2
  <2> HIDE DEF g
  <2>6. Follows(t, g, "CTL", CtlKeys)
    BY <1>0, <2>3, <2>5, FollowsSame
  <2> QED BY <1>0, <2>3, <2>4, <2>6 DEF Mods, t, g
<1>3. CASE k \in {"LCTL", "RCTL"}
  <2>1. t = s \ {"CTL"}
    BY <1>3 DEF ReleasedShift
  <2>2. k \in CtlKeys /\ k \notin ShiftKeys /\ k \notin g
    BY <1>3 DEF ShiftKeys, CtlKeys
  <2>3. /\ t \in Shifts /\ "E0ESC" \notin t /\ "CTL" \notin t
        /\ ("CAPSLOCK" \in t) = ("CAPSLOCK" \in s) /\ ("SHIFT" \in t <=> "SHIFT" \in s)
    BY <1>0, <2>1 DEF Shifts
  <2> HIDE DEF t
  <2>4. Follows(t, g, "CTL", CtlKeys)
    BY <2>2, <2>3, FollowsUp
  <2>5. ShiftKeys \cap g = ShiftKeys \cap h
    BY <1>1, <2>2
  <2> HIDE DEF g
  <2>6. Follows(t, g, "SHIFT", ShiftKeys)
    BY <1>0, <2>3, <2>5, FollowsSame
  <2> QED BY <1>0, <2>3, <2>4, <2>6 DEF Mods, t, g
<1>4. CASE k \notin {"LSHIFT", "RSHIFT", "LCTL", "RCTL"}
  <2>1. t = s
    BY <1>4 DEF ReleasedShift
  <2>2. k \notin ShiftKeys /\ k \notin CtlKeys
    BY <1>4 DEF ShiftKeys, CtlKeys
  <2>3. CtlKeys \cap g = CtlKeys \cap h /\ ShiftKeys \cap g = ShiftKeys \cap h
    BY <1>1, <2>2
  <2> HIDE DEF t, g
  <2>4. Follows(t, g, "SHIFT", ShiftKeys)
    BY <1>0, <2>1, <2>3, FollowsSame
  <2>5. Follows(t, g, "CTL", CtlKeys)
    BY <1>0, <2>1, <2>3, FollowsSame
  <2> QED BY <1>0, <2>1, <2>4, <2>5 DEF Mods, t, g
<1> QED BY <1>2, <1>3, <1>4

-----------------------------------------------------------------------------
(* The circular buffer.                                                    *)

\* What remains of numbers around b.
LEMMA Wraps ==
    ASSUME NEW b \in Nat \ {0}
    PROVE  /\ \A a \in 0 .. b - 1 : a % b = a
           /\ \A a \in b .. b + b - 1 : a % b = a - b
           /\ \A a \in 0 - b .. 0 - 1 : a % b = a + b
<1>1. ASSUME NEW a \in 0 .. b - 1 PROVE a % b = a
  BY SMT
<1>2. ASSUME NEW a \in b .. b + b - 1 PROVE a % b = a - b
  BY SMT
<1>3. ASSUME NEW a \in 0 - b .. 0 - 1 PROVE a % b = a + b
  BY SMT
<1> QED BY <1>1, <1>2, <1>3

Places == 0 .. BufSize - 1

\* The k-th place behind r, and how far w is behind r.
Place(r, k) == (r + k) % BufSize
Behind(r, w) == (w - r) % BufSize

\* Positions of the buffer wrap at its end,
LEMMA PlaceIs ==
    ASSUME NEW r \in Places, NEW k \in 0 .. BufSize
    PROVE  /\ Place(r, k) \in Places
           /\ Place(r, k) = IF r + k < BufSize THEN r + k ELSE r + k - BufSize
<1>1. BufSize \in Nat \ {0}
  BY ConsoleConstants
<1>2. CASE r + k < BufSize
  <2>1. r + k \in 0 .. BufSize - 1
    BY <1>1, <1>2 DEF Places
  <2>2. Place(r, k) = r + k
    BY <1>1, <2>1, Wraps DEF Place
  <2> QED BY <1>2, <2>1, <2>2 DEF Places
<1>3. CASE ~(r + k < BufSize)
  <2>1. r + k \in BufSize .. BufSize + BufSize - 1 /\ r + k - BufSize \in 0 .. BufSize - 1
    BY <1>1, <1>3 DEF Places
  <2>2. Place(r, k) = r + k - BufSize
    <3>1. PICK a \in BufSize .. BufSize + BufSize - 1 : a = r + k
      BY <2>1
    <3>2. a % BufSize = a - BufSize
      BY <1>1, Wraps
    <3>3. Place(r, k) = a - BufSize
      BY <3>1, <3>2 DEF Place
    <3>4. r \in Int /\ k \in Int /\ BufSize \in Int
      BY <1>1 DEF Places
    <3> QED BY <3>1, <3>3, <3>4
  <2> QED BY <1>3, <2>1, <2>2 DEF Places
<1> QED BY <1>2, <1>3

\* and so does the number of characters between them.
LEMMA BehindIs ==
    ASSUME NEW r \in Places, NEW w \in Places
    PROVE  /\ Behind(r, w) \in Places
           /\ Behind(r, w) = IF r <= w THEN w - r ELSE w - r + BufSize
<1>1. BufSize \in Nat \ {0}
  BY ConsoleConstants
<1>2. CASE r <= w
  <2>1. w - r \in 0 .. BufSize - 1
    BY <1>1, <1>2 DEF Places
  <2>2. Behind(r, w) = w - r
    BY <1>1, <2>1, Wraps DEF Behind
  <2> QED BY <1>2, <2>1, <2>2 DEF Places
<1>3. CASE ~(r <= w)
  <2>1. w - r \in 0 - BufSize .. 0 - 1 /\ w - r + BufSize \in 0 .. BufSize - 1
    BY <1>1, <1>3 DEF Places
  <2>2. Behind(r, w) = w - r + BufSize
    BY <1>1, <2>1, Wraps DEF Behind
  <2> QED BY <1>3, <2>1, <2>2 DEF Places
<1> QED BY <1>2, <1>3

\* Going round the buffer.
LEMMA Around ==
    ASSUME NEW r \in Places, NEW w \in Places
    PROVE  /\ Place(r, Behind(r, w)) = w
           /\ \A k \in 0 .. Behind(r, w) - 1 : Place(r, k) # w
           /\ Behind(r, w) < BufSize - 1 => Behind(r, Place(w, 1)) = Behind(r, w) + 1
           /\ Behind(r, w) = BufSize - 1 => Behind(r, Place(w, 1)) = 0
           /\ r # w <=> Behind(r, w) # 0
           /\ r # w => Behind(Place(r, 1), w) = Behind(r, w) - 1
           /\ \A k \in 0 .. BufSize - 1 : Place(Place(r, 1), k) = Place(r, k + 1)
<1>1. BufSize \in Nat /\ BufSize >= 2 /\ 0 \in Nat /\ 1 \in 0 .. BufSize
  BY ConsoleConstants
<1>2. PICK n \in Places : n = Behind(r, w) /\ n = IF r <= w THEN w - r ELSE w - r + BufSize
  BY BehindIs
<1>3. r \in Int /\ w \in Int /\ n \in 0 .. BufSize /\ 0 <= r /\ 0 <= w /\ r < BufSize /\ w < BufSize
  BY <1>1 DEF Places
<1>4. Place(r, n) = w
  <2>1. Place(r, n) = IF r + n < BufSize THEN r + n ELSE r + n - BufSize
    BY <1>3, PlaceIs
  <2> QED BY <1>1, <1>2, <1>3, <2>1
<1>5. ASSUME NEW k \in 0 .. n - 1 PROVE Place(r, k) # w
  <2>1. k \in 0 .. BufSize
    BY <1>1, <1>3
  <2>2. Place(r, k) = IF r + k < BufSize THEN r + k ELSE r + k - BufSize
    BY <2>1, PlaceIs
  <2> QED BY <1>1, <1>2, <1>3, <2>2
<1>6. PICK v \in Places : v = Place(w, 1) /\ v = IF w + 1 < BufSize THEN w + 1 ELSE w + 1 - BufSize
  BY <1>1, PlaceIs
<1>7. Behind(r, v) = IF r <= v THEN v - r ELSE v - r + BufSize
  BY BehindIs
<1>8. v \in Int
  BY <1>1 DEF Places
<1>9. n < BufSize - 1 => Behind(r, v) = n + 1
  BY <1>1, <1>2, <1>3, <1>6, <1>7, <1>8
<1>10. n = BufSize - 1 => Behind(r, v) = 0
  BY <1>1, <1>2, <1>3, <1>6, <1>7, <1>8
<1>11. r # w <=> n # 0
  BY <1>1, <1>2, <1>3
<1>12. PICK q \in Places : q = Place(r, 1) /\ q = IF r + 1 < BufSize THEN r + 1 ELSE r + 1 - BufSize
  BY <1>1, PlaceIs
<1>13. q \in Int /\ Behind(q, w) = IF q <= w THEN w - q ELSE w - q + BufSize
  BY <1>1, BehindIs DEF Places
<1>14. r # w => Behind(q, w) = n - 1
  BY <1>1, <1>2, <1>3, <1>12, <1>13
<1>15. ASSUME NEW k \in 0 .. BufSize - 1 PROVE Place(q, k) = Place(r, k + 1)
  <2>1. k \in 0 .. BufSize /\ k + 1 \in 0 .. BufSize
    BY <1>1
  <2>2. Place(q, k) = IF q + k < BufSize THEN q + k ELSE q + k - BufSize
    BY <2>1, PlaceIs
  <2>3. Place(r, k + 1) = IF r + (k + 1) < BufSize THEN r + (k + 1) ELSE r + (k + 1) - BufSize
    BY <2>1, PlaceIs
  <2> QED BY <1>1, <1>3, <1>12, <1>13, <2>2, <2>3
<1> QED BY <1>2, <1>4, <1>5, <1>6, <1>9, <1>10, <1>11, <1>12, <1>14, <1>15

\* What waits in a buffer b from r up to w.
Held(b, r, w) == [i \in 1 .. Behind(r, w) |-> b[Place(r, i - 1)]]
Buffers == [Places -> Chars \cup {NO}]

\* A character for each place from rpos on.
LEMMA HeldIs ==
    ASSUME NEW b \in Buffers, NEW r \in Places, NEW w \in Places
    PROVE  /\ Held(b, r, w) \in Seq(Chars \cup {NO})
           /\ Len(Held(b, r, w)) = Behind(r, w)
           /\ \A i \in 1 .. Behind(r, w) : Held(b, r, w)[i] = b[Place(r, i - 1)]
<1>1. BufSize \in Nat
  BY ConsoleConstants
<1>2. PICK n \in Nat : n = Behind(r, w) /\ n < BufSize
  BY <1>1, BehindIs DEF Places
<1>3. ASSUME NEW i \in 1 .. n PROVE b[Place(r, i - 1)] \in Chars \cup {NO}
  <2>1. i - 1 \in 0 .. BufSize
    BY <1>1, <1>2
  <2>2. Place(r, i - 1) \in Places
    BY <2>1, PlaceIs
  <2> QED BY <2>2 DEF Buffers
<1> DEFINE e(i) == b[Place(r, i - 1)]
<1>4. Held(b, r, w) = [i \in 1 .. n |-> e(i)]
  BY <1>2 DEF Held
<1>5. \A i \in 1 .. n : e(i) \in Chars \cup {NO}
  BY <1>3
<1> HIDE DEF e
<1>6. [i \in 1 .. n |-> e(i)] \in Seq(Chars \cup {NO})
  BY <1>5
<1>7. Len([i \in 1 .. n |-> e(i)]) = n
  OBVIOUS
<1>8. \A i \in 1 .. n : Held(b, r, w)[i] = e(i)
  BY <1>4
<1> QED BY <1>2, <1>4, <1>6, <1>7, <1>8 DEF e

\* Writing at wpos appends, or empties a buffer that is full.
LEMMA HeldMore ==
    ASSUME NEW b \in Buffers, NEW r \in Places, NEW w \in Places, NEW c \in Chars
    PROVE  /\ [b EXCEPT ![w] = c] \in Buffers /\ Place(w, 1) \in Places
           /\ Held([b EXCEPT ![w] = c], r, Place(w, 1))
              = IF Behind(r, w) < BufSize - 1 THEN Append(Held(b, r, w), c) ELSE <<>>
<1> DEFINE d == [b EXCEPT ![w] = c]
<1>1. BufSize \in Nat /\ BufSize >= 2 /\ 1 \in 0 .. BufSize
  BY ConsoleConstants
<1>2. PICK n \in Nat : n = Behind(r, w) /\ n < BufSize
  BY <1>1, BehindIs DEF Places
<1>3. PICK v \in Places : v = Place(w, 1)
  BY <1>1, PlaceIs
<1>4. d \in Buffers /\ d[w] = c /\ \A p \in Places : p # w => d[p] = b[p]
  BY DEF Buffers
<1> HIDE DEF d
<1>5. CASE n < BufSize - 1
  <2> DEFINE x == Held(b, r, w)
             y == Held(d, r, v)
  <2>1. Behind(r, v) = n + 1
    BY <1>2, <1>3, <1>5, Around
  <2>2. /\ x \in Seq(Chars \cup {NO}) /\ Len(x) = n
        /\ \A i \in 1 .. n : x[i] = b[Place(r, i - 1)]
    BY <1>2, HeldIs
  <2>3. /\ y \in Seq(Chars \cup {NO}) /\ Len(y) = n + 1
        /\ \A i \in 1 .. n + 1 : y[i] = d[Place(r, i - 1)]
    BY <1>4, <2>1, HeldIs
  <2> HIDE DEF x, y
  <2>4. y[n + 1] = c
    <3>1. n + 1 \in 1 .. n + 1 /\ (n + 1) - 1 = n
      OBVIOUS
    <3>2. Place(r, n) = w
      BY <1>2, Around
    <3> QED BY <1>4, <2>3, <3>1, <3>2
  <2>5. ASSUME NEW i \in 1 .. n PROVE y[i] = x[i]
    <3>1. i \in 1 .. n + 1 /\ i - 1 \in 0 .. n - 1 /\ i - 1 \in 0 .. BufSize
      BY <1>1, <1>2
    <3>2. Place(r, i - 1) # w /\ Place(r, i - 1) \in Places
      BY <1>2, <3>1, Around, PlaceIs
    <3> QED BY <1>4, <2>2, <2>3, <3>1, <3>2
  <2>6. c \in Chars \cup {NO}
    OBVIOUS
  <2>7. /\ Append(x, c) \in Seq(Chars \cup {NO}) /\ Len(Append(x, c)) = n + 1
        /\ Append(x, c)[n + 1] = c /\ \A i \in 1 .. n : Append(x, c)[i] = x[i]
    BY <2>2, <2>6
  <2>8. \A i \in 1 .. Len(y) : y[i] = Append(x, c)[i]
    <3> TAKE i \in 1 .. Len(y)
    <3>1. i \in 1 .. n \/ i = n + 1
      BY <2>3
    <3> QED BY <2>4, <2>5, <2>7, <3>1
  <2>9. y = Append(x, c)
    BY <2>3, <2>7, <2>8, SeqEqual
  <2> QED BY <1>2, <1>3, <1>4, <1>5, <2>9 DEF d, x, y
<1>6. CASE ~(n < BufSize - 1)
  <2>1. n = BufSize - 1
    BY <1>1, <1>2, <1>6
  <2>2. Behind(r, v) = 0
    <3>1. Behind(r, w) = BufSize - 1 => Behind(r, Place(w, 1)) = 0
      BY Around
    <3> QED BY <1>2, <1>3, <2>1, <3>1
  <2>3. Held(d, r, v) = [i \in 1 .. 0 |-> d[Place(r, i - 1)]]
    BY <2>2 DEF Held
  <2>4. Held(d, r, v) = <<>>
    BY <2>3
  <2> QED BY <1>2, <1>3, <1>4, <1>6, <2>4 DEF d
<1> QED BY <1>5, <1>6

\* Reading at rpos takes the first character.
LEMMA HeldLess ==
    ASSUME NEW b \in Buffers, NEW r \in Places, NEW w \in Places
    PROVE  /\ Held(b, r, w) = <<>> <=> r = w
           /\ Place(r, 1) \in Places
           /\ r # w => /\ Head(Held(b, r, w)) = b[r]
                       /\ Tail(Held(b, r, w)) = Held(b, Place(r, 1), w)
<1> DEFINE x == Held(b, r, w)
<1>1. BufSize \in Nat /\ BufSize >= 2 /\ 1 \in 0 .. BufSize
  BY ConsoleConstants
<1>2. PICK n \in Nat : n = Behind(r, w) /\ n < BufSize
  BY <1>1, BehindIs DEF Places
<1>3. /\ x \in Seq(Chars \cup {NO}) /\ Len(x) = n
      /\ \A i \in 1 .. n : x[i] = b[Place(r, i - 1)]
  BY <1>2, HeldIs
<1>4. r # w <=> n # 0
  BY <1>2, Around
<1>5. PICK q \in Places : q = Place(r, 1)
  BY <1>1, PlaceIs
<1> HIDE DEF x
<1>6. x = <<>> <=> r = w
  BY <1>3, <1>4
<1>7. ASSUME r # w PROVE Head(x) = b[r] /\ Tail(x) = Held(b, q, w)
  <2>1. n >= 1 /\ x # <<>> /\ 1 \in 1 .. n /\ 1 - 1 = 0 /\ n - 1 \in Nat
    BY <1>3, <1>4, <1>7
  <2>2. Head(x) = x[1]
    BY <1>3, <2>1
  <2>3. Place(r, 0) = r
    <3>1. r \in Int /\ r < BufSize /\ 0 \in 0 .. BufSize
      BY <1>1 DEF Places
    <3>2. Place(r, 0) = IF r + 0 < BufSize THEN r + 0 ELSE r + 0 - BufSize
      BY <3>1, PlaceIs
    <3> QED BY <3>1, <3>2
  <2>4. Behind(q, w) = n - 1
    BY <1>2, <1>5, <1>7, Around
  <2> DEFINE y == Held(b, q, w)
             t == Tail(x)
  <2>5. /\ y \in Seq(Chars \cup {NO}) /\ Len(y) = n - 1
        /\ \A i \in 1 .. n - 1 : y[i] = b[Place(q, i - 1)]
    BY <2>4, HeldIs
  <2>6. /\ t \in Seq(Chars \cup {NO}) /\ Len(t) = n - 1
        /\ \A i \in 1 .. n - 1 : t[i] = x[i + 1]
    <3>1. /\ t \in Seq(Chars \cup {NO}) /\ Len(t) = Len(x) - 1
          /\ \A i \in 1 .. Len(t) : t[i] = x[i + 1]
      BY <1>3, <2>1, HeadTailProperties
    <3> QED BY <1>3, <3>1
  <2> HIDE DEF y, t
  <2>7. ASSUME NEW i \in 1 .. n - 1 PROVE t[i] = y[i]
    <3>1. i + 1 \in 1 .. n /\ (i + 1) - 1 = i /\ i - 1 \in 0 .. BufSize - 1 /\ (i - 1) + 1 = i
      BY <1>1, <1>2
    <3>2. Place(q, i - 1) = Place(r, i)
      BY <1>5, <3>1, Around
    <3> QED BY <1>3, <2>5, <2>6, <3>1, <3>2
  <2>8. t = y
    BY <2>5, <2>6, <2>7, SeqEqual
  <2> QED BY <1>3, <2>1, <2>2, <2>3, <2>8 DEF y, t
<1> QED BY <1>5, <1>6, <1>7 DEF x

-----------------------------------------------------------------------------
(* The steps.                                                              *)

\* A byte adds one character or none.
LEMMA OutGrows ==
    ASSUME NEW r \in Results, NEW b \in Bytes
    PROVE  \/ Spelling(r, b).out = r.out
           \/ \E c \in Chars : Spelling(r, b).out = Append(r.out, c)
<1>1. PICK d \in [shift : Shifts, c : Chars \cup {NO}] : d = Decode(r.shift, b)
  BY DecodeType DEF Results
<1>2. Spelling(r, b).out = IF d.c = NO THEN r.out ELSE Append(r.out, d.c)
  BY <1>1 DEF Spelling
<1>3. d.c # NO => d.c \in Chars
  BY <1>1
<1> QED BY <1>2, <1>3

\* The bytes of a key, behind those under way, spell one character at most.
LEMMA KeyDoes ==
    ASSUME NEW s \in Shifts, NEW old \in Seq(Bytes), "E0ESC" \notin Spelt(s, old).shift,
           NEW new, NEW t, Takes(new, Spelt(s, old).shift, t)
    PROVE  /\ old \o new \in Seq(Bytes)
           /\ Spelt(s, old \o new).shift = t
           /\ \/ Spelt(s, old \o new).out = Spelt(s, old).out
              \/ \E c \in Chars : Spelt(s, old \o new).out = Append(Spelt(s, old).out, c)
<1>1. PICK u \in Results : u = Spelt(s, old)
  BY SpeltType
<1>2. PICK b \in Bytes : \/ new = <<b>> /\ Decode(u.shift, b).shift = t
                         \/ /\ new = <<224, b>>
                            /\ Decode(u.shift \cup {"E0ESC"}, b).shift = t
  BY <1>1 DEF Takes
<1>3. u.shift \in Shifts
  BY DEF Results
<1>4. CASE new = <<b>> /\ Decode(u.shift, b).shift = t
  <2>1. old \o new = Append(old, b)
    BY <1>4, AppendIsConcat
  <2>2. Append(old, b) \in Seq(Bytes)
    OBVIOUS
  <2>3. Spelt(s, old \o new) = Spelling(u, b)
    BY <1>1, <2>1, SpeltAppend
  <2>4. Spelling(u, b).shift = t
    BY <1>4, SpellingType
  <2> QED BY <1>1, <2>1, <2>2, <2>3, <2>4, OutGrows
<1>5. CASE new = <<224, b>> /\ Decode(u.shift \cup {"E0ESC"}, b).shift = t
  <2>1. 224 \in Bytes
    BY DEF Bytes
  <2>2. PICK mid \in Seq(Bytes) : mid = Append(old, 224)
    <3>1. PICK e \in Bytes : e = 224
      BY <2>1
    <3>2. Append(old, e) \in Seq(Bytes)
      OBVIOUS
    <3> QED BY <3>1, <3>2
  <2>3. old \o new = Append(mid, b)
    <3>1. old \o <<224, b>> = Append(Append(old, 224), b)
      BY <2>1
    <3> QED BY <1>5, <2>2, <3>1
  <2>4. Append(mid, b) \in Seq(Bytes)
    OBVIOUS
  <2>5. PICK v \in Results : v = Spelling(u, 224)
    BY <2>1, SpellingType
  <2>6. Decode(u.shift, 224) = [shift |-> u.shift \cup {"E0ESC"}, c |-> NO]
    BY DEF Decode
  <2>7. v.shift = u.shift \cup {"E0ESC"} /\ v.out = u.out
    BY <2>5, <2>6 DEF Spelling
  <2>8. Spelt(s, mid) = v
    BY <1>1, <2>1, <2>2, <2>5, SpeltAppend
  <2>9. Spelt(s, old \o new) = Spelling(v, b)
    BY <2>3, <2>8, SpeltAppend
  <2>10. Spelling(v, b).shift = t
    BY <1>5, <2>7, SpellingType
  <2> QED BY <1>1, <2>3, <2>4, <2>7, <2>9, <2>10, OutGrows
<1> QED BY <1>2, <1>4, <1>5

\* Waiting is what the buffer holds.
LEMMA WaitingIs ==
    ASSUME NEW b, NEW r \in Places, NEW w
    PROVE  [i \in 1 .. (w - r) % BufSize |-> b[(r + i - 1) % BufSize]] = Held(b, r, w)
<1>1. r \in Int
  BY ConsoleConstants DEF Places
<1>2. \A i \in Int : (r + i - 1) = (r + (i - 1))
  BY <1>1
<1>3. \A i \in 1 .. (w - r) % BufSize : b[(r + i - 1) % BufSize] = b[Place(r, i - 1)]
  BY <1>2 DEF Place
<1> QED BY <1>3 DEF Held, Behind

\* What a character that is put into the buffer does.
LEMMA PutDoes ==
    ASSUME buf \in Buffers, rpos \in Places, wpos \in Places, NEW c \in Chars, Put(c)
    PROVE  /\ buf' \in Buffers /\ rpos' \in Places /\ wpos' \in Places
           /\ Waiting' = IF Len(Waiting) < BufSize - 1 THEN Append(Waiting, c) ELSE <<>>
<1>1. c # NO
  BY DEF Chars, NO
<1>2. buf' = [buf EXCEPT ![wpos] = c] /\ wpos' = Place(wpos, 1) /\ rpos' = rpos
  BY <1>1 DEF Put, Place
<1>3. Waiting = Held(buf, rpos, wpos)
  BY WaitingIs DEF Waiting
<1>4. /\ buf' \in Buffers /\ wpos' \in Places
      /\ Held(buf', rpos, wpos')
         = IF Behind(rpos, wpos) < BufSize - 1 THEN Append(Held(buf, rpos, wpos), c) ELSE <<>>
  BY <1>2, HeldMore
<1>5. Waiting' = Held(buf', rpos', wpos')
  <2>1. Waiting' = [i \in 1 .. (wpos' - rpos') % BufSize |-> buf'[(rpos' + i - 1) % BufSize]]
    BY DEF Waiting
  <2>2. rpos' \in Places
    BY <1>2
  <2> QED BY <2>1, <2>2, WaitingIs
<1>6. Len(Held(buf, rpos, wpos)) = Behind(rpos, wpos)
  BY HeldIs
<1> QED BY <1>2, <1>3, <1>4, <1>5, <1>6

\* The end of cons_getc on what is waiting.
LEMMA GrabDoes ==
    ASSUME buf \in Buffers, rpos \in Places, wpos \in Places, Grab
    PROVE  /\ rpos' \in Places /\ got' \in Chars \cup {NO}
           /\ IF Waiting = <<>> THEN got' = NO /\ Waiting' = Waiting
              ELSE got' = Head(Waiting) /\ Waiting' = Tail(Waiting)
<1>1. buf' = buf /\ wpos' = wpos
  BY DEF Grab
<1>2. Waiting = Held(buf, rpos, wpos)
  BY WaitingIs DEF Waiting
<1>3. CASE rpos # wpos
  <2>1. got' = buf[rpos] /\ rpos' = Place(rpos, 1)
    BY <1>3 DEF Grab, Place
  <2>2. /\ Place(rpos, 1) \in Places /\ Waiting # <<>>
        /\ Head(Waiting) = buf[rpos] /\ Tail(Waiting) = Held(buf, Place(rpos, 1), wpos)
    BY <1>2, <1>3, HeldLess
  <2>3. Waiting' = Held(buf', rpos', wpos')
    <3>1. Waiting' = [i \in 1 .. (wpos' - rpos') % BufSize |-> buf'[(rpos' + i - 1) % BufSize]]
      BY DEF Waiting
    <3>2. rpos' \in Places
      BY <2>1, <2>2
    <3> QED BY <3>1, <3>2, WaitingIs
  <2>4. buf[rpos] \in Chars \cup {NO}
    BY DEF Buffers
  <2> QED BY <1>1, <2>1, <2>2, <2>3, <2>4
<1>4. CASE rpos = wpos
  <2>1. got' = NO /\ rpos' = rpos
    BY <1>4 DEF Grab
  <2>2. Waiting = <<>>
    BY <1>2, <1>4, HeldLess
  <2>3. Waiting' = Waiting
    BY <1>1, <2>1 DEF Waiting
  <2> QED BY <2>1, <2>2, <2>3
<1> QED BY <1>3, <1>4

\* Characters of the port.
LEMMA SerialIs ==
    ASSUME NEW c \in SerialChars
    PROVE  FromSerial(c) \in Chars /\ c # NONE /\ FromSerial(c) # NONE
<1>1. c \in Chars \cup {"DEL127"}
  BY ConsoleConstants
<1> QED BY <1>1 DEF FromSerial, Chars, NONE

\* shift goes with the keys once the bytes under way are read.
ConsInv == TypeOK /\ Mods(UnderWay.shift, held, capsOn)

\* A step of the queue that the console implements.
Sent  == IF com = NONE THEN NONE ELSE FromSerial(com)
QStep == \/ /\ \E c \in Chars : UnderWay'.out = Append(UnderWay.out, c)
            /\ Sent' = Sent /\ Waiting' = Waiting /\ got' = got
         \/ /\ Sent' \in Chars
            /\ UnderWay'.out = UnderWay.out /\ Waiting' = Waiting /\ got' = got
         \/ \E c \in Chars :
            /\ \/ /\ UnderWay.out # <<>> /\ Head(UnderWay.out) = c
                  /\ UnderWay'.out = Tail(UnderWay.out) /\ Sent' = Sent
               \/ Sent # NONE /\ Sent = c /\ Sent' = NONE /\ UnderWay'.out = UnderWay.out
            /\ Waiting' = IF Len(Waiting) < BufSize - 1 THEN Append(Waiting, c) ELSE <<>>
            /\ got' = got
         \/ /\ IF Waiting = <<>> THEN got' = NO /\ Waiting' = Waiting
               ELSE got' = Head(Waiting) /\ Waiting' = Tail(Waiting)
            /\ UnderWay'.out = UnderWay.out /\ Sent' = Sent
         \/ UnderWay'.out = UnderWay.out /\ Sent' = Sent /\ Waiting' = Waiting /\ got' = got

\* What the invariant says of the parts.
LEMMA ConsFacts ==
    ASSUME ConsInv
    PROVE  /\ shift \in Shifts /\ kbd \in Seq(Bytes) /\ UnderWay \in Results
           /\ "E0ESC" \notin UnderWay.shift /\ capsOn \in BOOLEAN
           /\ buf \in Buffers /\ rpos \in Places /\ wpos \in Places
           /\ com \in SerialChars \cup {NONE}
<1>1. shift \in Shifts /\ kbd \in Seq(Bytes) /\ capsOn \in BOOLEAN
  BY DEF ConsInv, TypeOK, Shifts, Bytes
<1>2. UnderWay \in Results
  BY <1>1, SpeltType DEF UnderWay
<1>3. "E0ESC" \notin UnderWay.shift
  BY DEF ConsInv, Mods
<1>4. buf \in Buffers /\ rpos \in Places /\ wpos \in Places /\ com \in SerialChars \cup {NONE}
  BY DEF ConsInv, TypeOK, Buffers, Places
<1> QED BY <1>1, <1>2, <1>3, <1>4

\* Nothing is read of the bytes under way.
LEMMA SameBytes ==
    ASSUME kbd' = kbd, shift' = shift
    PROVE  UnderWay' = UnderWay
BY DEF UnderWay

\* Nothing is put into or taken out of the buffer.
LEMMA SameCons ==
    ASSUME UNCHANGED cons
    PROVE  Waiting' = Waiting
BY DEF Waiting, cons

\* A key is pressed or released.
LEMMA KeyStep ==
    ASSUME ConsInv, NEW k \in Keys, Press(k) \/ Release(k)
    PROVE  ConsInv' /\ QStep
<1>0. /\ shift \in Shifts /\ kbd \in Seq(Bytes) /\ "E0ESC" \notin UnderWay.shift
      /\ capsOn \in BOOLEAN /\ UnderWay.shift \in Shifts
  BY ConsFacts DEF Results
<1>1. Mods(UnderWay.shift, held, capsOn) /\ k \in DOMAIN MakeCode
  BY KeysAreKnown DEF ConsInv
<1>2. PICK new, t :
         /\ KeyEvent(new) /\ Takes(new, UnderWay.shift, t)
         /\ Mods(t, held', capsOn') /\ held' \subseteq Keys /\ capsOn' \in BOOLEAN
  <2>1. CASE Press(k)
    <3>1. /\ k \notin held /\ held' = held \cup {k} /\ KeyEvent(MakeCode[k])
          /\ capsOn' = IF k = "CAPS" THEN ~capsOn ELSE capsOn
      BY <2>1 DEF Press
    <3>2. Takes(MakeCode[k], UnderWay.shift, PressedShift(UnderWay.shift, k))
      BY <1>0, <1>1, PressTakes
    <3>3. Mods(PressedShift(UnderWay.shift, k), held', capsOn')
      BY <1>0, <1>1, <3>1, ModsPress
    <3>4. held' \subseteq Keys /\ capsOn' \in BOOLEAN
      BY <1>0, <3>1 DEF ConsInv, TypeOK
    <3> QED BY <3>1, <3>2, <3>3, <3>4
  <2>2. CASE Release(k)
    <3>1. /\ k \in held /\ held' = held \ {k} /\ KeyEvent(BreakCode[k])
          /\ capsOn' = capsOn
      BY <2>2 DEF Release
    <3>2. Takes(BreakCode[k], UnderWay.shift, ReleasedShift(UnderWay.shift, k))
      BY <1>0, <1>1, ReleaseTakes
    <3>3. Mods(ReleasedShift(UnderWay.shift, k), held', capsOn')
      BY <1>0, <1>1, <3>1, ModsRelease
    <3>4. held' \subseteq Keys /\ capsOn' \in BOOLEAN
      BY <1>0, <3>1 DEF ConsInv, TypeOK
    <3> QED BY <3>1, <3>2, <3>3, <3>4
  <2> QED BY <2>1, <2>2
<1>3. /\ events < MaxEvents /\ events' = events + 1 /\ kbd' = kbd \o new
      /\ irr' = (IF kbd = <<>> THEN irr \cup {"KBD"} ELSE irr)
      /\ com' = com /\ shift' = shift /\ UNCHANGED cons
      /\ where' = where /\ pc' = pc /\ got' = got
  BY <1>2 DEF KeyEvent, Event
<1>4. UnderWay' = Spelt(shift, kbd \o new)
  BY <1>3 DEF UnderWay
<1>5. /\ kbd' \in Seq(Bytes) /\ UnderWay'.shift = t
      /\ \/ UnderWay'.out = UnderWay.out
         \/ \E c \in Chars : UnderWay'.out = Append(UnderWay.out, c)
  <2>1. UnderWay = Spelt(shift, kbd)
    BY DEF UnderWay
  <2>2. "E0ESC" \notin Spelt(shift, kbd).shift /\ Takes(new, Spelt(shift, kbd).shift, t)
    BY <1>0, <1>2, <2>1
  <2>3. /\ kbd \o new \in Seq(Bytes) /\ Spelt(shift, kbd \o new).shift = t
        /\ \/ Spelt(shift, kbd \o new).out = Spelt(shift, kbd).out
           \/ \E c \in Chars :
                 Spelt(shift, kbd \o new).out = Append(Spelt(shift, kbd).out, c)
    BY <1>0, <2>2, KeyDoes, ZenonT(60)
  <2> QED BY <1>3, <1>4, <2>1, <2>3, Zenon
<1>6. Sent' = Sent /\ Waiting' = Waiting
  BY <1>3, SameCons DEF Sent
<1>7. QStep
  BY <1>3, <1>5, <1>6 DEF QStep
<1>8. TypeOK'
  <2>1. events' \in 0 .. MaxEvents
    BY <1>3, ConsoleConstants DEF ConsInv, TypeOK
  <2>2. kbd' \in Seq(0 .. 255)
    BY <1>5 DEF Bytes
  <2>3. irr' \subseteq {"KBD", "COM1"}
    BY <1>3 DEF ConsInv, TypeOK
  <2> QED BY <1>2, <1>3, <2>1, <2>2, <2>3 DEF ConsInv, TypeOK, cons
<1> QED BY <1>2, <1>5, <1>7, <1>8 DEF ConsInv

\* A character arrives at the serial port.
LEMMA SerialStep ==
    ASSUME ConsInv, NEW c \in SerialChars, SerialArrives(c)
    PROVE  ConsInv' /\ QStep
<1>1. /\ events < MaxEvents /\ events' = events + 1 /\ com' = c
      /\ irr' = (IF com = NONE THEN irr \cup {"COM1"} ELSE irr)
      /\ held' = held /\ capsOn' = capsOn /\ kbd' = kbd /\ shift' = shift /\ UNCHANGED cons
      /\ where' = where /\ pc' = pc /\ got' = got
  BY DEF SerialArrives, Event
<1>2. UnderWay' = UnderWay /\ Waiting' = Waiting
  BY <1>1, SameBytes, SameCons
<1>3. Sent' \in Chars
  BY <1>1, SerialIs DEF Sent
<1>4. TypeOK'
  <2>1. events' \in 0 .. MaxEvents
    BY <1>1, ConsoleConstants DEF ConsInv, TypeOK
  <2> QED BY <1>1, <2>1 DEF ConsInv, TypeOK, cons
<1> QED BY <1>1, <1>2, <1>3, <1>4 DEF ConsInv, QStep

\* Steps that touch neither the devices nor the buffer.
LEMMA QuietStep ==
    ASSUME ConsInv, UNCHANGED <<devices, kbd, com, shift, cons, got>>,
           irr' \subseteq irr, where' \in {"boot", "kernel", "trap", "monitor"},
           pc' \in {"idle", "serial", "kbd", "grab"}
    PROVE  ConsInv' /\ QStep
<1>1. UnderWay' = UnderWay /\ Waiting' = Waiting
  BY SameBytes, SameCons
<1>2. Sent' = Sent
  BY DEF Sent
<1>3. TypeOK'
  BY DEF ConsInv, TypeOK, cons, devices
<1> QED BY <1>1, <1>2, <1>3 DEF ConsInv, QStep, devices

\* serial_proc_data finds a character.
LEMMA PollSerialStep ==
    ASSUME ConsInv, PollSerial
    PROVE  ConsInv' /\ QStep
<1>0. /\ com \in SerialChars /\ buf \in Buffers /\ rpos \in Places /\ wpos \in Places
  BY ConsFacts DEF PollSerial
<1>1. /\ com # NONE /\ com' = NONE /\ Put(FromSerial(com))
      /\ UNCHANGED devices /\ kbd' = kbd /\ irr' = irr /\ shift' = shift
      /\ where' = where /\ pc' = pc /\ got' = got
  BY DEF PollSerial
<1>2. PICK c \in Chars : c = FromSerial(com) /\ c # NONE
  BY <1>0, SerialIs
<1>3. /\ buf' \in Buffers /\ rpos' \in Places /\ wpos' \in Places
      /\ Waiting' = IF Len(Waiting) < BufSize - 1 THEN Append(Waiting, c) ELSE <<>>
  BY <1>0, <1>1, <1>2, PutDoes
<1>4. UnderWay' = UnderWay
  BY <1>1, SameBytes
<1>5. Sent = c /\ Sent # NONE /\ Sent' = NONE
  BY <1>1, <1>2 DEF Sent
<1>6. TypeOK'
  BY <1>1, <1>3 DEF ConsInv, TypeOK, devices, Buffers, Places
<1>7. QStep
  BY <1>1, <1>3, <1>4, <1>5 DEF QStep
<1> QED BY <1>1, <1>4, <1>6, <1>7 DEF ConsInv, devices

\* kbd_proc_data finds a byte.
LEMMA PollKbdStep ==
    ASSUME ConsInv, PollKbd
    PROVE  ConsInv' /\ QStep
<1>0. /\ shift \in Shifts /\ kbd \in Seq(Bytes)
      /\ buf \in Buffers /\ rpos \in Places /\ wpos \in Places
  BY ConsFacts
<1>1. /\ kbd # <<>> /\ kbd' = Tail(kbd) /\ com' = com
      /\ irr' = (IF kbd' # <<>> THEN irr \cup {"KBD"} ELSE irr)
      /\ UNCHANGED devices /\ where' = where /\ pc' = pc /\ got' = got
  BY DEF PollKbd
<1>2. Head(kbd) \in Bytes /\ Tail(kbd) \in Seq(Bytes)
  BY <1>0, <1>1, HeadTailProperties
<1>3. PICK d \in [shift : Shifts, c : Chars \cup {NO}] : d = Decode(shift, Head(kbd))
  BY <1>0, <1>2, DecodeType
<1>4. shift' = d.shift /\ Put(d.c)
  BY <1>3 DEF PollKbd
<1>5. UnderWay' = Spelt(d.shift, Tail(kbd)) /\ UnderWay = Spelt(shift, kbd)
  BY <1>1, <1>4 DEF UnderWay
<1>6. UnderWay.shift = UnderWay'.shift /\ UnderWay.out = Letter(d.c) \o UnderWay'.out
  BY <1>0, <1>1, <1>3, <1>5, SpeltFirst
<1>7. PICK x \in Seq(Chars) : x = UnderWay'.out
  <2>1. UnderWay' \in Results
    BY <1>2, <1>5, SpeltType
  <2> QED BY <2>1 DEF Results
<1>8. Sent' = Sent
  BY <1>1 DEF Sent
<1>9. QStep /\ buf' \in Buffers /\ rpos' \in Places /\ wpos' \in Places
  <2>1. CASE d.c = NO
    <3>1. UNCHANGED cons
      BY <1>4, <2>1 DEF Put
    <3>2. Waiting' = Waiting
      BY <3>1, SameCons
    <3>3. <<>> \o x = x
      BY ConcatEmptySeq
    <3>4. UnderWay'.out = UnderWay.out
      BY <1>6, <1>7, <2>1, <3>3 DEF Letter
    <3> QED BY <1>0, <1>1, <1>8, <3>1, <3>2, <3>4 DEF QStep, cons
  <2>2. CASE d.c # NO
    <3>1. PICK c \in Chars : c = d.c
      BY <2>2
    <3>2. /\ buf' \in Buffers /\ rpos' \in Places /\ wpos' \in Places
          /\ Waiting' = IF Len(Waiting) < BufSize - 1 THEN Append(Waiting, c) ELSE <<>>
      BY <1>0, <1>4, <3>1, PutDoes
    <3>3. UnderWay.out = <<c>> \o x
      BY <1>6, <1>7, <2>2, <3>1 DEF Letter
    <3>4. <<c>> \o x # <<>> /\ Head(<<c>> \o x) = c /\ Tail(<<c>> \o x) = x
      OBVIOUS
    <3>5. UnderWay.out # <<>> /\ Head(UnderWay.out) = c /\ UnderWay'.out = Tail(UnderWay.out)
      BY <1>7, <3>3, <3>4
    <3> QED BY <1>1, <1>8, <3>2, <3>5 DEF QStep
  <2> QED BY <2>1, <2>2
<1>10. TypeOK'
  <2>1. kbd' \in Seq(0 .. 255) /\ shift' \subseteq ShiftBits
    BY <1>1, <1>2, <1>4 DEF Bytes, Shifts
  <2>2. irr' \subseteq {"KBD", "COM1"}
    BY <1>1 DEF ConsInv, TypeOK
  <2> QED BY <1>1, <1>9, <2>1, <2>2 DEF ConsInv, TypeOK, devices, Buffers, Places
<1> QED BY <1>1, <1>6, <1>9, <1>10 DEF ConsInv, devices

\* cons_getc ends.
LEMMA GrabStep ==
    ASSUME ConsInv, Grab
    PROVE  ConsInv' /\ QStep
<1>0. buf \in Buffers /\ rpos \in Places /\ wpos \in Places
  BY ConsFacts
<1>1. /\ pc' = "idle" /\ where' = (IF where = "trap" THEN "kernel" ELSE where)
      /\ UNCHANGED devices /\ kbd' = kbd /\ com' = com /\ irr' = irr /\ shift' = shift
      /\ buf' = buf /\ wpos' = wpos
  BY DEF Grab
<1>2. /\ rpos' \in Places /\ got' \in Chars \cup {NO}
      /\ IF Waiting = <<>> THEN got' = NO /\ Waiting' = Waiting
         ELSE got' = Head(Waiting) /\ Waiting' = Tail(Waiting)
  BY <1>0, GrabDoes
<1>3. UnderWay' = UnderWay /\ Sent' = Sent
  BY <1>1, SameBytes DEF Sent
<1>4. TypeOK'
  BY <1>1, <1>2 DEF ConsInv, TypeOK, devices, Places
<1>5. QStep
  BY <1>2, <1>3 DEF QStep
<1> QED BY <1>1, <1>3, <1>4, <1>5 DEF ConsInv, devices

\* Every step keeps the invariant and is a step of the queue or none.
LEMMA ConsStep ==
    ASSUME ConsInv, [Next]_vars
    PROVE  ConsInv' /\ QStep
<1>1. CASE UNCHANGED vars
  BY <1>1, QuietStep DEF vars, ConsInv, TypeOK
<1>2. CASE Environment
  BY <1>2, KeyStep, SerialStep DEF Environment
<1>3. CASE IntrEnable
  BY <1>3, QuietStep DEF IntrEnable, ConsInv, TypeOK
<1>4. CASE Handle
  BY <1>4, QuietStep DEF Handle, Interrupt
<1>5. CASE Panic
  BY <1>5, QuietStep DEF Panic, ConsInv, TypeOK
<1>6. CASE Getchar
  BY <1>6, QuietStep DEF Getchar, ConsInv, TypeOK
<1>7. CASE SerialEmpty \/ KbdEmpty
  BY <1>7, QuietStep DEF SerialEmpty, KbdEmpty, ConsInv, TypeOK
<1> QED BY <1>1, <1>2, <1>3, <1>4, <1>5, <1>6, <1>7, PollSerialStep, PollKbdStep, GrabStep
        DEF Next, ConsGetc

\* The invariant holds when the kernel starts.
LEMMA ConsInit == Init => ConsInv
<1> SUFFICES ASSUME Init PROVE ConsInv
  OBVIOUS
<1>1. /\ held = {} /\ capsOn = FALSE /\ events = 0 /\ kbd = <<>> /\ com = NONE /\ irr = {}
      /\ shift = {} /\ buf = [i \in 0 .. BufSize - 1 |-> NO] /\ rpos = 0 /\ wpos = 0
      /\ where = "boot" /\ pc = "idle" /\ got = NO
  BY DEF Init
<1>2. UnderWay.shift = {}
  BY <1>1, SpeltNone DEF UnderWay
<1>3. Mods({}, {}, FALSE)
  BY DEF Mods, Follows, Shifts
<1>4. 0 \in 0 .. BufSize - 1 /\ 0 \in 0 .. MaxEvents
  BY ConsoleConstants
<1>5. <<>> \in Seq(0 .. 255)
  OBVIOUS
<1>6. TypeOK
  BY <1>1, <1>4, <1>5 DEF TypeOK
<1> QED BY <1>1, <1>2, <1>3, <1>6 DEF ConsInv

-----------------------------------------------------------------------------
\* The variables have their types, and the positions stay in the buffer.
THEOREM TypeCorrect == Spec => []TypeOK
<1>1. ConsInv => TypeOK
  BY DEF ConsInv
<1> QED BY <1>1, ConsInit, ConsStep, PTL DEF Spec

\* Whatever keys there are and however they are pressed and released, shift goes with
\* them once kbd_proc_data has read what they sent.
THEOREM ModifiersFollowCorrect == Spec => []ModifiersFollow
<1>1. ConsInv => ModifiersFollow
  <2> SUFFICES ASSUME ConsInv PROVE ModifiersFollow
    OBVIOUS
  <2> DEFINE s == UnderWay.shift
  <2>1. /\ "E0ESC" \notin s /\ ("CAPSLOCK" \in s) = capsOn
        /\ Follows(s, held, "SHIFT", ShiftKeys) /\ Follows(s, held, "CTL", CtlKeys)
    BY DEF ConsInv, Mods
  <2> HIDE DEF s
  <2>2. /\ DOMAIN KeysFor = {"SHIFT", "CTL"}
        /\ KeysFor["SHIFT"] = ShiftKeys /\ KeysFor["CTL"] = CtlKeys
    BY DEF KeysFor, ShiftKeys, CtlKeys
  <2>3. ASSUME NEW m \in DOMAIN KeysFor
        PROVE  /\ m \in s => KeysFor[m] \cap held # {}
               /\ Cardinality(KeysFor[m]) = 1 /\ KeysFor[m] \subseteq held => m \in s
    <3>1. Follows(s, held, m, KeysFor[m])
      BY <2>1, <2>2
    <3>2. ASSUME Cardinality(KeysFor[m]) = 1, KeysFor[m] \subseteq held PROVE m \in s
      <4>1. IsFiniteSet(KeysFor[m])
        <5>1. IsFiniteSet({"LSHIFT", "RSHIFT"}) /\ IsFiniteSet({"LCTL", "RCTL"})
          <6>1. /\ IsFiniteSet({"LSHIFT"}) /\ IsFiniteSet({"LCTL"})
                /\ {"LSHIFT", "RSHIFT"} = {"LSHIFT"} \cup {"RSHIFT"}
                /\ {"LCTL", "RCTL"} = {"LCTL"} \cup {"RCTL"}
            BY FS_Singleton
          <6> QED BY <6>1, FS_AddElement
        <5>2. IsFiniteSet(ShiftKeys) /\ IsFiniteSet(CtlKeys)
          BY <5>1, FS_Subset DEF ShiftKeys, CtlKeys
        <5> QED BY <2>2, <5>2
      <4>2. PICK x : KeysFor[m] = {x}
        BY <3>2, <4>1, FS_Singleton
      <4> QED BY <3>1, <3>2, <4>2 DEF Follows
    <3> QED BY <3>1, <3>2 DEF Follows
  <2> QED BY <2>1, <2>3 DEF ModifiersFollow, s
<1> QED BY <1>1, ConsInit, ConsStep, PTL DEF Spec

\* Console input, at any size of the buffer and with any keys, does what CharQueue
\* promises: each step of the console is a step of the queue or none.
THEOREM QueueKeptCorrect == Spec => QueueKept
<1>1. Init => Queue!QInit
  <2> SUFFICES ASSUME Init PROVE Queue!QInit
    OBVIOUS
  <2>1. kbd = <<>> /\ com = NONE /\ shift = {} /\ got = NO /\ rpos = 0 /\ wpos = 0
    BY DEF Init
  <2>2. UnderWay.out = <<>>
    BY <2>1, SpeltNone DEF UnderWay
  <2>3. Waiting = <<>>
    <3>1. ConsInv
      BY ConsInit
    <3>2. Waiting = Held(buf, rpos, wpos)
      BY <3>1, ConsFacts, WaitingIs DEF Waiting
    <3> QED BY <2>1, <3>1, <3>2, ConsFacts, HeldLess
  <2> QED BY <2>1, <2>2, <2>3 DEF Queue!QInit
<1>2. ConsInv /\ [Next]_vars
      => [Queue!Arrive \/ Queue!Fetch \/ Queue!Take]_(Queue!qvars)
  <2> SUFFICES ASSUME ConsInv, [Next]_vars
               PROVE  [Queue!Arrive \/ Queue!Fetch \/ Queue!Take]_(Queue!qvars)
    OBVIOUS
  <2>1. QStep
    BY ConsStep
  <2> QED BY <2>1 DEF QStep, Sent, Queue!Arrive, Queue!Fetch, Queue!Take, Queue!Wait, Queue!qvars
<1>3. Spec => []ConsInv
  BY ConsInit, ConsStep, PTL DEF Spec
<1> QED BY <1>1, <1>2, <1>3, PTL DEF Spec, QueueKept, Queue!QSpec
=============================================================================
