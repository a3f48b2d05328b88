--------------------------- MODULE MonitorProofs ----------------------------
(***************************************************************************)
(* Proofs about Readline, Stabs and Monitor, for every screen, line and    *)
(* table laid out as the compiler does it: the screen shows the line that  *)
(* is typed, parse cuts it into its words, and print_debuginfo is right,   *)
(* because each search ends with the entries the address belongs to.       *)
(***************************************************************************)
EXTENDS Monitor, NatFacts, FiniteSetTheorems, SequenceTheorems

-----------------------------------------------------------------------------
(* The screen.                                                             *)

Cells      == 0 .. ScreenSize - 1
OnScreen(s) == s = [buf |-> [p \in Cells |-> s.buf[p]], pos |-> s.pos] /\ s.pos \in Cells

\* The text stands in front of the cursor.
Shows(s, text) == /\ Len(text) <= s.pos
                  /\ \A i \in 1 .. Len(text) : s.buf[s.pos - Len(text) + i - 1] = text[i]

\* A line ends on the screen or right behind it.
LEMMA LineEnds ==
    /\ ScreenSize \in Nat /\ Cols \in Nat \ {0} /\ ScreenSize - Cols \in Nat \ {0}
    /\ \A p \in Cells : /\ p - (p % Cols) \in Cells
                        /\ p + Cols - (p % Cols) \in 1 .. ScreenSize
<1>1. Rows \in Nat \ {0, 1} /\ Cols \in Nat \ {0}
  BY ReadlineConstants
<1>2. PICK r \in Nat : Rows = r + 2
  <2>1. Rows - 2 \in Nat /\ Rows = (Rows - 2) + 2
    BY <1>1
  <2> QED BY <2>1
<1>3. ScreenSize = (r + 2) * Cols /\ (r + 2) * Cols = r * Cols + Cols + Cols /\ r * Cols \in Nat
  BY <1>1, <1>2 DEF ScreenSize
<1>4. ASSUME NEW p \in Cells
      PROVE  p - (p % Cols) \in Cells /\ p + Cols - (p % Cols) \in 1 .. ScreenSize
  <2> DEFINE q == p \div Cols
             m == p % Cols
  <2>1. p \in Nat /\ p < ScreenSize
    BY <1>1, <1>3, <1>4 DEF Cells
  <2>2. q \in Nat /\ m \in 0 .. Cols - 1 /\ p = Cols * q + m
    BY <1>1, <2>1, DivMod
  <2> HIDE DEF q, m
  <2>3. q < r + 2
    <3> SUFFICES ASSUME q >= r + 2 PROVE FALSE
      BY <1>2, <2>2
    <3>1. PICK d \in Nat : q = r + 2 + d
      <4>1. q - (r + 2) \in Nat
        BY <1>2, <2>2
      <4> QED BY <4>1, <1>2, <2>2
    <3>2. Cols * q = (r + 2) * Cols + Cols * d /\ Cols * d \in Nat
      BY <3>1, <1>1, <1>2
    <3> QED BY <3>2, <2>1, <2>2, <1>1, <1>3
  <2>4. PICK e \in Nat : r + 2 = q + 1 + e
    <3>1. r + 2 - (q + 1) \in Nat
      BY <1>2, <2>2, <2>3
    <3> QED BY <3>1, <1>2, <2>2
  <2>5. (r + 2) * Cols = Cols * q + Cols + e * Cols /\ e * Cols \in Nat
    <3>1. (q + 1 + e) * Cols = Cols * q + Cols + e * Cols
      BY <1>1, <2>2, <2>4
    <3> QED BY <3>1, <1>1, <2>4
  <2>6. p - m = Cols * q /\ p + Cols - m = Cols * q + Cols /\ Cols * q \in Nat
    BY <1>1, <2>1, <2>2
  <2>7. p - m \in Cells /\ p + Cols - m \in 1 .. ScreenSize
    BY <1>1, <1>3, <2>5, <2>6 DEF Cells
  <2> QED BY <2>7 DEF m
<1>5. ScreenSize \in Nat /\ ScreenSize - Cols \in Nat \ {0}
  BY <1>1, <1>3
<1> QED BY <1>1, <1>4, <1>5

\* Up to the end of the screen, or behind it: then everything moves up a line.
LEMMA ScrolledIs ==
    ASSUME NEW b, NEW q \in 0 .. ScreenSize
    PROVE  LET s == [buf |-> [p \in Cells |-> b[p]], pos |-> q]
               t == Scrolled(s)
           IN /\ OnScreen(t)
              /\ t.pos = IF q < ScreenSize THEN q ELSE q - Cols
              /\ q < ScreenSize => t = s
              /\ q = ScreenSize => \A p \in 0 .. ScreenSize - Cols - 1 : t.buf[p] = b[p + Cols]
<1> DEFINE s == [buf |-> [p \in Cells |-> b[p]], pos |-> q]
           n == ScreenSize - Cols
<1>1. /\ ScreenSize \in Nat /\ Cols \in Nat \ {0} /\ n \in Nat \ {0}
      /\ n < ScreenSize /\ ScreenSize - 1 \in Nat
  BY LineEnds
<1>2. CASE q < ScreenSize
  <2>1. Scrolled(s) = s
    BY <1>2 DEF Scrolled
  <2>2. OnScreen(s)
    BY <1>1, <1>2 DEF OnScreen, Cells
  <2> QED BY <1>1, <1>2, <2>1, <2>2
<1>3. CASE q = ScreenSize
  <2> DEFINE up == Memmove(s.buf, 0, Cols, n)
             w == [p \in Cells |-> IF p < n THEN up[p] ELSE Blank]
             t == [buf |-> w, pos |-> q - Cols]
  <2>1. up = [p \in Cells |-> IF p \in 0 .. n - 1 THEN s.buf[Cols + p - 0] ELSE s.buf[p]]
    BY <1>1 DEF Memmove
  <2>2. Scrolled(s) = t
    <3>1. ~(s.pos < ScreenSize) /\ s.pos = q
      BY <1>1, <1>3
    <3>2. DOMAIN up = Cells
      BY <2>1
    <3> QED BY <3>1, <3>2 DEF Scrolled
  <2>3. \A p \in 0 .. n - 1 : p \in Cells /\ w[p] = b[p + Cols]
    <3> TAKE p \in 0 .. n - 1
    <3>1. p \in Cells /\ p < n /\ Cols + p - 0 \in Cells /\ Cols + p - 0 = p + Cols
      BY <1>1 DEF Cells
    <3>2. up[p] = b[p + Cols]
      BY <2>1, <3>1
    <3> QED BY <3>1, <3>2
  <2>4. q - Cols \in Cells /\ ~(q < ScreenSize)
    BY <1>1, <1>3 DEF Cells
  <2>5. OnScreen(t)
    <3> HIDE DEF up
    <3>1. t.pos = q - Cols /\ t.buf = w
      OBVIOUS
    <3>2. w = [p \in Cells |-> w[p]]
      OBVIOUS
    <3> HIDE DEF w
    <3> QED BY <2>4, <3>1, <3>2 DEF OnScreen
  <2> QED BY <2>2, <2>3, <2>4, <2>5
<1> QED BY <1>1, <1>2, <1>3

LEMMA PutAny ==
    ASSUME NEW s, OnScreen(s), NEW c
    PROVE  OnScreen(CgaPutc(s, c))
<1>1. s = [buf |-> [p \in Cells |-> s.buf[p]], pos |-> s.pos] /\ s.pos \in Cells
  BY DEF OnScreen
<1> DEFINE w == Written(s, c)
<1>2. \E b : \E q \in 0 .. ScreenSize : w = [buf |-> [p \in Cells |-> b[p]], pos |-> q]
  <2>1. /\ ScreenSize \in Nat /\ s.pos - (s.pos % Cols) \in Cells
        /\ s.pos + Cols - (s.pos % Cols) \in 1 .. ScreenSize
    BY <1>1, LineEnds
  <2>2. CASE c = "BS"
    <3>1. CASE s.pos = 0
      <4>1. w = s
        BY <2>2, <3>1 DEF Written
      <4> QED BY <4>1, <1>1, <2>1 DEF Cells
    <3>2. CASE s.pos # 0
      <4> DEFINE b == [s.buf EXCEPT ![s.pos - 1] = Blank]
      <4>1. w = [buf |-> b, pos |-> s.pos - 1]
        BY <2>2, <3>2 DEF Written
      <4>2. DOMAIN s.buf = Cells /\ s.pos - 1 \in 0 .. ScreenSize
        BY <1>1, <2>1, <3>2 DEF Cells
      <4>3. b = [p \in Cells |-> b[p]]
        BY <4>2
      <4> HIDE DEF b
      <4> QED BY <4>1, <4>2, <4>3
    <3> QED BY <3>1, <3>2
  <2>3. CASE c = "LF"
    <3>1. w = [s EXCEPT !.pos = @ + Cols - (@ % Cols)]
      BY <2>3 DEF Written
    <3>2. w = [buf |-> [p \in Cells |-> s.buf[p]], pos |-> s.pos + Cols - (s.pos % Cols)]
      BY <1>1, <3>1
    <3>3. s.pos + Cols - (s.pos % Cols) \in 0 .. ScreenSize
      BY <2>1
    <3> QED BY <3>2, <3>3
  <2>4. CASE c = "CR"
    <3>1. w = [s EXCEPT !.pos = @ - (@ % Cols)]
      BY <2>4 DEF Written
    <3>2. w = [buf |-> [p \in Cells |-> s.buf[p]], pos |-> s.pos - (s.pos % Cols)]
      BY <1>1, <3>1
    <3>3. s.pos - (s.pos % Cols) \in 0 .. ScreenSize
      BY <2>1 DEF Cells
    <3> QED BY <3>2, <3>3
  <2>5. CASE c \notin {"BS", "LF", "CR"}
    <3> DEFINE b == [s.buf EXCEPT ![s.pos] = c]
    <3>1. w = [buf |-> b, pos |-> s.pos + 1]
      BY <2>5 DEF Written
    <3>2. DOMAIN s.buf = Cells /\ s.pos + 1 \in 0 .. ScreenSize
      BY <1>1, <2>1 DEF Cells
    <3>3. b = [p \in Cells |-> b[p]]
      BY <3>2
    <3> HIDE DEF b
    <3> QED BY <3>1, <3>2, <3>3
  <2> QED BY <2>2, <2>3, <2>4, <2>5
<1> HIDE DEF w
<1>3. PICK b : \E q \in 0 .. ScreenSize : w = [buf |-> [p \in Cells |-> b[p]], pos |-> q]
  BY <1>2
<1>4. PICK q \in 0 .. ScreenSize : w = [buf |-> [p \in Cells |-> b[p]], pos |-> q]
  BY <1>3
<1>5. OnScreen(Scrolled(w))
  BY <1>4, ScrolledIs
<1> QED BY <1>5 DEF CgaPutc, w

\* A letter behind the text: the text may move up a line with it.
LEMMA PutLetter ==
    ASSUME NEW s, OnScreen(s), NEW c \in Letters,
           NEW text \in Seq(Letters), Shows(s, text), Len(text) < ScreenSize - Cols
    PROVE  Shows(CgaPutc(s, c), Append(text, c))
<1> DEFINE n == Len(text)
           q == s.pos
           b == [s.buf EXCEPT ![q] = c]
           t == CgaPutc(s, c)
           u == Append(text, c)
<1>1. s = [buf |-> [p \in Cells |-> s.buf[p]], pos |-> s.pos] /\ q \in Cells
  BY DEF OnScreen
<1>2. /\ ScreenSize \in Nat /\ Cols \in Nat \ {0} /\ ScreenSize - Cols \in Nat \ {0}
      /\ n \in Nat /\ q \in Nat /\ q < ScreenSize
      /\ n <= q /\ n < ScreenSize - Cols
  BY <1>1, LineEnds DEF Shows, Cells
<1>3. Written(s, c) = [buf |-> b, pos |-> q + 1]
  <2>1. c # "BS" /\ c # "LF" /\ c # "CR"
    BY ReadlineConstants
  <2> QED BY <2>1 DEF Written
<1>4. DOMAIN s.buf = Cells
  BY <1>1
<1>5. b = [p \in Cells |-> b[p]] /\ b[q] = c /\ \A p \in Cells : p # q => b[p] = s.buf[p]
  BY <1>1, <1>4
<1>6. \A i \in 1 .. n : q - n + i - 1 \in Cells /\ q - n + i - 1 # q /\ b[q - n + i - 1] = text[i]
  <2> TAKE i \in 1 .. n
  <2>1. q - n + i - 1 \in Cells /\ q - n + i - 1 # q
    BY <1>2 DEF Cells
  <2>2. s.buf[q - n + i - 1] = text[i]
    BY DEF Shows
  <2> QED BY <1>5, <2>1, <2>2
<1>7. Len(u) = n + 1 /\ u[n + 1] = c /\ \A i \in 1 .. n : u[i] = text[i]
  OBVIOUS
<1> HIDE DEF b, u
<1>8. \A i \in 1 .. n + 1 : q - n + i - 1 \in Cells /\ b[q - n + i - 1] = u[i]
  <2> TAKE i \in 1 .. n + 1
  <2>1. CASE i = n + 1
    <3>1. q - n + i - 1 = q
      BY <1>2, <2>1
    <3> QED BY <1>1, <1>5, <1>7, <2>1, <3>1
  <2>2. CASE i \in 1 .. n
    BY <1>6, <1>7, <2>2
  <2> QED BY <1>2, <2>1, <2>2
<1>9. q + 1 \in 0 .. ScreenSize
  BY <1>2
<1>10. t = Scrolled([buf |-> [p \in Cells |-> b[p]], pos |-> q + 1])
  BY <1>3, <1>5 DEF CgaPutc
<1> HIDE DEF n, q, t
<1>11. CASE q + 1 < ScreenSize
  <2>1. t = [buf |-> [p \in Cells |-> b[p]], pos |-> q + 1]
    BY <1>9, <1>10, <1>11, ScrolledIs
  <2>2. t.pos = q + 1 /\ \A p \in Cells : t.buf[p] = b[p]
    BY <2>1
  <2>3. \A i \in 1 .. n + 1 : t.pos - (n + 1) + i - 1 = q - n + i - 1
    BY <1>2, <2>2
  <2>4. \A i \in 1 .. n + 1 : t.buf[t.pos - (n + 1) + i - 1] = u[i]
    BY <1>8, <2>2, <2>3
  <2>5. n + 1 <= t.pos
    BY <1>2, <2>2
  <2> QED BY <1>7, <2>4, <2>5 DEF Shows, t, u
<1>12. CASE q + 1 = ScreenSize
  <2>1. /\ t.pos = q + 1 - Cols
        /\ \A p \in 0 .. ScreenSize - Cols - 1 : t.buf[p] = b[p + Cols]
    <3>1. ~(q + 1 < ScreenSize)
      BY <1>2, <1>12
    <3>0. PICK w : w = q + 1
      OBVIOUS
    <3> DEFINE v == [buf |-> [p \in Cells |-> b[p]], pos |-> w]
    <3>2. w \in 0 .. ScreenSize /\ ~(w < ScreenSize) /\ w = ScreenSize /\ t = Scrolled(v)
      BY <3>0, <3>1, <1>9, <1>10, <1>12
    <3>3. /\ Scrolled(v).pos = IF w < ScreenSize THEN w ELSE w - Cols
          /\ w = ScreenSize => \A p \in 0 .. ScreenSize - Cols - 1 : Scrolled(v).buf[p] = b[p + Cols]
      BY <3>2, ScrolledIs
    <3> HIDE DEF v
    <3>4. t.pos = w - Cols
      BY <3>2, <3>3
    <3>5. \A p \in 0 .. ScreenSize - Cols - 1 : t.buf[p] = b[p + Cols]
      BY <3>2, <3>3
    <3>6. t.pos = q + 1 - Cols
      BY <1>2, <3>0, <3>4
    <3> QED BY <3>5, <3>6
  <2>2. t.pos \in Int /\ t.pos = ScreenSize - Cols /\ n + 1 <= t.pos
    BY <1>2, <1>12, <2>1
  <2>3. ASSUME NEW i \in 1 .. n + 1 PROVE t.buf[t.pos - (n + 1) + i - 1] = u[i]
    <3>1. /\ t.pos - (n + 1) + i - 1 \in 0 .. ScreenSize - Cols - 1
          /\ t.pos - (n + 1) + i - 1 + Cols = q - n + i - 1
      <4> DEFINE w == t.pos
      <4>1. w \in Int /\ w = ScreenSize - Cols /\ w = q + 1 - Cols /\ n + 1 <= w
        BY <2>1, <2>2
      <4> HIDE DEF w
      <4>2. w - (n + 1) + i - 1 \in 0 .. ScreenSize - Cols - 1
        BY <1>2, <4>1
      <4>3. w - (n + 1) + i - 1 + Cols = q - n + i - 1
        BY <1>2, <4>1
      <4> QED BY <4>2, <4>3 DEF w
    <3>2. t.buf[t.pos - (n + 1) + i - 1] = b[t.pos - (n + 1) + i - 1 + Cols]
      BY <2>1, <3>1
    <3> QED BY <1>8, <3>1, <3>2
  <2> QED BY <1>7, <2>2, <2>3 DEF Shows, t, u
<1> QED BY <1>2, <1>11, <1>12

\* A backspace takes the last letter off.
LEMMA PutBackspace ==
    ASSUME NEW s, OnScreen(s), NEW text \in Seq(Letters), text # <<>>, Shows(s, text)
    PROVE  \A u \in Seq(Letters) : Len(u) = Len(text) - 1 /\ (\A i \in 1 .. Len(u) : u[i] = text[i])
               => Shows(CgaPutc(s, "BS"), u)
<1> DEFINE n == Len(text)
           q == s.pos
           b == [s.buf EXCEPT ![q - 1] = Blank]
           t == CgaPutc(s, "BS")
<1>1. s = [buf |-> [p \in Cells |-> s.buf[p]], pos |-> s.pos] /\ q \in Cells
  BY DEF OnScreen
<1>2. /\ ScreenSize \in Nat /\ n \in Nat /\ n > 0 /\ q \in Nat /\ q < ScreenSize /\ n <= q
  BY <1>1, LineEnds DEF Shows, Cells
<1>3. Written(s, "BS") = [buf |-> b, pos |-> q - 1]
  BY <1>2 DEF Written
<1>4. DOMAIN s.buf = Cells
  BY <1>1
<1>5. b = [p \in Cells |-> b[p]] /\ \A p \in Cells : p # q - 1 => b[p] = s.buf[p]
  BY <1>1, <1>4
<1>6. q - 1 \in 0 .. ScreenSize /\ q - 1 < ScreenSize
  BY <1>2
<1>7. \A i \in 1 .. n - 1 : /\ q - n + i - 1 \in Cells /\ q - n + i - 1 # q - 1
                            /\ s.buf[q - n + i - 1] = text[i]
  <2> TAKE i \in 1 .. n - 1
  <2>1. q - n + i - 1 \in Cells /\ q - n + i - 1 # q - 1 /\ i \in 1 .. n
    BY <1>2 DEF Cells
  <2>2. s.buf[q - n + i - 1] = text[i]
    BY <2>1 DEF Shows
  <2> QED BY <2>1, <2>2
<1> HIDE DEF b
<1>8. t = [buf |-> [p \in Cells |-> b[p]], pos |-> q - 1]
  <2>1. t = Scrolled([buf |-> [p \in Cells |-> b[p]], pos |-> q - 1])
    BY <1>3, <1>5 DEF CgaPutc
  <2> HIDE DEF t, q
  <2> QED BY <2>1, <1>6, ScrolledIs
<1>9. t.pos = q - 1 /\ \A p \in Cells : t.buf[p] = b[p]
  BY <1>8
<1>10. ASSUME NEW u \in Seq(Letters), Len(u) = n - 1, \A i \in 1 .. Len(u) : u[i] = text[i]
       PROVE  Shows(t, u)
  <2> HIDE DEF n, q, t
  <2>1. Len(u) <= t.pos
    BY <1>2, <1>9, <1>10
  <2>2. ASSUME NEW i \in 1 .. Len(u) PROVE t.buf[t.pos - Len(u) + i - 1] = u[i]
    <3>1. i \in 1 .. n - 1 /\ t.pos - Len(u) + i - 1 = q - n + i - 1
      BY <1>2, <1>9, <1>10
    <3> QED BY <1>5, <1>7, <1>9, <1>10, <3>1
  <2> QED BY <2>1, <2>2 DEF Shows
<1> QED BY <1>10 DEF t, n

\* What follows what when text is shown on screen s0.
Frames(f, s0, text) == /\ f[0] = {s0}
                       /\ \A k \in 1 .. Len(text) : f[k] = {CgaPutc(s, text[k]) : s \in f[k - 1]}

LEMMA ScreensAre ==
    ASSUME NEW text, Len(text) \in Nat
    PROVE  \E f : /\ Frames(f, [buf |-> crt_buf, pos |-> crt_pos], text)
                  /\ Screens(text) = f[Len(text)]
<1>0. PICK n \in Nat : n = Len(text)
  OBVIOUS
<1> DEFINE D == 0 .. n
           Put(S, k) == {CgaPutc(s, text[k]) : s \in S}
<1>1. PICK s0 : s0 = [buf |-> crt_buf, pos |-> crt_pos]
  OBVIOUS
<1> DEFINE Body(f, k) == IF k = 0 THEN {s0} ELSE Put(f[k - 1], k)
           Fix(f) == f = [k \in D |-> Body(f, k)]
           To(m) == \E f : f[0] = {s0} /\ \A k \in 1 .. m : f[k] = Put(f[k - 1], k)
           after == CHOOSE f : Fix(f)
<1>2. Screens(text) = after[n]
  BY <1>0, <1>1 DEF Screens
<1> HIDE DEF Put
<1>3. To(n)
  <2> DEFINE T == {m \in Nat : To(m)}
  <2>1. 0 \in T
    <3> DEFINE g == [k \in {0} |-> {s0}]
    <3>1. g[0] = {s0} /\ \A k \in 1 .. 0 : g[k] = Put(g[k - 1], k)
      OBVIOUS
    <3> HIDE DEF g
    <3> QED BY <3>1
  <2>2. ASSUME NEW m \in 0 .. n - 1, m \in T PROVE m + 1 \in T
    <3>1. PICK f : f[0] = {s0} /\ \A k \in 1 .. m : f[k] = Put(f[k - 1], k)
      BY <2>2
    <3> DEFINE g == [k \in 0 .. m + 1 |-> IF k = m + 1 THEN Put(f[m], m + 1) ELSE f[k]]
    <3>2. g[m + 1] = Put(f[m], m + 1) /\ \A k \in 0 .. m : g[k] = f[k]
      BY <2>2
    <3> HIDE DEF g
    <3>3. g[0] = {s0}
      BY <3>1, <3>2
    <3>4. ASSUME NEW k \in 1 .. m + 1 PROVE g[k] = Put(g[k - 1], k)
      <4>1. CASE k = m + 1
        <5>1. k - 1 = m /\ m \in 0 .. m
          BY <4>1
        <5> QED BY <3>2, <4>1, <5>1
      <4>2. CASE k \in 1 .. m
        <5>1. k \in 0 .. m /\ k - 1 \in 0 .. m
          BY <4>2
        <5> QED BY <3>1, <3>2, <4>2, <5>1
      <4> QED BY <4>1, <4>2
    <3>5. To(m + 1) /\ m + 1 \in Nat
      BY <3>3, <3>4
    <3> HIDE DEF To
    <3> QED BY <3>5
  <2> HIDE DEF To
  <2>3. 0 \in T /\ \A m \in 0 .. n - 1 : m \in T => m + 1 \in T
    BY <2>1, <2>2
  <2> HIDE DEF T
  <2>4. \A m \in 0 .. n : m \in T
    BY <2>3, IntervalInduction
  <2>5. n \in T
    BY <2>4
  <2> QED BY <2>5 DEF T
<1>4. \E f : Fix(f)
  <2>1. PICK f : f[0] = {s0} /\ \A k \in 1 .. n : f[k] = Put(f[k - 1], k)
    BY <1>3
  <2> DEFINE g == [k \in D |-> f[k]]
  <2>2. \A k \in D : f[k] = Body(g, k)
    <3> TAKE k \in D
    <3>1. CASE k = 0
      BY <2>1, <3>1
    <3>2. CASE k # 0
      <4>1. k \in 1 .. n /\ k - 1 \in D
        BY <3>2
      <4>2. g[k - 1] = f[k - 1]
        BY <4>1
      <4> QED BY <2>1, <3>2, <4>1, <4>2
    <3> QED BY <3>1, <3>2
  <2>3. g = [k \in D |-> Body(g, k)]
    <3> DEFINE B(k) == Body(g, k)
    <3>1. \A k \in D : f[k] = B(k)
      BY <2>2
    <3> HIDE DEF B
    <3>2. g = [k \in D |-> B(k)]
      BY <3>1
    <3> QED BY <3>2 DEF B
  <2> QED BY <2>3
<1>5. Fix(after)
  <2> HIDE DEF Fix
  <2> QED BY <1>4
<1> HIDE DEF after
<1>6. \A k \in D : after[k] = Body(after, k)
  <2> DEFINE B(k) == Body(after, k)
  <2>1. after = [k \in D |-> B(k)]
    BY <1>5
  <2> HIDE DEF B
  <2>2. \A k \in D : after[k] = B(k)
    BY <2>1
  <2> QED BY <2>2 DEF B
<1>7. after[0] = {s0}
  BY <1>6
<1>8. \A k \in 1 .. n : after[k] = Put(after[k - 1], k)
  <2> TAKE k \in 1 .. n
  <2>1. k \in D /\ k # 0
    OBVIOUS
  <2> QED BY <1>6, <2>1
<1>9. Frames(after, s0, text)
  BY <1>0, <1>7, <1>8 DEF Frames, Put
<1> QED BY <1>0, <1>1, <1>2, <1>9

Screen == [buf |-> crt_buf, pos |-> crt_pos]

\* Whatever is shown, the cursor stays on the screen.
LEMMA ShowOnScreen ==
    ASSUME OnScreen(Screen), NEW text, Len(text) \in Nat, Show(text)
    PROVE  OnScreen(Screen)'
<1>1. PICK f : Frames(f, Screen, text) /\ Screens(text) = f[Len(text)]
  BY ScreensAre DEF Screen
<1>2. PICK n \in Nat : n = Len(text)
  OBVIOUS
<1>3. f[0] = {Screen} /\ \A k \in 1 .. n : f[k] = {CgaPutc(s, text[k]) : s \in f[k - 1]}
  BY <1>1, <1>2 DEF Frames
<1> DEFINE T == {k \in 0 .. n : \A s \in f[k] : OnScreen(s)}
<1>4. 0 \in T
  BY <1>3
<1>5. ASSUME NEW k \in 0 .. n - 1, k \in T PROVE k + 1 \in T
  <2>1. k + 1 \in 1 .. n /\ k + 1 \in 0 .. n /\ (k + 1) - 1 = k
    OBVIOUS
  <2>2. \A s \in f[k] : OnScreen(s)
    BY <1>5
  <2>3. f[k + 1] = {CgaPutc(s, text[k + 1]) : s \in f[k]}
    BY <1>3, <2>1
  <2>4. \A s \in f[k + 1] : OnScreen(s)
    BY <2>2, <2>3, PutAny
  <2> QED BY <2>1, <2>4
<1>6. n \in T
  <2> HIDE DEF T
  <2>1. \A k \in 0 .. n : k \in T
    BY <1>4, <1>5, IntervalInduction
  <2> QED BY <2>1
<1>7. PICK s \in Screens(text) : crt_buf' = s.buf /\ crt_pos' = s.pos
  BY DEF Show
<1>8. OnScreen(s)
  BY <1>1, <1>2, <1>6, <1>7
<1>9. [buf |-> crt_buf', pos |-> crt_pos'] = s
  <2>1. s = [buf |-> [p \in Cells |-> s.buf[p]], pos |-> s.pos]
    BY <1>8 DEF OnScreen
  <2> QED BY <1>7, <2>1
<1>10. Screen' = s
  BY <1>9 DEF Screen
<1> QED BY <1>8, <1>10

\* One character.
LEMMA ShowOne ==
    ASSUME OnScreen(Screen), NEW c, Show(<<c>>)
    PROVE  Screen' = CgaPutc(Screen, c)
<1>1. Len(<<c>>) = 1 /\ <<c>>[1] = c
  OBVIOUS
<1>2. PICK f : Frames(f, Screen, <<c>>) /\ Screens(<<c>>) = f[1]
  BY <1>1, ScreensAre DEF Screen
<1>3. f[0] = {Screen} /\ f[1] = {CgaPutc(s, c) : s \in f[0]}
  <2>1. 1 \in 1 .. 1 /\ 1 - 1 = 0
    OBVIOUS
  <2> QED BY <1>1, <1>2, <2>1 DEF Frames
<1>4. Screens(<<c>>) = {CgaPutc(Screen, c)}
  BY <1>2, <1>3
<1>5. PICK s \in Screens(<<c>>) : crt_buf' = s.buf /\ crt_pos' = s.pos
  BY DEF Show
<1>6. s = CgaPutc(Screen, c) /\ OnScreen(s)
  BY <1>4, <1>5, PutAny
<1>7. s = [buf |-> s.buf, pos |-> s.pos]
  BY <1>6 DEF OnScreen
<1> QED BY <1>5, <1>6, <1>7 DEF Screen

\* The prompt, from any cursor position.
LEMMA ShowsPrompt ==
    ASSUME OnScreen(Screen), Show(Prompt)
    PROVE  Shows(Screen', Prompt)
<1>0. /\ Prompt \in Seq(Letters) /\ Len(Prompt) \in Nat
      /\ \A k \in 1 .. Len(Prompt) : Prompt[k] \in Letters
      /\ Len(Prompt) < ScreenSize - Cols
  BY ReadlineConstants, LineEnds
<1>1. PICK f : Frames(f, Screen, Prompt) /\ Screens(Prompt) = f[Len(Prompt)]
  BY <1>0, ScreensAre DEF Screen
<1>2. PICK n \in Nat : n = Len(Prompt)
  BY <1>0
<1>3. f[0] = {Screen} /\ \A k \in 1 .. n : f[k] = {CgaPutc(s, Prompt[k]) : s \in f[k - 1]}
  BY <1>1, <1>2 DEF Frames
<1> DEFINE u(k) == SubSeq(Prompt, 1, k)
           T == {k \in 0 .. n : \A s \in f[k] : OnScreen(s) /\ Shows(s, u(k))}
<1>4. 0 \in T
  <2>1. Len(u(0)) = 0
    BY <1>0
  <2>2. Screen.pos \in Nat
    BY LineEnds DEF OnScreen, Cells
  <2>3. Shows(Screen, u(0))
    BY <2>1, <2>2 DEF Shows
  <2> QED BY <1>3, <2>3
<1>5. ASSUME NEW k \in 0 .. n - 1, k \in T PROVE k + 1 \in T
  <2>1. k + 1 \in 1 .. n /\ k + 1 \in 0 .. n /\ (k + 1) - 1 = k
    OBVIOUS
  <2>2. \A s \in f[k] : OnScreen(s) /\ Shows(s, u(k))
    BY <1>5
  <2>3. f[k + 1] = {CgaPutc(s, Prompt[k + 1]) : s \in f[k]}
    BY <1>3, <2>1
  <2>4. u(k) \in Seq(Letters) /\ Len(u(k)) = k /\ u(k + 1) = Append(u(k), Prompt[k + 1])
    <3>1. u(k) \in Seq(Letters) /\ Len(u(k)) = k /\ \A i \in 1 .. k : u(k)[i] = Prompt[i]
      BY <1>0, <1>2, <1>5
    <3>2. u(k + 1) \in Seq(Letters) /\ Len(u(k + 1)) = k + 1
          /\ \A i \in 1 .. k + 1 : u(k + 1)[i] = Prompt[i]
      BY <1>0, <1>2, <2>1
    <3> HIDE DEF u
    <3>3. /\ Append(u(k), Prompt[k + 1]) \in Seq(Letters)
          /\ Len(Append(u(k), Prompt[k + 1])) = k + 1
          /\ \A i \in 1 .. k + 1 : Append(u(k), Prompt[k + 1])[i] = Prompt[i]
      BY <1>0, <1>2, <2>1, <3>1
    <3>4. u(k + 1) = Append(u(k), Prompt[k + 1])
      <4> DEFINE v == u(k + 1)  w == Append(u(k), Prompt[k + 1])
      <4>1. v \in Seq(Letters) /\ w \in Seq(Letters) /\ Len(v) = Len(w)
            /\ \A i \in 1 .. Len(v) : v[i] = w[i]
        BY <3>2, <3>3
      <4> HIDE DEF v, w
      <4>2. v = w
        BY <4>1, SeqEqual
      <4> QED BY <4>2 DEF v, w
    <3> QED BY <3>1, <3>4
  <2> HIDE DEF u
  <2>5. k < ScreenSize - Cols /\ Prompt[k + 1] \in Letters
    BY <1>0, <1>2, <2>1, LineEnds
  <2>6. ASSUME NEW s \in f[k] PROVE OnScreen(CgaPutc(s, Prompt[k + 1]))
                                     /\ Shows(CgaPutc(s, Prompt[k + 1]), u(k + 1))
    <3>1. OnScreen(s) /\ Shows(s, u(k))
      BY <2>2
    <3>2. Shows(CgaPutc(s, Prompt[k + 1]), Append(u(k), Prompt[k + 1]))
      BY <2>4, <2>5, <3>1, PutLetter
    <3> QED BY <2>4, <3>1, <3>2, PutAny
  <2>7. \A s \in f[k + 1] : OnScreen(s) /\ Shows(s, u(k + 1))
    BY <2>3, <2>6
  <2> QED BY <2>1, <2>7
<1>6. n \in T
  <2> HIDE DEF T
  <2>1. \A k \in 0 .. n : k \in T
    BY <1>4, <1>5, IntervalInduction
  <2> QED BY <2>1
<1>7. PICK s \in Screens(Prompt) : crt_buf' = s.buf /\ crt_pos' = s.pos
  BY DEF Show
<1>8. OnScreen(s) /\ Shows(s, u(n))
  BY <1>1, <1>2, <1>6, <1>7
<1>9. Screen' = s
  <2>1. s = [buf |-> [p \in Cells |-> s.buf[p]], pos |-> s.pos]
    BY <1>8 DEF OnScreen
  <2> QED BY <1>7, <2>1 DEF Screen
<1>10. u(n) = Prompt
  BY <1>0, <1>2
<1> QED BY <1>8, <1>9, <1>10

ScreenInv == /\ OnScreen(Screen) /\ line \in Seq(Letters) /\ Len(line) < BufSize
             /\ pc = "read" => Shows(Screen, Prompt \o line)

LEMMA LinesAre ==
    ASSUME NEW n \in Nat
    PROVE  Len(Lines(n)) \in Nat
<1>1. Lines(n) = [k \in 1 .. 2 * n |-> IF k % 2 = 1 THEN Ink ELSE "LF"]
  BY DEF Lines
<1>2. 2 * n \in Nat
  OBVIOUS
<1>3. PICK m \in Nat : m = 2 * n
  BY <1>2
<1> DEFINE L(k) == IF k % 2 = 1 THEN Ink ELSE "LF"
<1>4. Lines(n) = [k \in 1 .. m |-> L(k)]
  BY <1>1, <1>3
<1> HIDE DEF L
<1>5. Len([k \in 1 .. m |-> L(k)]) = m
  OBVIOUS
<1> QED BY <1>4, <1>5

\* What the commands print, while no line is being typed.
LEMMA AnswerKeeps ==
    ASSUME ScreenInv, line' = line, pc' # "read",
           UNCHANGED screen \/ \E n \in Nat : Show(Lines(n))
    PROVE  ScreenInv'
<1>1. OnScreen(Screen)'
  <2>1. CASE UNCHANGED screen
    <3>1. Screen' = Screen
      BY <2>1 DEF Screen, screen
    <3> QED BY <3>1 DEF ScreenInv
  <2>2. CASE \E n \in Nat : Show(Lines(n))
    BY <2>2, LinesAre, ShowOnScreen DEF ScreenInv
  <2> QED BY <2>1, <2>2
<1> QED BY <1>1 DEF ScreenInv

LEMMA FrontIs ==
    ASSUME NEW l \in Seq(Letters), l # <<>>
    PROVE  /\ Front(l) \in Seq(Letters) /\ Len(Front(l)) = Len(l) - 1
           /\ \A i \in 1 .. Len(Front(l)) : Front(l)[i] = l[i]
<1>1. Front(l) = SubSeq(l, 1, Len(l) - 1)
  BY DEF Front
<1>2. PICK n \in Nat : n = Len(l) - 1
  OBVIOUS
<1>3. \A k \in 1 .. n : k \in 1 .. Len(l) /\ l[k] \in Letters
  BY <1>2
<1>4. /\ SubSeq(l, 1, n) \in Seq(Letters)
      /\ Len(SubSeq(l, 1, n)) = IF 1 <= n THEN n - 1 + 1 ELSE 0
      /\ \A k \in 1 .. n - 1 + 1 : SubSeq(l, 1, n)[k] = l[1 + k - 1]
  BY <1>2, <1>3, SubSeqProperties
<1>5. Front(l) \in Seq(Letters) /\ Len(Front(l)) = n /\ \A k \in 1 .. n : Front(l)[k] = l[k]
  BY <1>1, <1>2, <1>4
<1> QED BY <1>2, <1>5

LEMMA PromptAnd ==
    ASSUME NEW u \in Seq(Letters)
    PROVE  /\ Prompt \o u \in Seq(Letters) /\ Len(Prompt \o u) = Len(Prompt) + Len(u)
           /\ Len(Prompt) \in Nat /\ Len(u) \in Nat
           /\ \A i \in 1 .. Len(Prompt) : (Prompt \o u)[i] = Prompt[i]
           /\ \A i \in 1 .. Len(u) : (Prompt \o u)[Len(Prompt) + i] = u[i]
<1>1. Prompt \in Seq(Letters)
  BY ReadlineConstants
<1> QED BY <1>1

LEMMA ReadKeeps ==
    ASSUME ScreenInv, ShowPrompt \/ Readline
    PROVE  ScreenInv'
<1>0. /\ Prompt \in Seq(Letters) /\ Len(Prompt) \in Nat /\ BufSize \in Nat \ {0}
      /\ Len(Prompt) + BufSize - 1 < ScreenSize - Cols /\ ScreenSize - Cols \in Nat
  BY ReadlineConstants, LineEnds
<1>1. OnScreen(Screen) /\ line \in Seq(Letters) /\ Len(line) \in Nat /\ Len(line) < BufSize
  BY DEF ScreenInv
<1>2. CASE ShowPrompt
  <2>1. Show(Prompt) /\ line' = <<>> /\ <<>> \in Seq(Letters) /\ Len(<<>>) = 0
    BY <1>2 DEF ShowPrompt
  <2>2. Prompt \o <<>> = Prompt
    BY <1>0, ConcatEmptySeq
  <2>3. Shows(Screen', Prompt) /\ OnScreen(Screen)'
    BY <1>0, <1>1, <2>1, ShowsPrompt, ShowOnScreen
  <2>4. Shows(Screen', Prompt \o line')
    BY <2>1, <2>2, <2>3
  <2> QED BY <1>0, <2>1, <2>3, <2>4 DEF ScreenInv
<1>3. ASSUME NEW c \in Letters, TakeLetter(c) PROVE ScreenInv'
  <2> DEFINE u == Append(line, c)
  <2>1. pc = "read" /\ Len(line) < BufSize - 1 /\ Show(<<c>>) /\ line' = u
    BY <1>3 DEF TakeLetter
  <2>2. Screen' = CgaPutc(Screen, c) /\ OnScreen(Screen)'
    BY <1>1, <2>1, ShowOne, PutAny
  <2>3. u \in Seq(Letters) /\ Len(u) = Len(line) + 1 /\ u[Len(u)] = c
        /\ \A i \in 1 .. Len(line) : u[i] = line[i]
    BY <1>1
  <2> HIDE DEF u
  <2>4. Prompt \o u = Append(Prompt \o line, c)
    <3> DEFINE v == Prompt \o u
               w == Append(Prompt \o line, c)
               m == Len(Prompt)
               n == Len(line)
    <3>1. /\ v \in Seq(Letters) /\ Len(v) = m + n + 1 /\ v[m + n + 1] = c
          /\ \A i \in 1 .. m : v[i] = Prompt[i]
          /\ \A i \in 1 .. n : v[m + i] = line[i]
      <4>1. n + 1 \in 1 .. Len(u) /\ Len(u) = n + 1
        BY <1>1, <2>3
      <4>2. /\ v \in Seq(Letters) /\ Len(v) = m + Len(u)
            /\ \A i \in 1 .. m : v[i] = Prompt[i]
            /\ \A i \in 1 .. Len(u) : v[m + i] = u[i]
        BY <2>3, PromptAnd
      <4>3. v[m + (n + 1)] = u[n + 1]
        BY <4>1, <4>2
      <4>4. m + (n + 1) = m + n + 1 /\ m + Len(u) = m + n + 1
        BY <1>0, <1>1, <4>1
      <4>5. \A i \in 1 .. n : i \in 1 .. Len(u) /\ u[i] = line[i]
        BY <1>1, <2>3, <4>1
      <4> HIDE DEF v, m, n
      <4> QED BY <2>3, <4>1, <4>2, <4>3, <4>4, <4>5
    <3>2. /\ w \in Seq(Letters) /\ Len(w) = m + n + 1 /\ w[m + n + 1] = c
          /\ \A i \in 1 .. m : w[i] = Prompt[i]
          /\ \A i \in 1 .. n : w[m + i] = line[i]
      <4> DEFINE x == Prompt \o line
      <4>1. /\ x \in Seq(Letters) /\ Len(x) = m + n
            /\ \A i \in 1 .. m : x[i] = Prompt[i]
            /\ \A i \in 1 .. n : x[m + i] = line[i]
        BY <1>1, PromptAnd
      <4> HIDE DEF x, m, n
      <4>2. m \in Nat /\ n \in Nat
        BY <1>0, <1>1 DEF m, n
      <4>3. /\ Append(x, c) \in Seq(Letters) /\ Len(Append(x, c)) = m + n + 1
            /\ Append(x, c)[m + n + 1] = c
            /\ \A i \in 1 .. m + n : Append(x, c)[i] = x[i]
        BY <4>1, <4>2
      <4>4. \A i \in 1 .. n : m + i \in 1 .. m + n
        BY <4>2
      <4>5. \A i \in 1 .. m : i \in 1 .. m + n
        BY <4>2
      <4>6. w = Append(x, c)
        BY DEF x
      <4> HIDE DEF w
      <4>7. \A i \in 1 .. n : x[m + i] = line[i]
        <5>1. /\ \A i \in 1 .. Len(line) : (Prompt \o line)[Len(Prompt) + i] = line[i]
          BY <1>1, PromptAnd
        <5> QED BY <5>1 DEF x, m, n
      <4> QED BY <4>1, <4>3, <4>4, <4>5, <4>6, <4>7
    <3> HIDE DEF v, w
    <3>3. m \in Nat /\ n \in Nat
      BY <1>0, <1>1
    <3> HIDE DEF m, n
    <3>4. \A i \in 1 .. Len(v) : v[i] = w[i]
      <4> TAKE i \in 1 .. Len(v)
      <4>1. CASE i \in 1 .. m
        BY <3>1, <3>2, <4>1
      <4>2. CASE i = m + n + 1
        BY <3>1, <3>2, <4>2
      <4>3. CASE i \notin 1 .. m /\ i # m + n + 1
        <5>1. i - m \in 1 .. n /\ m + (i - m) = i
          BY <3>1, <3>3, <4>3
        <5>2. v[m + (i - m)] = line[i - m] /\ w[m + (i - m)] = line[i - m]
          BY <3>1, <3>2, <5>1
        <5> QED BY <5>1, <5>2
      <4> QED BY <4>1, <4>2, <4>3
    <3>5. v = w
      BY <3>1, <3>2, <3>4, SeqEqual
    <3> QED BY <3>5 DEF v, w
  <2>5. Prompt \o line \in Seq(Letters) /\ Len(Prompt \o line) = Len(Prompt) + Len(line)
    BY <1>1, PromptAnd
  <2>6. Len(Prompt \o line) < ScreenSize - Cols
    BY <1>0, <1>1, <2>1, <2>5
  <2>7. Shows(Screen, Prompt \o line)
    BY <2>1 DEF ScreenInv
  <2>8. Shows(CgaPutc(Screen, c), Append(Prompt \o line, c))
    BY <1>1, <2>5, <2>6, <2>7, PutLetter
  <2>9. Shows(Screen', Prompt \o line')
    BY <2>1, <2>2, <2>4, <2>8
  <2>10. line' \in Seq(Letters) /\ Len(line') < BufSize
    BY <1>0, <1>1, <2>1, <2>3
  <2> QED BY <2>2, <2>9, <2>10 DEF ScreenInv
<1>4. CASE TakeBackspace
  <2> DEFINE u == Front(line)
  <2>1. pc = "read" /\ line # <<>> /\ Show(<<"BS">>) /\ line' = u
    BY <1>4 DEF TakeBackspace
  <2>2. Screen' = CgaPutc(Screen, "BS") /\ OnScreen(Screen)'
    BY <1>1, <2>1, ShowOne, PutAny
  <2>3. Len(line) > 0
    BY <1>1, <2>1
  <2>4. u \in Seq(Letters) /\ Len(u) = Len(line) - 1 /\ \A i \in 1 .. Len(u) : u[i] = line[i]
    BY <1>1, <2>1, FrontIs
  <2> HIDE DEF u
  <2> DEFINE v == Prompt \o u
             w == Prompt \o line
             m == Len(Prompt)
  <2>5. /\ v \in Seq(Letters) /\ Len(v) = m + Len(u) /\ m \in Nat
        /\ \A i \in 1 .. m : v[i] = Prompt[i]
    BY <2>4, PromptAnd
  <2>6. \A i \in 1 .. Len(u) : v[m + i] = u[i]
    BY <2>4, PromptAnd
  <2>7. /\ w \in Seq(Letters) /\ Len(w) = m + Len(line)
        /\ \A i \in 1 .. m : w[i] = Prompt[i]
    BY <1>1, PromptAnd
  <2>8. \A i \in 1 .. Len(line) : w[m + i] = line[i]
    BY <1>1, PromptAnd
  <2>9. Shows(Screen, w) /\ w # <<>>
    <3>1. Shows(Screen, w)
      BY <2>1 DEF ScreenInv
    <3>2. Len(w) # 0
      <4> HIDE DEF w, m
      <4> QED BY <1>1, <2>3, <2>5, <2>7
    <3> HIDE DEF w
    <3> QED BY <3>1, <3>2
  <2> HIDE DEF v, w, m
  <2>10. Len(v) = Len(w) - 1
    BY <1>1, <2>4, <2>5, <2>7
  <2>11. \A i \in 1 .. Len(v) : v[i] = w[i]
    <3> TAKE i \in 1 .. Len(v)
    <3>1. CASE i \in 1 .. m
      BY <2>5, <2>7, <3>1
    <3>2. CASE i \notin 1 .. m
      <4>1. i - m \in 1 .. Len(u) /\ i - m \in 1 .. Len(line) /\ m + (i - m) = i
        BY <1>1, <2>4, <2>5, <3>2
      <4>2. v[m + (i - m)] = u[i - m] /\ w[m + (i - m)] = line[i - m] /\ u[i - m] = line[i - m]
        BY <2>4, <2>6, <2>8, <4>1
      <4> QED BY <4>1, <4>2
    <3> QED BY <3>1, <3>2
  <2>12. Shows(CgaPutc(Screen, "BS"), v)
    BY <1>1, <2>5, <2>7, <2>9, <2>10, <2>11, PutBackspace
  <2>13. Shows(Screen', Prompt \o line')
    BY <2>1, <2>2, <2>12 DEF v
  <2>14. line' \in Seq(Letters) /\ Len(line') < BufSize
    BY <1>0, <1>1, <2>1, <2>4
  <2> QED BY <2>2, <2>13, <2>14 DEF ScreenInv
<1>5. ASSUME NEW c, TakeNewline(c) PROVE ScreenInv'
  <2>1. pc' = "run" /\ Show(<<c>>) /\ line' = line
    BY <1>5 DEF TakeNewline
  <2>2. OnScreen(Screen)'
    BY <1>1, <2>1, ShowOne, PutAny
  <2> QED BY <1>1, <2>1, <2>2 DEF ScreenInv
<1>6. ASSUME NEW c, TakeNothing(c) PROVE ScreenInv'
  <2>1. crt_buf' = crt_buf /\ crt_pos' = crt_pos /\ line' = line /\ pc' = pc
    BY <1>6 DEF TakeNothing, vars
  <2>2. Screen' = Screen
    BY <2>1 DEF Screen
  <2> QED BY <2>1, <2>2 DEF ScreenInv
<1> QED BY <1>2, <1>3, <1>4, <1>5, <1>6 DEF Readline

LEMMA ScreenKeeps ==
    ASSUME ScreenInv, [MNext]_mvars
    PROVE  ScreenInv'
<1>1. CASE UNCHANGED mvars
  <2>1. crt_buf' = crt_buf /\ crt_pos' = crt_pos /\ line' = line /\ pc' = pc
    BY <1>1 DEF mvars, vars
  <2>2. Screen' = Screen
    BY <2>1 DEF Screen
  <2> QED BY <2>1, <2>2 DEF ScreenInv
<1>2. CASE Read
  BY <1>2, ReadKeeps DEF Read
<1>3. CASE Welcome
  BY <1>3, AnswerKeeps DEF Welcome
<1>4. CASE ParseWord
  <2>1. (IF Len(argv) = MaxArgs - 1 THEN 1 ELSE 0) \in Nat
    OBVIOUS
  <2>2. pc' \in {"run", "wild"} /\ line' = line /\ \E n \in Nat : Show(Lines(n))
    BY <1>4, <2>1 DEF ParseWord
  <2> QED BY <2>2, AnswerKeeps
<1>5. CASE ParseEnd
  BY <1>5, AnswerKeeps DEF ParseEnd
<1>6. ASSUME NEW n \in Nat, Answer(n) PROVE ScreenInv'
  <2>1. pc' = "prompt" /\ line' = line /\ Show(Lines(n))
    BY <1>6 DEF Answer
  <2> QED BY <2>1, AnswerKeeps
<1>7. CASE Help
  <2>1. DOMAIN Commands = {"help", "kerninfo", "backtrace"}
    BY MonitorConstants
  <2>2. IsFiniteSet(DOMAIN Commands)
    <3>1. IsFiniteSet({})
      BY FS_EmptySet
    <3>2. IsFiniteSet({} \cup {"help"})
      BY <3>1, FS_AddElement
    <3>3. IsFiniteSet(({} \cup {"help"}) \cup {"kerninfo"})
      BY <3>2, FS_AddElement
    <3>4. IsFiniteSet((({} \cup {"help"}) \cup {"kerninfo"}) \cup {"backtrace"})
      BY <3>3, FS_AddElement
    <3>5. DOMAIN Commands = (({} \cup {"help"}) \cup {"kerninfo"}) \cup {"backtrace"}
      BY <2>1
    <3> QED BY <3>4, <3>5
  <2>3. Cardinality(DOMAIN Commands) \in Nat
    BY <2>2, FS_CardinalityType
  <2> QED BY <1>6, <1>7, <2>3 DEF Help
<1>8. CASE KernInfo \/ NotFound
  BY <1>6, <1>8 DEF KernInfo, NotFound
<1>9. CASE Backtrace
  BY <1>9, AnswerKeeps DEF Backtrace
<1>10. ASSUME NEW ret, Frame(ret) PROVE ScreenInv'
  <2>1. pc' = "trace" /\ line' = line /\ \E n \in Nat : Show(Lines(n))
    BY <1>10 DEF Frame
  <2> QED BY <2>1, AnswerKeeps
<1>11. CASE Look
  <2>1. crt_buf' = crt_buf /\ crt_pos' = crt_pos /\ line' = line /\ pc' = "trace"
    BY <1>11 DEF Look, vars
  <2> QED BY <2>1, AnswerKeeps DEF screen
<1>12. CASE FramePrinted
  <2>1. pc' = "trace" /\ line' = line /\ \E n \in Nat : Show(Lines(n))
    BY <1>12 DEF FramePrinted
  <2> QED BY <2>1, AnswerKeeps
<1>13. CASE TraceEnd
  BY <1>13, AnswerKeeps DEF TraceEnd
<1> QED BY <1>1, <1>2, <1>3, <1>4, <1>5, <1>7, <1>8, <1>9, <1>10, <1>11, <1>12, <1>13
        DEF MNext, Run, Wild

\* However the line is typed and edited, and wherever the prompt began, the screen shows
\* the line in front of the cursor.
THEOREM ScreenShowsLineCorrect == MSpec => []ScreenShowsLine
<1>1. MInit => ScreenInv
  <2> SUFFICES ASSUME MInit PROVE ScreenInv
    OBVIOUS
  <2>1. /\ crt_buf = [p \in Cells |-> Blank] /\ crt_pos \in Cells
        /\ line = <<>> /\ pc = "welcome"
    BY DEF MInit, Init, Cells
  <2>2. crt_buf = [p \in Cells |-> crt_buf[p]]
    BY <2>1
  <2>3. OnScreen(Screen)
    BY <2>1, <2>2 DEF OnScreen, Screen
  <2>4. <<>> \in Seq(Letters) /\ Len(<<>>) = 0 /\ 0 < BufSize
    BY ReadlineConstants
  <2> QED BY <2>1, <2>3, <2>4 DEF ScreenInv
<1>2. ScreenInv /\ [MNext]_mvars => ScreenInv'
  BY ScreenKeeps
<1>3. ScreenInv => ScreenShowsLine
  <2>1. Screen.pos = crt_pos /\ Screen.buf = crt_buf
    BY DEF Screen
  <2> QED BY <2>1 DEF ScreenInv, ScreenShowsLine, Shows
<1> QED BY <1>1, <1>2, <1>3, PTL DEF MSpec

-----------------------------------------------------------------------------
(* The words of a line.                                                    *)

Text(l, k)   == k \in 1 .. Len(l) /\ l[k] # Blank
Starts(l, k) == Text(l, k) /\ ~Text(l, k - 1)

\* What parse leaves of line l in front of m and behind it, and the words it has saved.
Kept(l, m, k)   == IF Text(l, k) THEN l[k] ELSE IF k = Len(l) + 1 \/ k < m THEN NUL ELSE Blank
BufAt(l, b, m)  == b = [k \in 1 .. Len(l) + 1 |-> Kept(l, m, k)]
WordsTo(l, a, m) == \A k : k \in Range(a) <=> Starts(l, k) /\ k < m
Rising(a)       == a \in Seq(Nat) /\ \A i, j \in DOMAIN a : i < j => a[i] < a[j]

Parsed(l, b, a, m) == /\ m \in 1 .. Len(l) + 1 /\ (m = 1 \/ ~Text(l, m))
                      /\ BufAt(l, b, m) /\ WordsTo(l, a, m) /\ Rising(a)

ParseInv == /\ line \in Seq(Letters)
            /\ pc = "run" => Parsed(line, buf, argv, At)
            /\ pc = "lookup" => Parsed(line, buf, argv, Len(line) + 1)
            /\ pc = "wild" => Parsed(line, buf, argv, At) /\ Len(argv) > MaxArgs

LEMMA MinOf ==
    ASSUME NEW m \in Nat, NEW n \in Nat, NEW S, S \subseteq m .. n, S # {}
    PROVE  Min(S) \in S /\ \A y \in S : Min(S) <= y
<1>0. S \subseteq Nat /\ S \subseteq Int
  OBVIOUS
<1>1. PICK x \in S : \A y \in S : x <= y
  BY <1>0, LeastNat
<1>2. Min(S) = x
  BY <1>0, <1>1, MinIs
<1> QED BY <1>1, <1>2

\* Of what is kept, the words are text, and the rest is not.
LEMMA KeptIs ==
    ASSUME NEW l \in Seq(Letters), NEW m, NEW k
    PROVE  /\ Text(l, k) => /\ Kept(l, m, k) = l[k]
                            /\ Kept(l, m, k) # Blank /\ Kept(l, m, k) # NUL
           /\ ~Text(l, k) => Kept(l, m, k) \in {Blank, NUL}
           /\ ~Text(l, k) /\ k < m => Kept(l, m, k) = NUL
           /\ ~Text(l, k) /\ k = Len(l) + 1 => Kept(l, m, k) = NUL
           /\ ~Text(l, k) /\ k # Len(l) + 1 /\ ~(k < m) => Kept(l, m, k) = Blank
BY MonitorConstants DEF Kept, Text

LEMMA Differ == Blank # NUL
BY DEF Blank, NUL

\* The next word, from where parse stands.
LEMMA NextText ==
    ASSUME NEW l \in Seq(Letters), NEW b, NEW a, NEW m, Parsed(l, b, a, m)
    PROVE  \E at \in m .. Len(l) + 1 :
              /\ at = Min({j \in m .. Len(b) : b[j] # Blank})
              /\ Len(b) = Len(l) + 1 /\ DOMAIN b = 1 .. Len(l) + 1
              /\ \A j \in m .. at - 1 : ~Text(l, j)
              /\ (b[at] = NUL) <=> (at = Len(l) + 1)
              /\ at # Len(l) + 1 => Starts(l, at)
<1>1. PICK n \in Nat : n = Len(l)
  OBVIOUS
<1>2. m \in 1 .. n + 1 /\ (m = 1 \/ ~Text(l, m)) /\ BufAt(l, b, m)
  BY <1>1 DEF Parsed
<1>3. b = [k \in 1 .. n + 1 |-> Kept(l, m, k)]
  BY <1>1, <1>2 DEF BufAt
<1>4. DOMAIN b = 1 .. n + 1 /\ Len(b) = n + 1 /\ \A k \in 1 .. n + 1 : b[k] = Kept(l, m, k)
  BY <1>3
<1> DEFINE S == {j \in m .. n + 1 : b[j] # Blank}
<1>5. n + 1 \in S
  <2>1. ~Text(l, n + 1)
    BY <1>1 DEF Text
  <2>2. n + 1 \in 1 .. n + 1 /\ n + 1 \in m .. n + 1
    BY <1>2
  <2>3. b[n + 1] = NUL
    BY <1>1, <1>4, <2>1, <2>2, KeptIs
  <2> QED BY <2>2, <2>3, Differ
<1>6. Min(S) \in S /\ \A y \in S : Min(S) <= y
  <2>1. S \subseteq m .. n + 1 /\ S # {}
    BY <1>5
  <2>2. m \in Nat /\ n + 1 \in Nat
    BY <1>2
  <2> HIDE DEF S
  <2> QED BY <2>1, <2>2, MinOf
<1>7. PICK at \in m .. n + 1 : at = Min(S)
  BY <1>6
<1>8. b[at] # Blank /\ \A j \in m .. at - 1 : b[j] = Blank
  <2>1. at \in S /\ \A y \in S : at <= y
    BY <1>6, <1>7
  <2> QED BY <1>2, <2>1
<1>9. at \in 1 .. n + 1 /\ \A j \in m .. at - 1 : j \in 1 .. n + 1
  BY <1>2
<1>10. \A j \in m .. at - 1 : ~Text(l, j)
  BY <1>4, <1>8, <1>9, KeptIs
<1>11. (b[at] = NUL) <=> (at = n + 1)
  <2>1. CASE at = n + 1
    <3>1. ~Text(l, n + 1)
      BY <1>1 DEF Text
    <3> QED BY <1>1, <1>4, <1>9, <2>1, <3>1, KeptIs
  <2>2. CASE at # n + 1
    <3>1. CASE Text(l, at)
      BY <1>4, <1>9, <2>2, <3>1, KeptIs
    <3>2. CASE ~Text(l, at)
      <4>1. ~(at < m)
        BY <1>2
      <4>2. Kept(l, m, at) = Blank
        BY <1>1, <2>2, <3>2, <4>1, KeptIs
      <4> QED BY <1>4, <1>8, <1>9, <4>2
    <3> QED BY <3>1, <3>2
  <2> QED BY <2>1, <2>2
<1>12. ASSUME at # n + 1 PROVE Starts(l, at)
  <2>1. Text(l, at)
    <3> SUFFICES ASSUME ~Text(l, at) PROVE FALSE
      OBVIOUS
    <3>1. b[at] \in {Blank, NUL}
      BY <1>4, <1>9, KeptIs
    <3> QED BY <1>8, <1>11, <1>12, <3>1
  <2>2. ~Text(l, at - 1)
    <3>1. CASE at = m
      <4>1. at = 1
        BY <1>2, <2>1, <3>1
      <4> QED BY <1>1, <4>1 DEF Text
    <3>2. CASE at # m
      <4>1. at - 1 \in m .. at - 1
        BY <1>2, <3>2
      <4> QED BY <1>10, <4>1
    <3> QED BY <3>1, <3>2
  <2> QED BY <2>1, <2>2 DEF Starts
<1> QED BY <1>1, <1>4, <1>7, <1>10, <1>11, <1>12

\* A word is saved: parse stands behind it, in front of what is no text.
LEMMA ParseWordKeeps ==
    ASSUME line \in Seq(Letters), Parsed(line, buf, argv, At), ParseWord
    PROVE  Parsed(line, buf', argv', At')
<1>1. PICK n \in Nat : n = Len(line)
  OBVIOUS
<1>2. PICK m \in 1 .. n + 1 : m = At
  BY <1>1 DEF Parsed
<1>3. BufAt(line, buf, m) /\ WordsTo(line, argv, m) /\ Rising(argv)
  BY <1>2 DEF Parsed
<1>4. PICK at \in m .. n + 1 :
              /\ at = Min({j \in m .. Len(buf) : buf[j] # Blank})
              /\ Len(buf) = n + 1 /\ DOMAIN buf = 1 .. n + 1
              /\ \A j \in m .. at - 1 : ~Text(line, j)
              /\ (buf[at] = NUL) <=> (at = n + 1)
              /\ at # n + 1 => Starts(line, at)
  BY <1>1, <1>2, NextText
<1> DEFINE b == [j \in 1 .. n + 1 |-> IF j \in m .. at - 1 THEN NUL ELSE buf[j]]
<1>5. Skipped(At) = [at |-> at, buf |-> b]
  BY <1>2, <1>4 DEF Skipped
<1>6. b[at] # NUL /\ buf' = b /\ argv' = Append(argv, at)
  <2>1. Skipped(At).buf = b /\ Skipped(At).at = at
    BY <1>5
  <2> HIDE DEF b
  <2> QED BY <2>1 DEF ParseWord
<1>7. at \in 1 .. n + 1 /\ at \notin m .. at - 1
  BY <1>2
<1>8. at \in 1 .. n /\ Starts(line, at)
  <2>1. at # n + 1
    BY <1>4, <1>6, <1>7
  <2> QED BY <1>4, <1>7, <2>1
<1>9. \A k \in 1 .. n + 1 : buf[k] = Kept(line, m, k)
  BY <1>1, <1>3 DEF BufAt
<1>10. ASSUME NEW k \in 1 .. n + 1
       PROVE  buf'[k] = Kept(line, at, k)
  <2>1. buf'[k] = IF k \in m .. at - 1 THEN NUL ELSE buf[k]
    BY <1>6
  <2>2. CASE k \in m .. at - 1
    <3>1. ~Text(line, k) /\ k < at
      BY <1>4, <2>2
    <3> QED BY <2>1, <2>2, <3>1, KeptIs
  <2>3. CASE k \notin m .. at - 1
    <3>1. (k < m) = (k < at)
      BY <1>2, <1>4, <2>3
    <3> QED BY <1>9, <2>1, <2>3, <3>1 DEF Kept
  <2> QED BY <2>2, <2>3
<1>11. Len(buf') = n + 1 /\ buf' = [k \in 1 .. n + 1 |-> Kept(line, at, k)]
  <2>1. buf' = [k \in 1 .. n + 1 |-> buf'[k]]
    BY <1>6
  <2> QED BY <1>10, <2>1
<1> HIDE DEF b
<1>12. \A k \in 1 .. n + 1 : IsText(k)' <=> Text(line, k)
  BY <1>10, KeptIs DEF IsText
<1> DEFINE S == {j \in at .. n + 1 : ~Text(line, j)}
<1>13. At' = Min(S)
  <2>1. argv \in Seq(Nat) /\ at \in Nat
    BY <1>3, <1>8 DEF Rising
  <2>2. argv' # <<>> /\ Last(argv') = at
    BY <1>6, <2>1 DEF Last
  <2>3. At' = Min({j \in at .. Len(buf') : ~IsText(j)'})
    BY <2>2 DEF At, EndFrom
  <2>4. {j \in at .. Len(buf') : ~IsText(j)'} = S
    BY <1>7, <1>11, <1>12
  <2> HIDE DEF S
  <2> QED BY <2>3, <2>4
<1>14. Min(S) \in S /\ \A y \in S : Min(S) <= y
  <2>1. n + 1 \in S
    BY <1>1, <1>7 DEF Text
  <2>2. S \subseteq at .. n + 1 /\ S # {}
    BY <2>1
  <2>3. at \in Nat /\ n + 1 \in Nat
    BY <1>7
  <2> HIDE DEF S
  <2> QED BY <2>2, <2>3, MinOf
<1>15. PICK e \in at .. n + 1 : e = Min(S) /\ ~Text(line, e)
  BY <1>14
<1>16. \A j \in at .. e - 1 : Text(line, j)
  <2>1. \A y \in S : e <= y
    BY <1>14, <1>15
  <2> QED BY <1>7, <2>1
<1>17. e \in 1 .. n + 1 /\ at < e
  <2>1. at # e
    BY <1>8, <1>15 DEF Starts
  <2> QED BY <1>7, <2>1
<1>18. BufAt(line, buf', e)
  <2>1. \A k \in 1 .. n + 1 : Kept(line, at, k) = Kept(line, e, k)
    <3> TAKE k \in 1 .. n + 1
    <3>1. CASE k \in at .. e - 1
      BY <1>16, <3>1 DEF Kept
    <3>2. CASE k \notin at .. e - 1
      <4>1. (k < at) = (k < e)
        BY <1>7, <1>17, <3>2
      <4> QED BY <4>1 DEF Kept
    <3> QED BY <3>1, <3>2
  <2> QED BY <1>1, <1>11, <2>1 DEF BufAt
<1>19. argv \in Seq(Nat) /\ at \in Nat /\ Range(argv) = {argv[i] : i \in DOMAIN argv}
  BY <1>3, <1>7 DEF Rising, Range
<1>20. /\ argv' \in Seq(Nat) /\ DOMAIN argv' = 1 .. Len(argv) + 1
       /\ argv'[Len(argv) + 1] = at
       /\ \A i \in 1 .. Len(argv) : argv'[i] = argv[i]
  BY <1>6, <1>19
<1>21. \A i \in 1 .. Len(argv) : argv[i] < m
  <2> TAKE i \in 1 .. Len(argv)
  <2>1. argv[i] \in Range(argv)
    BY <1>19
  <2> QED BY <1>3, <2>1 DEF WordsTo
<1>22. WordsTo(line, argv', e)
  <2>1. \A k : k \in Range(argv') <=> k \in Range(argv) \/ k = at
    <3>1. Range(argv') = {argv'[i] : i \in DOMAIN argv'}
      BY DEF Range
    <3>2. DOMAIN argv = 1 .. Len(argv) /\ Len(argv) \in Nat
      BY <1>19
    <3>3. \A i \in DOMAIN argv : i \in DOMAIN argv' /\ argv'[i] = argv[i]
      BY <1>20, <3>2
    <3>4. Len(argv) + 1 \in DOMAIN argv' /\ argv'[Len(argv) + 1] = at
      BY <1>20, <3>2
    <3>5. \A i \in DOMAIN argv' : i \in DOMAIN argv \/ i = Len(argv) + 1
      BY <1>20, <3>2
    <3> QED BY <1>19, <3>1, <3>3, <3>4, <3>5
  <2>2. \A k : k \in Range(argv) <=> Starts(line, k) /\ k < m
    BY <1>3 DEF WordsTo
  <2>3. ASSUME NEW k, Starts(line, k), k < e PROVE k < m \/ k = at
    <3>1. k \in 1 .. n
      BY <1>1, <2>3 DEF Starts, Text
    <3>2. CASE k \in m .. at - 1
      BY <1>4, <2>3, <3>2 DEF Starts
    <3>3. CASE k \in at + 1 .. e - 1
      <4>1. k - 1 \in at .. e - 1
        BY <1>17, <3>3
      <4> QED BY <1>16, <2>3, <4>1 DEF Starts
    <3> QED BY <1>2, <1>7, <1>17, <2>3, <3>1, <3>2, <3>3
  <2>4. ASSUME NEW k, Starts(line, k), k < m PROVE k < e
    <3>1. k \in 1 .. n
      BY <1>1, <2>4 DEF Starts, Text
    <3> QED BY <1>2, <1>7, <1>17, <2>4, <3>1
  <2> QED BY <1>8, <1>17, <2>1, <2>2, <2>3, <2>4 DEF WordsTo
<1>23. Rising(argv')
  <2>1. Len(argv) \in Nat /\ DOMAIN argv = 1 .. Len(argv) /\ \A i \in DOMAIN argv : argv[i] \in Nat
    BY <1>19
  <2>2. ASSUME NEW i \in DOMAIN argv', NEW j \in DOMAIN argv', i < j
        PROVE  argv'[i] < argv'[j]
    <3>1. i \in 1 .. Len(argv) /\ argv'[i] = argv[i] /\ argv[i] \in Nat
      BY <1>20, <2>1, <2>2
    <3>2. CASE j = Len(argv) + 1
      <4>1. argv[i] < m
        BY <1>21, <3>1
      <4> QED BY <1>2, <1>7, <1>20, <3>1, <3>2, <4>1
    <3>3. CASE j # Len(argv) + 1
      <4>1. j \in 1 .. Len(argv) /\ argv'[j] = argv[j]
        BY <1>20, <2>1, <3>3
      <4> QED BY <1>3, <2>1, <2>2, <3>1, <4>1 DEF Rising
    <3> QED BY <3>2, <3>3
  <2> QED BY <1>20, <2>2 DEF Rising
<1>24. At' = e
  BY <1>13, <1>15
<1> HIDE DEF S
<1> QED BY <1>1, <1>15, <1>17, <1>18, <1>22, <1>23, <1>24 DEF Parsed

\* The line is over: parse has passed all of it.
LEMMA ParseEndKeeps ==
    ASSUME line \in Seq(Letters), Parsed(line, buf, argv, At), ParseEnd
    PROVE  Parsed(line, buf', argv, Len(line) + 1)
<1>1. PICK n \in Nat : n = Len(line)
  OBVIOUS
<1>2. PICK m \in 1 .. n + 1 : m = At
  BY <1>1 DEF Parsed
<1>3. BufAt(line, buf, m) /\ WordsTo(line, argv, m) /\ Rising(argv)
  BY <1>2 DEF Parsed
<1>4. PICK at \in m .. n + 1 :
              /\ at = Min({j \in m .. Len(buf) : buf[j] # Blank})
              /\ Len(buf) = n + 1 /\ DOMAIN buf = 1 .. n + 1
              /\ \A j \in m .. at - 1 : ~Text(line, j)
              /\ (buf[at] = NUL) <=> (at = n + 1)
              /\ at # n + 1 => Starts(line, at)
  BY <1>1, <1>2, NextText
<1> DEFINE b == [j \in 1 .. n + 1 |-> IF j \in m .. at - 1 THEN NUL ELSE buf[j]]
<1>5. Skipped(At) = [at |-> at, buf |-> b]
  BY <1>2, <1>4 DEF Skipped
<1>6. b[at] = NUL /\ buf' = b
  <2>1. Skipped(At).buf = b /\ Skipped(At).at = at
    BY <1>5
  <2> HIDE DEF b
  <2> QED BY <2>1 DEF ParseEnd
<1>7. at = n + 1
  <2>1. at \in 1 .. n + 1 /\ at \notin m .. at - 1
    BY <1>2
  <2> QED BY <1>4, <1>6, <2>1
<1>8. \A j \in m .. n : ~Text(line, j)
  <2>1. at - 1 = n
    BY <1>7
  <2>2. \A j \in m .. at - 1 : ~Text(line, j)
    BY <1>4
  <2> QED BY <2>1, <2>2
<1>9. ~Text(line, n + 1)
  BY <1>1 DEF Text
<1>10. BufAt(line, buf', n + 1)
  <2>1. \A k \in 1 .. n + 1 : buf[k] = Kept(line, m, k)
    BY <1>1, <1>3 DEF BufAt
  <2>2. ASSUME NEW k \in 1 .. n + 1 PROVE b[k] = Kept(line, n + 1, k)
    <3>1. b[k] = IF k \in m .. n THEN NUL ELSE buf[k]
      BY <1>7
    <3> HIDE DEF b
    <3>2. CASE k \in m .. n
      <4>1. k < n + 1
        BY <3>2
      <4> QED BY <1>8, <3>1, <3>2, <4>1, KeptIs
    <3>3. CASE k < m
      <4>1. k < n + 1 /\ k \notin m .. n
        BY <1>2, <3>3
      <4> QED BY <2>1, <3>1, <3>3, <4>1 DEF Kept
    <3>4. CASE k = n + 1
      <4>1. k \notin m .. n
        BY <3>4
      <4>2. Kept(line, m, k) = NUL /\ Kept(line, n + 1, k) = NUL
        BY <1>1, <1>9, <3>4, KeptIs
      <4> QED BY <2>1, <3>1, <4>1, <4>2
    <3> QED BY <1>2, <3>2, <3>3, <3>4
  <2>3. b = [k \in 1 .. n + 1 |-> b[k]]
    OBVIOUS
  <2> HIDE DEF b
  <2>4. b = [k \in 1 .. n + 1 |-> Kept(line, n + 1, k)]
    BY <2>2, <2>3
  <2> QED BY <1>1, <1>6, <2>4 DEF BufAt
<1>11. WordsTo(line, argv, n + 1)
  <2>1. ASSUME NEW k, Starts(line, k) PROVE (k < m) <=> (k < n + 1)
    <3>1. k \in 1 .. n /\ Text(line, k)
      BY <1>1, <2>1 DEF Starts, Text
    <3>2. k \notin m .. n
      BY <1>8, <3>1
    <3> QED BY <1>2, <3>1, <3>2
  <2> QED BY <1>3, <2>1 DEF WordsTo
<1>12. n + 1 \in 1 .. n + 1
  OBVIOUS
<1> QED BY <1>1, <1>3, <1>9, <1>10, <1>11, <1>12 DEF Parsed

\* A line as readline returns it, of which parse has seen nothing.
LEMMA Begun ==
    ASSUME NEW l \in Seq(Letters)
    PROVE  Parsed(l, Append(l, NUL), <<>>, 1)
<1>1. PICK n \in Nat : n = Len(l)
  OBVIOUS
<1>2. Append(l, NUL) = [k \in 1 .. n + 1 |-> Kept(l, 1, k)]
  <2>1. Append(l, NUL) = [k \in 1 .. n + 1 |-> IF k = n + 1 THEN NUL ELSE l[k]]
    <3> DEFINE s == Append(l, NUL)
    <3>1. l \in Seq(Letters \cup {NUL}) /\ NUL \in Letters \cup {NUL}
      OBVIOUS
    <3>2. /\ s \in Seq(Letters \cup {NUL}) /\ Len(s) = n + 1
          /\ s[n + 1] = NUL /\ \A k \in 1 .. n : s[k] = l[k]
      BY <1>1, <3>1
    <3> HIDE DEF s
    <3>3. s = [k \in 1 .. n + 1 |-> s[k]]
      BY <3>2
    <3>4. \A k \in 1 .. n + 1 : s[k] = IF k = n + 1 THEN NUL ELSE l[k]
      BY <3>2
    <3>5. s = [k \in 1 .. n + 1 |-> IF k = n + 1 THEN NUL ELSE l[k]]
      BY <3>3, <3>4
    <3> QED BY <3>5 DEF s
  <2>2. ASSUME NEW k \in 1 .. n + 1
        PROVE  Kept(l, 1, k) = IF k = n + 1 THEN NUL ELSE l[k]
    <3>1. CASE k = n + 1
      <4>1. ~Text(l, k)
        BY <1>1, <3>1 DEF Text
      <4> QED BY <1>1, <3>1, <4>1, KeptIs
    <3>2. CASE k # n + 1
      <4>1. k \in 1 .. n /\ ~(k < 1)
        BY <3>2
      <4>2. CASE l[k] = Blank
        BY <1>1, <3>2, <4>1, <4>2 DEF Kept, Text
      <4>3. CASE l[k] # Blank
        BY <1>1, <3>2, <4>1, <4>3 DEF Kept, Text
      <4> QED BY <4>2, <4>3
    <3> QED BY <3>1, <3>2
  <2> QED BY <2>1, <2>2
<1>3. BufAt(l, Append(l, NUL), 1)
  BY <1>1, <1>2 DEF BufAt
<1>4. WordsTo(l, <<>>, 1)
  <2>1. Range(<<>>) = {}
    BY DEF Range
  <2>2. ASSUME NEW k, Starts(l, k), k < 1 PROVE FALSE
    BY <1>1, <2>2 DEF Starts, Text
  <2> QED BY <2>1, <2>2 DEF WordsTo
<1>5. Rising(<<>>)
  BY DEF Rising
<1>6. 1 \in 1 .. n + 1
  OBVIOUS
<1> QED BY <1>1, <1>3, <1>4, <1>5, <1>6 DEF Parsed

LEMMA ParseKeeps ==
    ASSUME ParseInv, [MNext]_mvars
    PROVE  ParseInv'
<1>0. line \in Seq(Letters)
  BY DEF ParseInv
<1>1. CASE UNCHANGED mvars
  <2>1. line' = line /\ pc' = pc /\ buf' = buf /\ argv' = argv
    BY <1>1 DEF mvars, vars
  <2>2. At' = At
    BY <2>1 DEF At, EndFrom, IsText
  <2> QED BY <2>1, <2>2 DEF ParseInv
<1>2. CASE ShowPrompt /\ Read
  <2>1. pc' = "read" /\ line' = <<>>
    BY <1>2 DEF ShowPrompt
  <2> QED BY <2>1 DEF ParseInv
<1>3. CASE Readline /\ Read
  <2>1. pc = "read" /\ buf' = (IF pc' = "run" THEN Append(line', NUL) ELSE buf) /\ argv' = <<>>
    BY <1>3 DEF Read, Readline, TakeLetter, TakeBackspace, TakeNewline, TakeNothing
  <2>2. CASE TakeBackspace
    <3>1. line' = Front(line) /\ pc' = pc /\ line # <<>>
      BY <2>2 DEF TakeBackspace
    <3>2. Front(line) \in Seq(Letters)
      BY <1>0, <3>1, FrontIs
    <3> QED BY <2>1, <3>1, <3>2 DEF ParseInv
  <2>3. ASSUME NEW c \in Letters, TakeLetter(c) PROVE ParseInv'
    <3>1. line' = Append(line, c) /\ pc' = pc
      BY <2>3 DEF TakeLetter
    <3> QED BY <1>0, <2>1, <3>1 DEF ParseInv
  <2>4. ASSUME NEW c, TakeNothing(c) PROVE ParseInv'
    <3>1. line' = line /\ pc' = pc
      BY <2>4 DEF TakeNothing, vars
    <3> QED BY <1>0, <2>1, <3>1 DEF ParseInv
  <2>5. ASSUME NEW c, TakeNewline(c) PROVE ParseInv'
    <3>1. line' = line /\ pc' = "run"
      BY <2>5 DEF TakeNewline
    <3>2. buf' = Append(line, NUL) /\ argv' = <<>>
      BY <2>1, <3>1
    <3>3. At' = 1
      BY <3>2 DEF At
    <3>4. Parsed(line, buf', argv', 1)
      BY <1>0, <3>2, Begun
    <3> QED BY <1>0, <3>1, <3>3, <3>4 DEF ParseInv
  <2> QED BY <1>3, <2>2, <2>3, <2>4, <2>5 DEF Readline
<1>4. CASE ParseWord
  <2>1. pc = "run" /\ pc' \in {"run", "wild"} /\ line' = line
    BY <1>4 DEF ParseWord
  <2>2. Parsed(line, buf', argv', At')
    BY <1>0, <1>4, <2>1, ParseWordKeeps DEF ParseInv
  <2>3. ASSUME pc' = "wild" PROVE Len(argv') > MaxArgs
    <3>1. PICK at : argv' = Append(argv, at)
      BY <1>4 DEF ParseWord
    <3>2. Len(argv) >= MaxArgs
      BY <1>4, <2>3 DEF ParseWord
    <3>3. argv \in Seq(Nat)
      BY <2>1 DEF ParseInv, Parsed, Rising
    <3>4. Len(argv') = Len(argv) + 1 /\ Len(argv) \in Nat
      BY <3>1, <3>3
    <3> QED BY <3>2, <3>4, MonitorConstants
  <2> QED BY <1>0, <2>1, <2>2, <2>3 DEF ParseInv
<1>5. CASE ParseEnd
  <2>1. pc = "run" /\ pc' \notin {"run", "wild"} /\ line' = line /\ argv' = argv
    BY <1>5 DEF ParseEnd
  <2>2. Parsed(line, buf', argv, Len(line) + 1)
    BY <1>0, <1>5, <2>1, ParseEndKeeps DEF ParseInv
  <2> QED BY <1>0, <2>1, <2>2 DEF ParseInv
<1>6. ASSUME pc' \notin {"run", "lookup", "wild"}, line' = line PROVE ParseInv'
  BY <1>0, <1>6 DEF ParseInv
<1>7. CASE Welcome
  BY <1>6, <1>7 DEF Welcome
<1>8. CASE Help \/ KernInfo \/ NotFound
  BY <1>6, <1>8 DEF Help, KernInfo, NotFound, Answer
<1>9. CASE Backtrace
  BY <1>6, <1>9 DEF Backtrace
<1>10. ASSUME NEW ret, Frame(ret) PROVE ParseInv'
  BY <1>6, <1>10 DEF Frame
<1>11. CASE Look
  BY <1>6, <1>11 DEF Look, vars
<1>12. CASE FramePrinted
  BY <1>6, <1>12 DEF FramePrinted
<1>13. CASE TraceEnd
  BY <1>6, <1>13 DEF TraceEnd
<1>14. Read => ShowPrompt \/ Readline
  BY DEF Read
<1> QED BY <1>1, <1>2, <1>3, <1>4, <1>5, <1>7, <1>8, <1>9, <1>10, <1>11, <1>12, <1>13, <1>14
        DEF MNext, Run, Wild

\* No word is saved twice, so a line has at least as many as were saved.
LEMMA WordsCounted ==
    ASSUME NEW l \in Seq(Letters), NEW a, Rising(a), NEW m, WordsTo(l, a, m)
    PROVE  LET starts == {k \in DOMAIN l : Starts(l, k)}
           IN  Cardinality(starts) >= Len(a) /\ Cardinality(starts) \in Nat
<1> DEFINE starts == {k \in DOMAIN l : Starts(l, k)}
           n == Len(a)
<1>1. /\ a \in Seq(Nat) /\ n \in Nat /\ DOMAIN a = 1 .. n
      /\ \A i, j \in 1 .. n : i < j => a[i] < a[j]
  BY DEF Rising
<1>2. DOMAIN l = 1 .. Len(l) /\ Len(l) \in Nat
  OBVIOUS
<1>3. IsFiniteSet(starts) /\ Cardinality(starts) \in Nat
  <2>1. IsFiniteSet(1 .. Len(l))
    BY <1>2, FS_Interval
  <2>2. starts \subseteq 1 .. Len(l)
    BY <1>2
  <2> HIDE DEF starts
  <2> QED BY <2>1, <2>2, FS_Subset, FS_CardinalityType
<1>4. IsFiniteSet(1 .. n) /\ Cardinality(1 .. n) = n
  <2>1. n \in Nat /\ 1 \in Int /\ n \in Int
    BY <1>1
  <2> HIDE DEF n
  <2>2. Cardinality(1 .. n) = IF 1 > n THEN 0 ELSE n - 1 + 1
    BY <2>1, FS_Interval
  <2> QED BY <2>1, <2>2, FS_Interval
<1>5. a \in [1 .. n -> starts]
  <2>1. ASSUME NEW i \in 1 .. n PROVE a[i] \in starts
    <3>1. a[i] \in Range(a)
      BY <1>1 DEF Range
    <3>2. Starts(l, a[i])
      BY <3>1 DEF WordsTo
    <3> QED BY <1>2, <3>2 DEF Starts, Text
  <2>2. a = [i \in 1 .. n |-> a[i]]
    BY <1>1
  <2> HIDE DEF starts, n
  <2> QED BY <2>1, <2>2
<1>6. ~ \E i, j \in 1 .. n : i # j /\ a[i] = a[j]
  <2> SUFFICES ASSUME NEW i \in 1 .. n, NEW j \in 1 .. n, i # j PROVE a[i] # a[j]
    OBVIOUS
  <2>1. a[i] \in Nat /\ a[j] \in Nat
    BY <1>1
  <2>2. a[i] < a[j] \/ a[j] < a[i]
    BY <1>1
  <2> QED BY <2>1, <2>2
<1> HIDE DEF starts, n
<1>7. ~(Cardinality(starts) < Cardinality(1 .. n))
  BY <1>3, <1>4, <1>5, <1>6, FS_PigeonHole
<1>8. Cardinality(starts) >= n
  BY <1>1, <1>3, <1>4, <1>7
<1> QED BY <1>3, <1>8 DEF starts, n

\* A word ends where the text ends, in the line and in what parse has left of it.
LEMMA WordIs ==
    ASSUME NEW l \in Seq(Letters), NEW b, BufAt(l, b, Len(l) + 1), NEW k, Starts(l, k)
    PROVE  SubSeq(b, k, Min({j \in k .. Len(b) : b[j] = NUL}) - 1)
           = SubSeq(l, k, Min({j \in k .. Len(l) + 1 : ~Text(l, j)}) - 1)
<1>1. PICK n \in Nat : n = Len(l)
  OBVIOUS
<1>2. k \in 1 .. n
  BY <1>1 DEF Starts, Text
<1>3. b = [j \in 1 .. n + 1 |-> Kept(l, n + 1, j)]
  BY <1>1 DEF BufAt
<1>4. Len(b) = n + 1 /\ \A j \in 1 .. n + 1 : b[j] = Kept(l, n + 1, j)
  BY <1>3
<1>5. \A j \in 1 .. n + 1 : (b[j] = NUL) <=> ~Text(l, j)
  <2> TAKE j \in 1 .. n + 1
  <2>1. j < n + 1 \/ j = Len(l) + 1
    BY <1>1
  <2> QED BY <1>4, <2>1, KeptIs
<1> DEFINE S == {j \in k .. n + 1 : ~Text(l, j)}
<1>6. {j \in k .. Len(b) : b[j] = NUL} = S
  BY <1>2, <1>4, <1>5
<1>7. Min(S) \in S /\ \A y \in S : Min(S) <= y
  <2>1. n + 1 \in S
    BY <1>1, <1>2 DEF Text
  <2>2. S \subseteq k .. n + 1 /\ S # {}
    BY <2>1
  <2>3. k \in Nat /\ n + 1 \in Nat
    BY <1>2
  <2> HIDE DEF S
  <2> QED BY <2>2, <2>3, MinOf
<1>8. PICK e \in k .. n : e = Min(S) - 1 /\ \A j \in k .. e : Text(l, j)
  <2>1. Min(S) \in k .. n + 1 /\ ~Text(l, Min(S))
    BY <1>7
  <2>2. Min(S) # k
    BY <2>1 DEF Starts
  <2>3. PICK x \in k .. n + 1 : x = Min(S) /\ x # k /\ \A y \in S : x <= y
    BY <1>7, <2>1, <2>2
  <2>4. x - 1 \in k .. n
    <3>1. x \in k .. n + 1 /\ x # k
      BY <2>3
    <3> HIDE DEF S
    <3> QED BY <1>2, <3>1
  <2>5. \A j \in k .. x - 1 : j \in k .. n + 1 /\ ~(x <= j)
    <3>1. x \in k .. n + 1
      OBVIOUS
    <3> HIDE DEF S
    <3> QED BY <1>2, <3>1
  <2>6. \A j \in k .. x - 1 : Text(l, j)
    BY <2>3, <2>5
  <2> HIDE DEF S
  <2> QED BY <2>3, <2>4, <2>6
<1>9. \A j \in k .. e : b[j] = l[j] /\ l[j] \in Letters
  <2> TAKE j \in k .. e
  <2>1. j \in 1 .. n + 1 /\ j \in 1 .. Len(l) /\ Text(l, j)
    BY <1>1, <1>2, <1>8
  <2> QED BY <1>4, <2>1, KeptIs
<1>10. /\ SubSeq(l, k, e) \in Seq(Letters) /\ Len(SubSeq(l, k, e)) = e - k + 1
       /\ \A i \in 1 .. e - k + 1 : SubSeq(l, k, e)[i] = l[k + i - 1]
  <2>1. k \in Int /\ e \in Int /\ k <= e
    BY <1>2
  <2> QED BY <1>9, <2>1, SubSeqProperties
<1>11. /\ SubSeq(b, k, e) \in Seq(Letters) /\ Len(SubSeq(b, k, e)) = e - k + 1
       /\ \A i \in 1 .. e - k + 1 : SubSeq(b, k, e)[i] = b[k + i - 1]
  <2>1. k \in Int /\ e \in Int /\ k <= e
    BY <1>2
  <2>2. \A j \in k .. e : b[j] \in Letters
    BY <1>9
  <2> QED BY <2>1, <2>2, SubSeqProperties
<1>12. \A i \in 1 .. e - k + 1 : SubSeq(b, k, e)[i] = SubSeq(l, k, e)[i]
  <2> TAKE i \in 1 .. e - k + 1
  <2>1. k + i - 1 \in k .. e
    BY <1>2
  <2> QED BY <1>9, <1>10, <1>11, <2>1
<1>13. SubSeq(b, k, e) = SubSeq(l, k, e)
  BY <1>10, <1>11, <1>12, SeqEqual
<1> HIDE DEF S
<1>14. Min({j \in k .. Len(b) : b[j] = NUL}) - 1 = e
  BY <1>6, <1>8
<1>15. Min({j \in k .. Len(l) + 1 : ~Text(l, j)}) - 1 = e
  BY <1>1, <1>8 DEF S
<1> QED BY <1>13, <1>14, <1>15

\* However a line is cut in place, its words are the ones that were typed.
THEOREM ArgsAreWordsCorrect == MSpec => []ArgsAreWords
<1>1. MInit => ParseInv
  <2>1. <<>> \in Seq(Letters)
    OBVIOUS
  <2> QED BY <2>1 DEF MInit, Init, ParseInv
<1>2. ParseInv /\ [MNext]_mvars => ParseInv'
  BY ParseKeeps
<1>3. ASSUME ParseInv PROVE ArgsAreWords
  <2>1. line \in Seq(Letters) /\ DOMAIN line = 1 .. Len(line) /\ Len(line) \in Nat
    BY <1>3 DEF ParseInv
  <2>2. \A k : Text(line, k) = (k \in DOMAIN line /\ line[k] # Blank)
    BY <2>1 DEF Text
  <2> DEFINE starts == {k \in DOMAIN line : Starts(line, k)}
  <2>3. ASSUME pc = "lookup"
        PROVE  /\ Range(argv) = starts
               /\ \A i, j \in DOMAIN argv : i < j => argv[i] < argv[j]
               /\ \A i \in DOMAIN argv : StringAt(argv[i]) = SubSeq(line, argv[i],
                      Min({j \in argv[i] .. Len(line) + 1 : ~Text(line, j)}) - 1)
    <3>1. Parsed(line, buf, argv, Len(line) + 1)
      BY <1>3, <2>3 DEF ParseInv
    <3>2. /\ BufAt(line, buf, Len(line) + 1) /\ WordsTo(line, argv, Len(line) + 1)
          /\ Rising(argv)
      BY <3>1 DEF Parsed
    <3>3. \A k : k \in Range(argv) <=> Starts(line, k)
      <4>1. ASSUME NEW k, Starts(line, k) PROVE k < Len(line) + 1
        BY <2>1, <4>1 DEF Starts, Text
      <4> QED BY <3>2, <4>1 DEF WordsTo
    <3>4. Range(argv) = starts
      <4>1. \A k : Starts(line, k) => k \in DOMAIN line
        BY <2>1 DEF Starts, Text
      <4> QED BY <3>3, <4>1
    <3>5. \A i, j \in DOMAIN argv : i < j => argv[i] < argv[j]
      BY <3>2 DEF Rising
    <3>6. ASSUME NEW i \in DOMAIN argv
          PROVE  StringAt(argv[i]) = SubSeq(line, argv[i],
                     Min({j \in argv[i] .. Len(line) + 1 : ~Text(line, j)}) - 1)
      <4>1. argv[i] \in Range(argv)
        BY DEF Range
      <4>2. Starts(line, argv[i])
        BY <3>3, <4>1
      <4> QED BY <2>1, <3>2, <4>2, WordIs DEF StringAt
    <3> QED BY <3>4, <3>5, <3>6
  <2>4. ASSUME pc = "wild" PROVE Cardinality(starts) > MaxArgs
    <3>1. Parsed(line, buf, argv, At) /\ Len(argv) > MaxArgs
      BY <1>3, <2>4 DEF ParseInv
    <3>2. WordsTo(line, argv, At) /\ Rising(argv)
      BY <3>1 DEF Parsed
    <3>3. Cardinality(starts) >= Len(argv) /\ Cardinality(starts) \in Nat
      BY <2>1, <3>2, WordsCounted
    <3>4. Len(argv) \in Nat /\ MaxArgs \in Nat
      BY <3>2, MonitorConstants DEF Rising
    <3> HIDE DEF starts
    <3> QED BY <3>1, <3>3, <3>4
  <2> QED BY <2>2, <2>3, <2>4 DEF ArgsAreWords, Starts
<1> QED BY <1>1, <1>2, <1>3, PTL DEF MSpec

-----------------------------------------------------------------------------
(* The table of the compiler.                                              *)

LEMMA TableFacts ==
    /\ LastStab \in Nat /\ Index = 0 .. LastStab
    /\ \A k \in Index : Stab[k].value \in Nat
    /\ Stab[0].type = "UNDF"
<1> DEFINE n == Cardinality(Index)
<1>1. n \in Nat /\ Index = 0 .. n - 1 /\ 0 \in Index
  BY StabConstants, FS_CardinalityType
<1> HIDE DEF n
<1>2. n - 1 \in Index /\ Index \subseteq Int /\ \A y \in Index : y <= n - 1
  BY <1>1
<1>3. LastStab = n - 1
  BY <1>2, MaxIs DEF LastStab
<1> QED BY <1>1, <1>2, <1>3, StabConstants

-----------------------------------------------------------------------------
(* One search.                                                             *)

Types == {"SO", "FUN", "SLINE"}
Searches == [left : Int, right : Int, l : Int, r : Int, any : BOOLEAN,
             type : Types, addr : Int]

Is(k, type) == Stab[k].type = type

\* What the search s for a in lo .. hi knows: the region it has found so far ends
\* where it should on both sides, unless an entry that is still to be looked at
\* narrows it; after it has met a it looks for the next address, which no entry
\* has.
SearchInv(s, type, a, lo, hi) ==
    /\ s \in Searches /\ s.type = type
    /\ lo <= s.left /\ s.left <= s.l /\ s.left <= hi
    /\ s.r <= s.right /\ s.right <= hi /\ lo <= s.right
    /\ s.left = lo \/ (Is(s.left, type) /\ Stab[s.left].value <= a)
    /\ s.right = hi \/ (Is(s.right + 1, type) /\ a < Stab[s.right + 1].value)
    /\ \A k \in lo .. hi :
           Is(k, type) /\ s.left < k /\ k <= s.right => s.l <= k /\ k <= s.r
    /\ s.addr \in {a, a + 1}
    /\ s.addr = a + 1 => \A k \in lo .. hi : Is(k, type) => Stab[k].value # a + 1
    /\ IF s.any THEN \E k \in lo .. hi : Is(k, type) ELSE s.left = lo /\ s.right = hi

LEMMA SearchBegins ==
    ASSUME NEW lo \in Index, NEW hi \in Index, lo <= hi, NEW type \in Types, NEW a \in Nat
    PROVE  SearchInv(Search(lo, hi, type, a), type, a, lo, hi)
BY TableFacts DEF SearchInv, Search, Searches, Types

LEMMA SearchTypes ==
    ASSUME NEW s \in Searches, NEW x \in Int, NEW y \in Int, NEW z \in Int
    PROVE  /\ [s EXCEPT !.any = TRUE, !.left = x, !.l = y] \in Searches
           /\ [s EXCEPT !.any = TRUE, !.right = x, !.r = y] \in Searches
           /\ [s EXCEPT !.any = TRUE, !.left = x, !.l = y, !.addr = z] \in Searches
<1>1. [s EXCEPT !.any = TRUE, !.left = x, !.l = y] \in Searches
  BY DEF Searches
<1>2. [s EXCEPT !.any = TRUE, !.right = x, !.r = y] \in Searches
  BY DEF Searches
<1>3. [s EXCEPT !.any = TRUE, !.left = x, !.l = y, !.addr = z] \in Searches
  BY DEF Searches
<1> QED BY <1>1, <1>2, <1>3

LEMMA HalveKeeps ==
    ASSUME NEW lo \in Index, NEW hi \in Index, lo <= hi, NEW type \in Types, NEW a \in Nat,
           ~Is(lo, type), ~Adjoin(type, a, lo, hi),
           SearchInv(srch, type, a, lo, hi), Halve
    PROVE  SearchInv(srch', type, a, lo, hi)
<1> DEFINE mid == (srch.l + srch.r) \div 2
           ms  == OfType(srch.l, mid)
           m   == Max(ms)
<1>1. /\ LastStab \in Nat /\ lo \in Nat /\ hi \in Nat /\ Index = 0 .. LastStab
      /\ \A k \in lo .. hi : k \in Int /\ Stab[k].value \in Nat
  BY TableFacts
<1>2. /\ srch \in Searches /\ srch.type = type
      /\ srch.left \in Int /\ srch.right \in Int /\ srch.l \in Int /\ srch.r \in Int
      /\ srch.any \in BOOLEAN /\ srch.addr \in Int
  BY DEF SearchInv, Searches
<1>3. srch.l \in lo .. hi /\ srch.r \in lo .. hi /\ srch.l <= srch.r
  BY <1>1, <1>2 DEF Halve, SearchInv
<1>4. mid \in srch.l .. srch.r
  BY <1>1, <1>3, SMT
<1>5. srch' = IF ms = {} THEN [srch EXCEPT !.l = mid + 1] ELSE Narrowed(m, mid)
  BY DEF Halve
<1> HIDE DEF mid
<1>6. \A k \in srch.l .. mid : Is(k, type) <=> k \in ms
  BY <1>2 DEF OfType, Is
<1>7. CASE ms = {}
  <2>1. srch' = [srch EXCEPT !.l = mid + 1]
    BY <1>5, <1>7
  <2>2. /\ srch' \in Searches /\ srch'.l = mid + 1 /\ srch'.r = srch.r
        /\ srch'.left = srch.left /\ srch'.right = srch.right /\ srch'.any = srch.any
        /\ srch'.addr = srch.addr /\ srch'.type = srch.type
    BY <2>1, <1>2, <1>3, <1>4 DEF Searches
  <2>3. \A k \in lo .. hi :
            Is(k, type) /\ srch.left < k /\ k <= srch.right => mid + 1 <= k /\ k <= srch.r
    BY <1>1, <1>2, <1>3, <1>4, <1>6, <1>7 DEF SearchInv
  <2> QED BY <2>2, <2>3, <1>1, <1>2, <1>3, <1>4 DEF SearchInv
<1>8. CASE ms # {}
  <2>1. m \in srch.l .. mid /\ Is(m, type) /\ \A k \in ms : k <= m
    <3>1. ms \subseteq srch.l .. mid /\ srch.l \in Nat /\ mid \in Nat
      BY <1>1, <1>3, <1>4 DEF OfType
    <3>2. m \in ms /\ \A k \in ms : k <= m
      <4> HIDE DEF ms
      <4> QED BY <3>1, <1>8, MaxOfInterval
    <3> QED BY <3>1, <3>2, <1>6
  <2> HIDE DEF m
  <2>2. m \in lo .. hi /\ m # lo /\ Stab[m].value \in Nat /\ m <= srch.r /\ srch.l <= m
    BY <2>1, <1>1, <1>3, <1>4
  <2>3. \A k \in lo .. hi : Is(k, type) /\ srch.l <= k /\ m < k => mid + 1 <= k
    BY <2>1, <2>2, <1>1, <1>3, <1>4, <1>6
  <2>4. srch' = Narrowed(m, mid)
    BY <1>5, <1>8
  <2>5. CASE Stab[m].value < srch.addr
    <3>1. srch' = [srch EXCEPT !.any = TRUE, !.left = m, !.l = mid + 1]
      BY <2>4, <2>5, <2>2, <1>2 DEF Narrowed
    <3>2. /\ srch' \in Searches /\ srch'.l = mid + 1 /\ srch'.r = srch.r
          /\ srch'.left = m /\ srch'.right = srch.right /\ srch'.any
          /\ srch'.addr = srch.addr /\ srch'.type = srch.type
      <4>1. srch' \in Searches
        <5>1. m \in Int /\ mid + 1 \in Int /\ srch \in Searches
          BY <2>2, <1>1, <1>2, <1>3, <1>4
        <5> QED BY <3>1, <5>1, SearchTypes, Zenon
      <4>2. srch'.l = mid + 1
        BY <3>1, <2>2, <1>1, <1>2, <1>3, <1>4 DEF Searches
      <4>3. srch'.r = srch.r
        BY <3>1, <2>2, <1>1, <1>2, <1>3, <1>4 DEF Searches
      <4>4. srch'.left = m
        BY <3>1, <2>2, <1>1, <1>2, <1>3, <1>4 DEF Searches
      <4>5. srch'.right = srch.right
        BY <3>1, <2>2, <1>1, <1>2, <1>3, <1>4 DEF Searches
      <4>6. srch'.any
        BY <3>1, <2>2, <1>1, <1>2, <1>3, <1>4 DEF Searches
      <4>7. srch'.addr = srch.addr
        BY <3>1, <2>2, <1>1, <1>2, <1>3, <1>4 DEF Searches
      <4>8. srch'.type = srch.type
        BY <3>1, <2>2, <1>1, <1>2, <1>3, <1>4 DEF Searches
      <4> QED BY <4>1, <4>2, <4>3, <4>4, <4>5, <4>6, <4>7, <4>8
    <3>3. Stab[m].value <= a
      BY <2>2, <2>5, <1>2 DEF SearchInv
    <3>4. \A k \in lo .. hi :
              Is(k, type) /\ m < k /\ k <= srch.right => mid + 1 <= k /\ k <= srch.r
      BY <2>2, <2>3, <1>1, <1>2, <1>3 DEF SearchInv
    <3> QED BY <3>2, <3>3, <3>4, <2>1, <2>2, <1>1, <1>2, <1>3, <1>4 DEF SearchInv
  <2>6. CASE Stab[m].value > srch.addr
    <3>1. srch' = [srch EXCEPT !.any = TRUE, !.right = m - 1, !.r = m - 1]
      BY <2>4, <2>6, <2>2, <1>2 DEF Narrowed
    <3>2. /\ srch' \in Searches /\ srch'.l = srch.l /\ srch'.r = m - 1
          /\ srch'.left = srch.left /\ srch'.right = m - 1 /\ srch'.any
          /\ srch'.addr = srch.addr /\ srch'.type = srch.type
      <4>1. srch' \in Searches
        <5>1. m - 1 \in Int /\ srch \in Searches
          BY <2>2, <1>1, <1>2, <1>3, <1>4
        <5> QED BY <3>1, <5>1, SearchTypes, Zenon
      <4>2. srch'.l = srch.l
        BY <3>1, <2>2, <1>1, <1>2, <1>3, <1>4 DEF Searches
      <4>3. srch'.r = m - 1
        BY <3>1, <2>2, <1>1, <1>2, <1>3, <1>4 DEF Searches
      <4>4. srch'.left = srch.left
        BY <3>1, <2>2, <1>1, <1>2, <1>3, <1>4 DEF Searches
      <4>5. srch'.right = m - 1
        BY <3>1, <2>2, <1>1, <1>2, <1>3, <1>4 DEF Searches
      <4>6. srch'.any
        BY <3>1, <2>2, <1>1, <1>2, <1>3, <1>4 DEF Searches
      <4>7. srch'.addr = srch.addr
        BY <3>1, <2>2, <1>1, <1>2, <1>3, <1>4 DEF Searches
      <4>8. srch'.type = srch.type
        BY <3>1, <2>2, <1>1, <1>2, <1>3, <1>4 DEF Searches
      <4> QED BY <4>1, <4>2, <4>3, <4>4, <4>5, <4>6, <4>7, <4>8
    <3>3. a < Stab[(m - 1) + 1].value /\ Is((m - 1) + 1, type) /\ lo <= m - 1 /\ m - 1 <= hi
      <4>1. (m - 1) + 1 = m
        BY <2>2, <1>1
      <4> QED BY <4>1, <2>1, <2>2, <2>6, <1>1, <1>2 DEF SearchInv
    <3>4. \A k \in lo .. hi :
              Is(k, type) /\ srch.left < k /\ k <= m - 1 => srch.l <= k /\ k <= m - 1
      BY <2>2, <1>1, <1>2, <1>3 DEF SearchInv
    <3> QED BY <3>2, <3>3, <3>4, <2>1, <2>2, <1>1, <1>2, <1>3, <1>4 DEF SearchInv
  <2>7. CASE Stab[m].value = srch.addr
    <3>1. srch' = [srch EXCEPT !.any = TRUE, !.left = m, !.l = m,
                                !.addr = srch.addr + 1]
      BY <2>4, <2>7, <2>2, <1>2 DEF Narrowed
    <3>2. /\ srch' \in Searches /\ srch'.l = m /\ srch'.r = srch.r
          /\ srch'.left = m /\ srch'.right = srch.right /\ srch'.any
          /\ srch'.addr = srch.addr + 1 /\ srch'.type = srch.type
      <4>1. srch' \in Searches
        <5>1. m \in Int /\ srch.addr + 1 \in Int /\ srch \in Searches
          BY <2>2, <1>1, <1>2, <1>3, <1>4
        <5> QED BY <3>1, <5>1, SearchTypes, Zenon
      <4>2. srch'.l = m
        BY <3>1, <2>2, <1>1, <1>2, <1>3, <1>4 DEF Searches
      <4>3. srch'.r = srch.r
        BY <3>1, <2>2, <1>1, <1>2, <1>3, <1>4 DEF Searches
      <4>4. srch'.left = m
        BY <3>1, <2>2, <1>1, <1>2, <1>3, <1>4 DEF Searches
      <4>5. srch'.right = srch.right
        BY <3>1, <2>2, <1>1, <1>2, <1>3, <1>4 DEF Searches
      <4>6. srch'.any
        BY <3>1, <2>2, <1>1, <1>2, <1>3, <1>4 DEF Searches
      <4>7. srch'.addr = srch.addr + 1
        BY <3>1, <2>2, <1>1, <1>2, <1>3, <1>4 DEF Searches
      <4>8. srch'.type = srch.type
        BY <3>1, <2>2, <1>1, <1>2, <1>3, <1>4 DEF Searches
      <4> QED BY <4>1, <4>2, <4>3, <4>4, <4>5, <4>6, <4>7, <4>8
    <3>3. srch.addr = a /\ Stab[m].value = a
      BY <2>1, <2>2, <2>7 DEF SearchInv
    <3>4. \A k \in lo .. hi : Is(k, type) => Stab[k].value # a + 1
      BY <3>3, <2>1, <2>2 DEF Adjoin, Is
    <3>5. \A k \in lo .. hi :
              Is(k, type) /\ m < k /\ k <= srch.right => m <= k /\ k <= srch.r
      BY <2>2, <1>1, <1>2, <1>3 DEF SearchInv
    <3> QED BY <3>2, <3>3, <3>4, <3>5, <2>1, <2>2, <1>1, <1>2, <1>3, <1>4 DEF SearchInv
  <2> QED BY <2>2, <2>5, <2>6, <2>7, <1>2
<1> QED BY <1>7, <1>8

\* An interval of the table that no other entry of the type begins in, begun by
\* the last entry at or below a, is where a belongs.
LEMMA LastAtIs ==
    ASSUME NEW lo \in Index, NEW hi \in Index, NEW type \in Types, NEW a \in Nat,
           ~Is(lo, type), Ascend(type, lo, hi),
           NEW at \in lo .. hi, NEW end \in at .. hi,
           at = lo \/ (Is(at, type) /\ Stab[at].value <= a),
           end = hi \/ (Is(end + 1, type) /\ a < Stab[end + 1].value),
           \A k \in at + 1 .. end : ~Is(k, type)
    PROVE  /\ LastAt(type, a, lo, hi) = [at |-> at, end |-> end]
           /\ \A k \in lo .. hi : Is(k, type) /\ Stab[k].value <= a => k <= at
<1> DEFINE ks   == {k \in lo .. hi : Stab[k].type = type}
           over == {k \in ks : Stab[k].value > a}
<1>1. /\ LastStab \in Nat /\ lo \in Nat /\ hi \in Nat /\ at \in Nat /\ end \in Nat
      /\ Index = 0 .. LastStab /\ \A k \in lo .. hi : Stab[k].value \in Nat
  BY TableFacts
<1>2. /\ ks \subseteq lo .. hi /\ ks \subseteq Int
      /\ \A k \in lo .. hi : k \in ks <=> Is(k, type)
      /\ \A j, k \in ks : j < k => Stab[j].value <= Stab[k].value
  BY <1>1 DEF Is, Ascend
<1>3. over \subseteq ks /\ \A k \in ks : k \in over <=> Stab[k].value > a
  OBVIOUS
<1> HIDE DEF ks, over
<1>4. \A k \in ks : k \notin over => k <= at
  <2> SUFFICES ASSUME NEW k \in ks, Stab[k].value <= a, at < k PROVE FALSE
    BY <1>1, <1>2, <1>3
  <2>1. end < k
    BY <1>1, <1>2
  <2>2. end + 1 \in ks /\ a < Stab[end + 1].value
    BY <2>1, <1>1, <1>2
  <2>3. Stab[end + 1].value <= Stab[k].value
    BY <2>1, <2>2, <1>1, <1>2
  <2> QED BY <2>2, <2>3, <1>1, <1>2
<1>5. \A k \in over : end + 1 <= k
  <2> SUFFICES ASSUME NEW k \in over, k <= end PROVE FALSE
    BY <1>1, <1>2, <1>3
  <2>1. k <= at /\ k # lo
    BY <1>1, <1>2, <1>3
  <2>2. at \in ks /\ Stab[at].value <= a
    BY <2>1, <1>1, <1>2, <1>3
  <2>3. Stab[k].value <= Stab[at].value
    BY <2>1, <2>2, <1>1, <1>2, <1>3
  <2> QED BY <2>2, <2>3, <1>1, <1>2, <1>3
<1>6. (IF ks \ over = {} THEN lo ELSE Max(ks \ over)) = at
  <2>1. CASE ks \ over = {}
    <3>1. at = lo
      BY <2>1, <1>1, <1>2, <1>3
    <3> QED BY <2>1, <3>1
  <2>2. CASE ks \ over # {}
    <3>1. at # lo
      <4>1. PICK k \in ks \ over : k <= at
        BY <2>2, <1>4
      <4>2. k \in lo .. hi /\ k # lo
        BY <1>2
      <4> QED BY <4>1, <4>2, <1>1
    <3>2. at \in ks \ over
      BY <3>1, <1>1, <1>2, <1>3
    <3>3. Max(ks \ over) = at
      BY <3>2, <1>2, <1>4, MaxIs
    <3> QED BY <2>2, <3>3
  <2> QED BY <2>1, <2>2
<1>7. (IF over = {} THEN hi ELSE Min(over) - 1) = end
  <2>1. CASE over = {}
    <3>1. end = hi
      BY <2>1, <1>1, <1>2, <1>3
    <3> QED BY <2>1, <3>1
  <2>2. CASE over # {}
    <3>1. end # hi
      <4>1. PICK k \in over : end + 1 <= k
        BY <2>2, <1>5
      <4>2. k \in lo .. hi
        BY <1>2, <1>3
      <4> QED BY <4>1, <4>2, <1>1
    <3>2. end + 1 \in over
      BY <3>1, <1>1, <1>2, <1>3
    <3>3. Min(over) = end + 1
      BY <3>2, <1>2, <1>3, <1>5, MinIs
    <3> QED BY <2>2, <3>3, <1>1
  <2> QED BY <2>1, <2>2
<1>8. \A k \in lo .. hi : Is(k, type) /\ Stab[k].value <= a => k <= at
  BY <1>1, <1>2, <1>3, <1>4
<1> QED BY <1>6, <1>7, <1>8 DEF LastAt, ks, over

\* When a search ends it has found where a belongs, and says so, unless there is
\* no entry of the type at all.
LEMMA SearchEnds ==
    ASSUME NEW lo \in Index, NEW hi \in Index, lo <= hi, NEW type \in Types, NEW a \in Nat,
           ~Is(lo, type), Ascend(type, lo, hi),
           SearchInv(srch, type, a, lo, hi), srch.l > srch.r
    PROVE  /\ IF \E k \in lo .. hi : Is(k, type)
              THEN Result = Range0(LastAt(type, a, lo, hi).at, LastAt(type, a, lo, hi).end)
              ELSE Result = Range0(lo, lo - 1) /\ LastAt(type, a, lo, hi) = [at |-> lo, end |-> hi]
           /\ LastAt(type, a, lo, hi).at \in lo .. hi
           /\ LastAt(type, a, lo, hi).end \in LastAt(type, a, lo, hi).at .. hi
           /\ LET at == LastAt(type, a, lo, hi).at
                  end == LastAt(type, a, lo, hi).end
              IN  /\ at = lo \/ (Is(at, type) /\ Stab[at].value <= a)
                  /\ end = hi \/ Is(end + 1, type)
                  /\ \A k \in at + 1 .. end : ~Is(k, type)
                  /\ \A k \in lo .. hi : Is(k, type) /\ Stab[k].value <= a => k <= at
<1> DEFINE at == srch.left
           end == srch.right
<1>1. /\ LastStab \in Nat /\ lo \in Nat /\ hi \in Nat /\ Index = 0 .. LastStab
      /\ \A k \in lo .. hi : Stab[k].value \in Nat
  BY TableFacts
<1>2. /\ srch.type = type /\ srch.left \in Int /\ srch.right \in Int
      /\ srch.l \in Int /\ srch.r \in Int /\ srch.any \in BOOLEAN
  BY DEF SearchInv, Searches
<1>3. \A k \in lo .. hi : Is(k, type) /\ at < k => end < k
  BY <1>1, <1>2 DEF SearchInv
<1>4. at <= end
  <2> SUFFICES ASSUME end < at PROVE FALSE
    BY <1>2
  <2>1. /\ end + 1 \in lo .. hi /\ Is(end + 1, type) /\ a < Stab[end + 1].value
        /\ at \in lo .. hi /\ Is(at, type) /\ Stab[at].value <= a
    BY <1>1, <1>2 DEF SearchInv
  <2>2. end + 1 # at
    BY <2>1, <1>1
  <2>3. end + 1 < at
    BY <2>2, <1>2
  <2>4. \A j, k \in lo .. hi : Is(j, type) /\ Is(k, type) /\ j < k
                              => Stab[j].value <= Stab[k].value
    BY DEF Ascend, Is
  <2>5. Stab[end + 1].value <= Stab[at].value
    <3> HIDE DEF at, end
    <3> QED BY <2>1, <2>3, <2>4
  <2>6. Stab[end + 1].value \in Nat /\ Stab[at].value \in Nat
    BY <2>1, <1>1
  <2> QED BY <2>1, <2>5, <2>6
<1>5. at \in lo .. hi /\ end \in at .. hi
  BY <1>1, <1>2, <1>4 DEF SearchInv
<1>6. \A k \in at + 1 .. end : ~Is(k, type)
  BY <1>1, <1>2, <1>3, <1>5
<1>7. /\ at = lo \/ (Is(at, type) /\ Stab[at].value <= a)
      /\ end = hi \/ (Is(end + 1, type) /\ a < Stab[end + 1].value)
  BY DEF SearchInv
<1>8. LastAt(type, a, lo, hi) = [at |-> at, end |-> end]
      /\ \A k \in lo .. hi : Is(k, type) /\ Stab[k].value <= a => k <= at
  BY <1>5, <1>6, <1>7, LastAtIs
<1>9. Rightmost = Range0(at, end)
  <2>1. CASE end <= at
    BY <2>1, <1>2, <1>4 DEF Rightmost, Range0
  <2>2. CASE at < end
    <3>1. OfType(at + 1, end) = {}
      BY <1>2, <1>6 DEF OfType, Is
    <3>2. Max({at}) = at
      <4>1. at \in Int
        BY <1>2
      <4> HIDE DEF at
      <4>2. {at} \subseteq Int /\ at \in {at} /\ \A y \in {at} : y <= at
        BY <4>1
      <4> QED BY <4>2, MaxIs
    <3>3. Max({at} \cup OfType(at + 1, end)) = at
      <4>1. {at} \cup OfType(at + 1, end) = {at}
        BY <3>1
      <4> QED BY <4>1, <3>2
    <3> QED BY <2>2, <3>3, <1>2 DEF Rightmost
  <2> QED BY <2>1, <2>2, <1>2
<1>10. CASE srch.any
  <2>1. \E k \in lo .. hi : Is(k, type)
    BY <1>10 DEF SearchInv
  <2>2. Result = Range0(at, end)
    BY <1>9, <1>10 DEF Result
  <2> QED BY <2>1, <2>2, <1>5, <1>6, <1>7, <1>8
<1>11. CASE ~srch.any
  <2>1. at = lo /\ end = hi
    BY <1>11 DEF SearchInv
  <2>2. ~ \E k \in lo .. hi : Is(k, type)
    BY <2>1, <1>1, <1>6
  <2>3. Result = Range0(lo, lo - 1)
    BY <1>11, <2>1 DEF Result
  <2> QED BY <2>1, <2>2, <2>3, <1>5, <1>6, <1>7, <1>8
<1> QED BY <1>10, <1>11

-----------------------------------------------------------------------------
(* The three searches.                                                     *)

Found(a) == [at |-> a.left, end |-> a.right]

\* The file the address belongs to.
FileInv ==
    /\ FileOf(eip) = Found(file)
    /\ file.left \in Index /\ file.right \in file.left .. LastStab
    /\ Section("SO", file.left, file.right, LastStab)
    /\ Stab[file.left].value <= eip

\* The function, or that the file has none.
FunInv ==
    IF IsFun(eip)
    THEN /\ FunOf(eip) = Found(fun)
         /\ fun.left \in file.left .. file.right /\ fun.right \in fun.left .. file.right
         /\ Section("FUN", fun.left, fun.right, file.right)
         /\ Stab[fun.left].value <= eip
    ELSE /\ FunOf(eip) = Found(file)
         /\ \A k \in file.left .. file.right : ~Is(k, "FUN")
         /\ fun = Range0(file.left, file.left - 1)

\* What info says of the function.
InfoOf(a) == [file |-> Unknown, line |-> 0,
              fn   |-> IF IsFun(a) THEN Stab[FunOf(a).at].name ELSE Unknown,
              addr |-> IF IsFun(a) THEN Base(a) ELSE a,
              narg |-> 0]

TraceInv ==
    /\ phase \in {"idle", "file", "fun", "line", "found", "fail"}
    /\ phase # "idle" => eip \in Nat
    /\ ~OneByteFun(eip) =>
       /\ phase = "file" => /\ SearchInv(srch, "SO", eip, 0, LastStab)
                            /\ info = NoInfo(eip)
       /\ phase = "fun"  => /\ FileInv
                            /\ SearchInv(srch, "FUN", eip, file.left, file.right)
                            /\ info = NoInfo(eip)
       /\ phase = "line" => /\ FileInv /\ FunInv
                            /\ ~OneByteLine(eip) =>
                                   SearchInv(srch, "SLINE", eip - Base(eip),
                                             FunOf(eip).at, FunOf(eip).end)
                            /\ info = InfoOf(eip)
    /\ TraceRight

LEMMA DebuginfoStep ==
    ASSUME NEW a \in Nat, Debuginfo(a)
    PROVE  TraceInv'
<1>1. /\ phase' = "file" /\ eip' = a /\ srch' = Search(0, LastStab, "SO", a)
      /\ info' = NoInfo(a)
  BY DEF Debuginfo
<1>2. SearchInv(srch', "SO", a, 0, LastStab)
  BY <1>1, TableFacts, SearchBegins DEF Types
<1> QED BY <1>1, <1>2 DEF TraceInv, TraceRight

LEMMA FileFoundStep ==
    ASSUME TraceInv, FileFound, ~OneByteFun(eip), Result.left # 0
    PROVE  /\ phase' = "fun" /\ eip' = eip /\ info' = NoInfo(eip) /\ FileInv'
           /\ SearchInv(srch', "FUN", eip, file'.left, file'.right)
<1>1. /\ phase = "file" /\ eip \in Nat /\ SearchInv(srch, "SO", eip, 0, LastStab)
      /\ info = NoInfo(eip) /\ srch.l > srch.r
  BY DEF FileFound, Ended, TraceInv
<1>2. /\ file' = Result /\ srch' = Search(Result.left, Result.right, "FUN", eip)
      /\ phase' = "fun" /\ UNCHANGED <<eip, fun, info>>
  BY DEF FileFound
<1>3. 0 \in Index /\ LastStab \in Index /\ 0 <= LastStab /\ LastStab \in Nat /\ ~Is(0, "SO")
      /\ Index = 0 .. LastStab
  BY TableFacts DEF Is
<1> DEFINE f == LastAt("SO", eip, 0, LastStab)
<1>4. /\ IF \E k \in 0 .. LastStab : Is(k, "SO")
         THEN Result = Range0(f.at, f.end) ELSE Result = Range0(0, 0 - 1)
      /\ f.at \in 0 .. LastStab /\ f.end \in f.at .. LastStab
      /\ f.at = 0 \/ (Is(f.at, "SO") /\ Stab[f.at].value <= eip)
      /\ f.end = LastStab \/ Is(f.end + 1, "SO")
      /\ \A k \in f.at + 1 .. f.end : ~Is(k, "SO")
  BY <1>1, <1>3, StabLaidOut, SearchEnds DEF Types
<1>5. f = FileOf(eip) /\ f = [at |-> f.at, end |-> f.end]
  BY DEF FileOf, LastAt
<1> HIDE DEF f
<1>6. Result = Range0(f.at, f.end)
  BY <1>4 DEF Range0
<1>7. f.at # 0 /\ file'.left = f.at /\ file'.right = f.end
  BY <1>2, <1>6 DEF Range0
<1>8. f.at \in Index /\ f.end \in Index /\ f.at <= f.end
  BY <1>3, <1>4
<1>9. Section("SO", f.at, f.end, LastStab)
  BY <1>4, <1>7 DEF Section, Is
<1>10. FileInv'
  BY <1>2, <1>4, <1>5, <1>7, <1>8, <1>9 DEF FileInv, Found
<1>11. SearchInv(Search(f.at, f.end, "FUN", eip), "FUN", eip, f.at, f.end)
  BY <1>1, <1>8, SearchBegins DEF Types
<1> QED BY <1>1, <1>2, <1>7, <1>10, <1>11

\* The search for the file finds nothing only in front of the first one.
LEMMA FileFailStep ==
    ASSUME TraceInv, FileFound, ~OneByteFun(eip), Result.left = 0
    PROVE  ~Known(eip)
<1>1. eip \in Nat /\ SearchInv(srch, "SO", eip, 0, LastStab) /\ srch.l > srch.r
  BY DEF FileFound, Ended, TraceInv
<1>2. 0 \in Index /\ LastStab \in Index /\ 0 <= LastStab /\ ~Is(0, "SO")
  BY TableFacts DEF Is
<1> DEFINE f == LastAt("SO", eip, 0, LastStab)
<1>3. IF \E k \in 0 .. LastStab : Is(k, "SO")
      THEN Result = Range0(f.at, f.end)
      ELSE Result = Range0(0, 0 - 1) /\ f = [at |-> 0, end |-> LastStab]
  BY <1>1, <1>2, StabLaidOut, SearchEnds DEF Types
<1>4. f = FileOf(eip)
  BY DEF FileOf
<1> HIDE DEF f
<1>5. f.at = 0
  BY <1>3 DEF Range0
<1> QED BY <1>4, <1>5 DEF Known

\* A file's part of the table, and a function's part of that.
LEMMA FileFacts ==
    ASSUME FileInv
    PROVE  /\ file.left \in Index /\ file.right \in Index /\ file.left <= file.right
           /\ Is(file.left, "SO") /\ FileLaidOut(file.left, file.right)
<1>1. LastStab \in Nat /\ Index = 0 .. LastStab
  BY TableFacts
<1>2. file.left \in Index /\ file.right \in Index /\ file.left <= file.right
  BY <1>1 DEF FileInv
<1>3. FileLaidOut(file.left, file.right)
  BY <1>2, StabLaidOut DEF FileInv
<1>4. Is(file.left, "SO")
  BY DEF FileInv, Section, Is
<1> QED BY <1>2, <1>3, <1>4

LEMMA FunFacts ==
    ASSUME eip \in Nat, FileInv, FunInv
    PROVE  /\ FunOf(eip).at \in Index /\ FunOf(eip).end \in Index
           /\ FunOf(eip).at <= FunOf(eip).end
           /\ ~Is(FunOf(eip).at, "SLINE") /\ Ascend("SLINE", FunOf(eip).at, FunOf(eip).end)
           /\ eip - Base(eip) \in Nat
<1>1. /\ LastStab \in Nat /\ Index = 0 .. LastStab
      /\ \A k \in Index : Stab[k].value \in Nat
  BY TableFacts
<1>2. /\ file.left \in Index /\ file.right \in Index /\ file.left <= file.right
      /\ Is(file.left, "SO") /\ FileLaidOut(file.left, file.right)
  BY FileFacts
<1>3. CASE IsFun(eip)
  <2>1. FunOf(eip).at = fun.left /\ FunOf(eip).end = fun.right
    BY <1>3 DEF FunInv, Found
  <2>2. fun.left \in Index /\ fun.right \in Index /\ fun.left <= fun.right
    BY <1>1, <1>2, <1>3 DEF FunInv
  <2>3. FunLaidOut(fun.left, fun.right)
    BY <1>1, <1>2, <1>3, <2>2 DEF FunInv, FileLaidOut
  <2>4. Base(eip) = Stab[fun.left].value /\ Stab[fun.left].value <= eip
    BY <1>3, <2>1 DEF Base, FunInv
  <2>5. ~Is(fun.left, "SLINE")
    BY <1>3, <2>1 DEF IsFun, Is
  <2> QED BY <1>1, <2>1, <2>2, <2>3, <2>4, <2>5 DEF FunLaidOut
<1>4. CASE ~IsFun(eip)
  <2>1. FunOf(eip).at = file.left /\ FunOf(eip).end = file.right /\ Base(eip) = 0
    BY <1>4 DEF FunInv, Found, Base
  <2>2. Ascend("SLINE", file.left, file.right)
    <3>1. {k \in file.left .. file.right : Stab[k].type = "FUN"} = {}
      BY <1>4 DEF FunInv, Is
    <3> QED BY <1>2, <3>1 DEF FileLaidOut
  <2> QED BY <1>2, <2>1, <2>2 DEF Is
<1> QED BY <1>3, <1>4

LEMMA FunFoundStep ==
    ASSUME TraceInv, FunFound, ~OneByteFun(eip)
    PROVE  /\ phase' = "line" /\ eip' = eip /\ info' = InfoOf(eip)
           /\ FileInv' /\ FunInv'
           /\ SearchInv(srch', "SLINE", eip - Base(eip), FunOf(eip).at, FunOf(eip).end)
<1>1. /\ phase = "fun" /\ eip \in Nat /\ SearchInv(srch, "FUN", eip, file.left, file.right)
      /\ info = NoInfo(eip) /\ srch.l > srch.r /\ FileInv
  BY DEF FunFound, Ended, TraceInv
<1>2. fun' = Result /\ phase' = "line" /\ UNCHANGED <<eip, file>>
  BY DEF FunFound
<1>3. /\ LastStab \in Nat /\ Index = 0 .. LastStab
      /\ \A k \in Index : Stab[k].value \in Nat
  BY TableFacts
<1>4. /\ file.left \in Index /\ file.right \in Index /\ file.left <= file.right
      /\ Is(file.left, "SO") /\ ~Is(file.left, "FUN")
      /\ FileLaidOut(file.left, file.right) /\ Ascend("FUN", file.left, file.right)
  BY <1>1, FileFacts DEF FileLaidOut, Is
<1>5. FileInv'
  BY <1>1, <1>2 DEF FileInv
<1> DEFINE f == LastAt("FUN", eip, file.left, file.right)
<1>6. /\ IF \E k \in file.left .. file.right : Is(k, "FUN")
         THEN Result = Range0(f.at, f.end)
         ELSE Result = Range0(file.left, file.left - 1)
              /\ f = [at |-> file.left, end |-> file.right]
      /\ f.at \in file.left .. file.right /\ f.end \in f.at .. file.right
      /\ f.at = file.left \/ (Is(f.at, "FUN") /\ Stab[f.at].value <= eip)
      /\ f.end = file.right \/ Is(f.end + 1, "FUN")
      /\ \A k \in f.at + 1 .. f.end : ~Is(k, "FUN")
      /\ \A k \in file.left .. file.right :
             Is(k, "FUN") /\ Stab[k].value <= eip => k <= f.at
  BY <1>1, <1>4, SearchEnds DEF Types
<1>7. f = FunOf(eip) /\ f = [at |-> f.at, end |-> f.end]
  <2>1. FileOf(eip).at = file.left /\ FileOf(eip).end = file.right
    BY <1>1 DEF FileInv, Found
  <2> QED BY <2>1 DEF FunOf, LastAt
<1> HIDE DEF f
<1>8. CASE \E k \in file.left .. file.right : Is(k, "FUN")
  <2>1. Result.left = f.at /\ Result.right = f.end /\ Result.left <= Result.right
    BY <1>3, <1>4, <1>6, <1>8 DEF Range0
  <2>2. f.at # file.left
    <3>1. PICK k \in file.left .. file.right :
              Is(k, "FUN") /\ Stab[k].value <= Stab[file.left].value
      BY <1>4, <1>8 DEF FileLaidOut, Is
    <3>2. k # file.left /\ Stab[k].value <= eip
      BY <3>1, <1>1, <1>3, <1>4 DEF FileInv
    <3> QED BY <3>1, <3>2, <1>3, <1>4, <1>6
  <2>3. Is(f.at, "FUN") /\ Stab[f.at].value <= eip
    BY <2>2, <1>6
  <2>4. IsFun(eip) /\ Base(eip) = Stab[f.at].value
    BY <2>3, <1>7 DEF IsFun, Base, Is
  <2>5. /\ info' = [info EXCEPT !.fn = Stab[f.at].name, !.addr = Stab[f.at].value]
        /\ srch' = Search(f.at, f.end, "SLINE", eip - Stab[f.at].value)
    BY <2>1 DEF FunFound
  <2>6. info' = InfoOf(eip)
    BY <1>1, <1>7, <2>4, <2>5 DEF InfoOf, NoInfo
  <2>7. f.at \in Index /\ f.end \in Index /\ f.at <= f.end /\ eip - Stab[f.at].value \in Nat
    BY <1>1, <1>3, <1>4, <1>6, <2>3
  <2>8. SearchInv(srch', "SLINE", eip - Base(eip), FunOf(eip).at, FunOf(eip).end)
    BY <2>4, <2>5, <2>7, <1>7, SearchBegins DEF Types
  <2>9. Section("FUN", f.at, f.end, file.right)
    BY <1>6, <2>3 DEF Section, Is
  <2>10. FunInv'
    BY <1>2, <1>6, <1>7, <2>1, <2>3, <2>4, <2>9 DEF FunInv, Found
  <2> QED BY <1>2, <1>5, <2>6, <2>8, <2>10
<1>9. CASE ~ \E k \in file.left .. file.right : Is(k, "FUN")
  <2>1. /\ Result = Range0(file.left, file.left - 1) /\ ~(Result.left <= Result.right)
        /\ f.at = file.left /\ f.end = file.right
    BY <1>3, <1>4, <1>6, <1>9 DEF Range0
  <2>2. ~IsFun(eip) /\ Base(eip) = 0
    BY <2>1, <1>4, <1>7 DEF IsFun, Base, Is
  <2>3. srch' = Search(file.left, file.right, "SLINE", eip) /\ info' = info
    BY <2>1 DEF FunFound
  <2>4. info' = InfoOf(eip)
    BY <1>1, <2>2, <2>3 DEF InfoOf, NoInfo
  <2>5. SearchInv(srch', "SLINE", eip - Base(eip), FunOf(eip).at, FunOf(eip).end)
    BY <1>1, <1>4, <1>7, <2>1, <2>2, <2>3, SearchBegins DEF Types
  <2>6. FunInv'
    BY <1>2, <1>7, <1>9, <2>1, <2>2 DEF FunInv, Found
  <2> QED BY <1>2, <1>5, <2>4, <2>5, <2>6
<1> QED BY <1>8, <1>9

\* What the search for the line finds.
LEMMA LineSearchEnds ==
    ASSUME TraceInv, Ended("line"), ~OneByteFun(eip), ~OneByteLine(eip)
    PROVE  IF Known(eip)
           THEN Result = Range0(LineOf(eip).at, LineOf(eip).end) /\ ~(Result.left > Result.right)
           ELSE Result.left > Result.right
<1>1. /\ phase = "line" /\ eip \in Nat /\ FileInv /\ FunInv
      /\ SearchInv(srch, "SLINE", eip - Base(eip), FunOf(eip).at, FunOf(eip).end)
      /\ srch.l > srch.r
  BY DEF Ended, TraceInv
<1> DEFINE lo == FunOf(eip).at
           hi == FunOf(eip).end
           a  == eip - Base(eip)
           f  == LastAt("SLINE", a, lo, hi)
<1>2. /\ lo \in Index /\ hi \in Index /\ lo <= hi /\ a \in Nat
      /\ ~Is(lo, "SLINE") /\ Ascend("SLINE", lo, hi)
  BY <1>1, FunFacts
<1>3. /\ LastStab \in Nat /\ Index = 0 .. LastStab
  BY TableFacts
<1>4. /\ IF \E k \in lo .. hi : Is(k, "SLINE") THEN Result = Range0(f.at, f.end)
         ELSE Result = Range0(lo, lo - 1)
      /\ f.at \in lo .. hi /\ f.end \in f.at .. hi
  <2>1. SearchInv(srch, "SLINE", a, lo, hi)
    BY <1>1
  <2> HIDE DEF lo, hi, a
  <2> QED BY <1>1, <1>2, <2>1, SearchEnds DEF Types
<1>5. LineOf(eip) = f
  BY DEF LineOf
<1>6. Known(eip) <=> \E k \in lo .. hi : Is(k, "SLINE")
  <2>1. FileOf(eip).at # 0
    <3>1. FileOf(eip).at = file.left /\ Is(file.left, "SO")
      BY <1>1, FileFacts DEF FileInv, Found
    <3> QED BY <3>1, TableFacts DEF Is
  <2> QED BY <2>1 DEF Known, Is
<1> HIDE DEF f, lo, hi, a
<1>7. CASE Known(eip)
  <2>1. f.at \in Int /\ f.end \in Int /\ f.at <= f.end
    BY <1>2, <1>3, <1>4
  <2> QED BY <1>4, <1>5, <1>6, <1>7, <2>1 DEF Range0
<1>8. CASE ~Known(eip)
  <2>1. lo - 1 < lo
    BY <1>2, <1>3
  <2> QED BY <1>4, <1>6, <1>8, <2>1 DEF Range0
<1> QED BY <1>7, <1>8

LEMMA LineFoundStep ==
    ASSUME TraceInv, LineFound, ~OneByteFun(eip), ~(Result.left > Result.right)
    PROVE  TraceRight' /\ phase' = "found" /\ eip' = eip
<1>1. /\ phase = "line" /\ eip \in Nat /\ FileInv /\ FunInv /\ info = InfoOf(eip)
      /\ Ended("line")
  BY DEF LineFound, Ended, TraceInv
<1> DEFINE lo == FunOf(eip).at
           hi == FunOf(eip).end
<1>2. lo \in Index /\ hi \in Index /\ lo <= hi
  BY <1>1, FunFacts
<1>3. /\ LastStab \in Nat /\ Index = 0 .. LastStab
  BY TableFacts
<1> HIDE DEF lo, hi
<1>4. /\ phase' = "found" /\ UNCHANGED <<eip, file>>
      /\ info' = [info EXCEPT !.line = Stab[Result.right].desc, !.file = SourceOf(Result.left),
                              !.narg = Narg]
  BY DEF LineFound
<1>5. Narg = Cardinality({k \in lo .. hi : IsFun(eip) /\ Stab[k].type = "PSYM"})
  <2>1. CASE IsFun(eip)
    <3>1. lo = fun.left /\ hi = fun.right /\ Section("FUN", lo, hi, file.right)
          /\ lo \in file.left .. file.right /\ hi \in file.left .. file.right
      BY <1>1, <1>2, <1>3, <2>1, FileFacts DEF FunInv, Found, lo, hi
    <3>2. FileLaidOut(file.left, file.right)
      BY <1>1, FileFacts
    <3>3. FunLaidOut(lo, hi) /\ Stab[lo].type = "FUN"
      BY <3>1, <3>2 DEF FileLaidOut, Section
    <3>4. \A k \in lo + 1 .. hi : Stab[k].type = "PSYM" =>
              k < hi /\ \A j \in lo + 1 .. k : Stab[j].type = "PSYM"
      BY <3>3 DEF FunLaidOut
    <3>5. {k \in lo + 1 .. hi - 1 : \A j \in lo + 1 .. k : Stab[j].type = "PSYM"}
              = {k \in lo .. hi : Stab[k].type = "PSYM"}
      <4>1. ASSUME NEW k \in lo .. hi, Stab[k].type = "PSYM"
            PROVE  k \in lo + 1 .. hi - 1 /\ \A j \in lo + 1 .. k : Stab[j].type = "PSYM"
        BY <4>1, <3>3, <3>4, <1>2, <1>3
      <4>2. ASSUME NEW k \in lo + 1 .. hi - 1, \A j \in lo + 1 .. k : Stab[j].type = "PSYM"
            PROVE  k \in lo .. hi /\ Stab[k].type = "PSYM"
        BY <4>2, <1>2, <1>3
      <4> QED BY <4>1, <4>2
    <3> QED BY <3>1, <3>5, <2>1 DEF Narg
  <2>2. CASE ~IsFun(eip)
    <3>1. fun.left = file.left /\ fun.right = file.left - 1 /\ file.left \in Index
      BY <1>1, <2>2, FileFacts DEF FunInv, Range0
    <3>2. {k \in fun.left + 1 .. fun.right - 1 :
               \A j \in fun.left + 1 .. k : Stab[j].type = "PSYM"} = {}
      BY <3>1, <1>3
    <3>3. {k \in lo .. hi : IsFun(eip) /\ Stab[k].type = "PSYM"} = {}
      BY <2>2
    <3> QED BY <3>2, <3>3 DEF Narg
  <2> QED BY <2>1, <2>2
<1>6. ASSUME ~OneByteLine(eip)
      PROVE  /\ info'.file = SourceOf(LineOf(eip).at)'
             /\ LineFollows(eip) => info'.line = Stab[LineOf(eip).at].desc
  <2>1. Result.left = LineOf(eip).at /\ Result.right = LineOf(eip).end
    BY <1>1, <1>6, LineSearchEnds DEF Range0
  <2>2. info'.file = SourceOf(Result.left) /\ info'.line = Stab[Result.right].desc
    BY <1>1, <1>4 DEF InfoOf
  <2>3. SourceOf(LineOf(eip).at)' = SourceOf(LineOf(eip).at)
    BY <1>4 DEF SourceOf
  <2> QED BY <2>1, <2>2, <2>3 DEF LineFollows
<1>7. /\ info'.narg = Narg
      /\ info'.fn = (IF IsFun(eip) THEN Stab[FunOf(eip).at].name ELSE Unknown)
      /\ info'.addr = (IF IsFun(eip) THEN Base(eip) ELSE eip)
  BY <1>1, <1>4 DEF InfoOf
<1> QED BY <1>4, <1>5, <1>6, <1>7 DEF TraceRight, lo, hi

LEMMA HalveStep ==
    ASSUME TraceInv, Halve
    PROVE  TraceInv'
<1>1. phase \in {"file", "fun", "line"} /\ UNCHANGED <<phase, eip, file, fun, info>>
  BY DEF Halve
<1>2. CASE OneByteFun(eip)
  BY <1>1, <1>2 DEF TraceInv, TraceRight
<1>3. CASE ~OneByteFun(eip)
  <2>1. eip \in Nat /\ TraceRight'
    BY <1>1 DEF TraceInv, TraceRight
  <2>2. CASE phase = "file"
    <3>1. 0 \in Index /\ LastStab \in Index /\ 0 <= LastStab /\ ~Is(0, "SO")
      BY TableFacts DEF Is
    <3>2. SearchInv(srch, "SO", eip, 0, LastStab) /\ info = NoInfo(eip)
      BY <1>3, <2>2 DEF TraceInv
    <3>3. SearchInv(srch', "SO", eip, 0, LastStab)
      BY <1>3, <2>1, <3>1, <3>2, HalveKeeps DEF Types, OneByteFun
    <3> QED BY <1>1, <2>1, <2>2, <3>2, <3>3 DEF TraceInv
  <2>3. CASE phase = "fun"
    <3>1. /\ SearchInv(srch, "FUN", eip, file.left, file.right) /\ info = NoInfo(eip)
          /\ FileInv
      BY <1>3, <2>3 DEF TraceInv
    <3>2. /\ file.left \in Index /\ file.right \in Index /\ file.left <= file.right
          /\ ~Is(file.left, "FUN")
          /\ FileOf(eip).at = file.left /\ FileOf(eip).end = file.right
      BY <3>1, FileFacts DEF FileInv, Found, Is
    <3>3. ~Adjoin("FUN", eip, file.left, file.right)
      BY <1>3, <3>2 DEF OneByteFun
    <3>4. SearchInv(srch', "FUN", eip, file.left, file.right)
      BY <2>1, <3>1, <3>2, <3>3, HalveKeeps DEF Types
    <3>5. FileInv'
      BY <1>1, <3>1 DEF FileInv
    <3> QED BY <1>1, <2>1, <2>3, <3>1, <3>4, <3>5 DEF TraceInv
  <2>4. CASE phase = "line"
    <3> DEFINE lo == FunOf(eip).at
               hi == FunOf(eip).end
               a  == eip - Base(eip)
    <3>1. info = InfoOf(eip) /\ FileInv /\ FunInv
      BY <1>3, <2>4 DEF TraceInv
    <3>2. lo \in Index /\ hi \in Index /\ lo <= hi /\ a \in Nat /\ ~Is(lo, "SLINE")
      BY <2>1, <3>1, FunFacts
    <3>3. ASSUME ~OneByteLine(eip) PROVE SearchInv(srch', "SLINE", a, lo, hi)
      <4>1. SearchInv(srch, "SLINE", a, lo, hi)
        BY <1>3, <2>4, <3>3 DEF TraceInv
      <4>2. ~Adjoin("SLINE", a, lo, hi)
        BY <3>3 DEF OneByteLine
      <4> HIDE DEF lo, hi, a
      <4> QED BY <3>2, <4>1, <4>2, HalveKeeps DEF Types
    <3>5. FileInv' /\ FunInv' /\ InfoOf(eip)' = InfoOf(eip)
      BY <1>1, <3>1 DEF FileInv, FunInv, InfoOf
    <3> QED BY <1>1, <2>1, <2>4, <3>1, <3>3, <3>5 DEF TraceInv
  <2> QED BY <1>1, <2>2, <2>3, <2>4
<1> QED BY <1>2, <1>3

\* For every table laid out as compiler and linker do it, print_debuginfo prints the
\* function an address belongs to unless that is one byte long, and its file and
\* line unless the line is, if the line's entry has the next line's behind it.
THEOREM TraceRightCorrect == MSpec => []TraceRight
<1>1. MInit => TraceInv
  BY DEF MInit, StabsInit, TraceInv, TraceRight
<1>2. ASSUME TraceInv, [MNext]_mvars PROVE TraceInv'
  <2>1. CASE UNCHANGED svars
    <3>1. UNCHANGED <<phase, eip, srch, file, fun, info>>
      BY <2>1 DEF svars
    <3>2. (FileInv => FileInv') /\ (FunInv => FunInv')
      BY <3>1 DEF FileInv, FunInv
    <3>3. TraceRight'
      <4>1. SourceOf(LineOf(eip).at)' = SourceOf(LineOf(eip).at)
        BY <3>1 DEF SourceOf
      <4> QED BY <1>2, <3>1, <4>1 DEF TraceInv, TraceRight
    <3> QED BY <1>2, <3>1, <3>2, <3>3 DEF TraceInv
  <2>2. ASSUME NEW ret \in Returns, Frame(ret) PROVE TraceInv'
    <3>1. ret - 1 \in Nat
      BY MonitorConstants
    <3> QED BY <2>2, <3>1, DebuginfoStep DEF Frame
  <2>3. CASE Halve
    BY <1>2, <2>3, HalveStep
  <2>4. CASE FileFound \/ FunFound \/ LineFound
    <3>1. eip' = eip /\ phase \in {"file", "fun", "line"} /\ eip \in Nat
      BY <1>2, <2>4 DEF FileFound, FunFound, LineFound, Ended, Fail, TraceInv
    <3>2. CASE Fail
      <4>1. ASSUME ~OneByteFun(eip), ~OneByteLine(eip) PROVE ~Known(eip)
        <5>1. CASE FileFound
          <6>1. Result.left = 0
            BY <3>2, <5>1 DEF FileFound, Fail
          <6> QED BY <1>2, <4>1, <5>1, <6>1, FileFailStep
        <5>2. CASE LineFound
          <6>1. Ended("line") /\ Result.left > Result.right
            BY <3>2, <5>2 DEF LineFound, Fail
          <6> QED BY <1>2, <4>1, <6>1, LineSearchEnds
        <5> QED BY <2>4, <3>2, <5>1, <5>2 DEF FunFound, Fail
      <4>2. phase' = "fail"
        BY <3>2 DEF Fail
      <4>3. TraceRight'
        BY <3>1, <4>1, <4>2 DEF TraceRight
      <4> QED BY <3>1, <4>2, <4>3 DEF TraceInv
    <3>3. CASE OneByteFun(eip) /\ phase' \in {"fun", "line", "found"}
      BY <3>1, <3>3 DEF TraceInv, TraceRight
    <3>4. CASE FileFound /\ ~Fail /\ ~OneByteFun(eip)
      BY <1>2, <3>1, <3>4, FileFoundStep DEF TraceInv, TraceRight, FileFound
    <3>5. CASE FunFound /\ ~OneByteFun(eip)
      BY <1>2, <3>1, <3>5, FunFoundStep DEF TraceInv, TraceRight
    <3>6. CASE LineFound /\ ~Fail /\ ~OneByteFun(eip)
      <4>1. ~(Result.left > Result.right)
        BY <3>6 DEF LineFound
      <4> QED BY <1>2, <3>1, <3>6, <4>1, LineFoundStep DEF TraceInv
    <3> QED BY <2>4, <3>2, <3>3, <3>4, <3>5, <3>6 DEF FileFound, FunFound, LineFound
  <2>5. CASE StabsGone
    BY <2>5 DEF StabsGone, TraceInv, TraceRight
  <2> QED BY <1>2, <2>1, <2>2, <2>3, <2>4, <2>5
          DEF MNext, mvars, Welcome, Read, Run, ParseWord, ParseEnd, Help, KernInfo, NotFound,
              Backtrace, Answer, Look, DebugStep, FramePrinted, TraceEnd, Wild
<1>3. TraceInv => TraceRight
  BY DEF TraceInv
<1> QED BY <1>1, <1>2, <1>3, PTL DEF MSpec
=============================================================================
