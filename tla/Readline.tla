------------------------------ MODULE Readline ------------------------------
(***************************************************************************)
(* Line editing in the kernel monitor (kern/libs/readline.c) and the text  *)
(* screen it echoes to (cga_putc of kern/driver/console.c).  Lines wrap    *)
(* and the screen scrolls under the line that is being typed.              *)
(***************************************************************************)
EXTENDS Integers, SequencesExt

CONSTANTS
    Rows, Cols,     \* CRT_ROWS, CRT_COLS
    BufSize,        \* BUFSIZE of readline.c
    Prompt,         \* the prompt of kmonitor
    Letters,        \* characters that can be typed into a line, the blank too
    OtherChars      \* characters that neither print nor edit

ScreenSize == Rows * Cols
Blank      == " "

\* The longest line, with its prompt, leaves a row of the screen free.
ASSUME ReadlineConstants ==
    /\ Rows \in Nat \ {0, 1} /\ Cols \in Nat \ {0} /\ BufSize \in Nat \ {0}
    /\ Prompt \in Seq(Letters) /\ Letters \cap {"BS", "LF", "CR"} = {}
    /\ Len(Prompt) + BufSize - 1 < ScreenSize - Cols

VARIABLES
    crt_buf, crt_pos,
    line,           \* buf[0 .. i - 1]
    pc              \* where kmonitor is: "read" inside readline

vars == <<crt_buf, crt_pos, line, pc>>

\* The screen is as the boot loader left it, the cursor anywhere on it.
Init == /\ crt_buf = [p \in 0 .. ScreenSize - 1 |-> Blank]
        /\ crt_pos \in 0 .. ScreenSize - 1
        /\ line = <<>> /\ pc = "welcome"

-----------------------------------------------------------------------------
\* The cursor moves by one character.
Written(s, c) ==
    CASE c = "BS" -> IF s.pos = 0 THEN s
                     ELSE [buf |-> [s.buf EXCEPT ![s.pos - 1] = Blank], pos |-> s.pos - 1]
      [] c = "LF" -> [s EXCEPT !.pos = @ + Cols - (@ % Cols)]
      [] c = "CR" -> [s EXCEPT !.pos = @ - (@ % Cols)]
      [] OTHER    -> [buf |-> [s.buf EXCEPT ![s.pos] = c], pos |-> s.pos + 1]

Memmove(b, dst, src, n) ==
    [p \in DOMAIN b |-> IF p \in dst .. dst + n - 1 THEN b[src + p - dst] ELSE b[p]]

\* Faulty variant: the text stays when the cursor moves up.
ScrolledCursor(s) == IF s.pos < ScreenSize THEN s ELSE [s EXCEPT !.pos = @ - Cols]

Scrolled(s) ==
    IF s.pos < ScreenSize THEN s
    ELSE LET up == Memmove(s.buf, 0, Cols, ScreenSize - Cols)
         IN  [buf |-> [p \in DOMAIN up |-> IF p < ScreenSize - Cols THEN up[p] ELSE Blank],
              pos |-> s.pos - Cols]

\* cga_putc
CgaPutc(s, c) == Scrolled(Written(s, c))

\* A text is shown character by character.  (Each value of after is the set of the
\* one screen there is then, so that TLC evaluates that screen once.)
Screens(text) ==
    LET after[k \in 0 .. Len(text)] ==
            IF k = 0 THEN {[buf |-> crt_buf, pos |-> crt_pos]}
            ELSE {CgaPutc(s, text[k]) : s \in after[k - 1]}
    IN  after[Len(text)]
Show(text) == \E s \in Screens(text) : crt_buf' = s.buf /\ crt_pos' = s.pos

-----------------------------------------------------------------------------
ShowPrompt == /\ pc = "prompt" /\ pc' = "read"
              /\ Show(Prompt)
              /\ line' = <<>>

TakeLetter(c) == /\ pc = "read" /\ Len(line) < BufSize - 1
                 /\ Show(<<c>>)
                 /\ line' = Append(line, c)
                 /\ UNCHANGED pc

TakeBackspace == /\ pc = "read" /\ line # <<>>
                 /\ Show(<<"BS">>)
                 /\ line' = Front(line)
                 /\ UNCHANGED pc

TakeNewline(c) == /\ pc = "read" /\ pc' = "run"
                  /\ Show(<<c>>)
                  /\ UNCHANGED line

\* A letter when the buffer is full, a backspace when it is empty, others.
TakeNothing(c) == /\ pc = "read"
                  /\ \/ c \in Letters /\ Len(line) = BufSize - 1
                     \/ c = "BS" /\ line = <<>>
                     \/ c \in OtherChars
                  /\ UNCHANGED vars

Readline == \/ \E c \in Letters : TakeLetter(c)
            \/ TakeBackspace
            \/ \E c \in {"LF", "CR"} : TakeNewline(c)
            \/ \E c \in Letters \cup OtherChars \cup {"BS"} : TakeNothing(c)

-----------------------------------------------------------------------------
\* While a line is being typed, the screen shows in front of the cursor the
\* prompt and the line exactly as it is in the buffer, wrapped, scrolled and
\* edited as it may be; so erasing never reaches the prompt.
ScreenShowsLine ==
    pc = "read" =>
        LET shown == Prompt \o line
        IN /\ Len(shown) <= crt_pos
           /\ \A i \in 1 .. Len(shown) : crt_buf[crt_pos - Len(shown) + i - 1] = shown[i]
=============================================================================
