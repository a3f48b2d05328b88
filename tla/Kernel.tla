------------------------------- MODULE Kernel -------------------------------
(***************************************************************************)
(* The running kernel: the threads of Threads print for ever, timer and    *)
(* device interrupts print on top of them, and a trap that nobody expects  *)
(* panics.                                                                 *)
(*                                                                         *)
(* Nothing protects the console.  A thread in cga_putc can be interrupted  *)
(* between any two accesses to crt_pos, by a handler that moves the cursor *)
(* itself, and by a tick that hands the processor to another thread in the *)
(* middle of its own cga_putc.  (The kernel is built without optimisation: *)
(* crt_pos is read and written wherever the source names it.)              *)
(***************************************************************************)
EXTENDS Threads

CONSTANTS
    Rows, Cols,     \* CRT_ROWS, CRT_COLS
    Patience        \* how often lpt_putc_sub and serial_putc_sub look again

CrtSize == Rows * Cols

ASSUME KernelConstants == /\ Rows \in Nat \ {0, 1} /\ Cols \in Nat \ {0, 1}
                          /\ CrtSize + Cols < 65536
                          /\ Patience \in Nat

VARIABLES
    crt_pos,
    putc,       \* where in cons_putc each thread is, and the register it uses
    panic       \* "none"; "print", "monitor": in __panic, is_panic = 1

kvars   == <<vars, crt_pos, putc, panic>>
threads == <<queue, boot, stage, next, cur, ticks, esp0>>

KInit == /\ Init
         /\ crt_pos \in 0 .. CrtSize - 1
         /\ putc = [t \in Workers |-> [at |-> "lpt", r |-> 0]]
         /\ panic = "none"

Word(n) == n % 65536        \* uint16_t

-----------------------------------------------------------------------------
\* cga_putc in an interrupt handler: interrupts are off, so it is one step.
CgaPutc(pos, c) ==
    LET moved == CASE c = "BS" -> IF pos > 0 THEN pos - 1 ELSE pos
                   [] c = "LF" -> pos + Cols - ((pos + Cols) % Cols)
                   [] c = "CR" -> pos - (pos % Cols)
                   [] OTHER    -> pos + 1
    IN  Word(IF moved >= CrtSize THEN moved - Cols ELSE moved)

\* Where what a handler prints leaves a cursor that was at pos.  The last letter
\* of a device's message is the character it received.
TickPrinted(pos)    == CgaPutc(CgaPutc(pos, "char"), "LF")
DevicePrinted(pos)  == {CgaPutc(CgaPutc(CgaPutc(pos, "char"), c), "LF") :
                            c \in {"char", "LF", "CR", "BS"}}
PanicPrinted(pos)   == {CgaPutc(pos, "LF"), CgaPutc(CgaPutc(pos, "char"), "LF")}

-----------------------------------------------------------------------------
\* A thread prints the endless text of thread_func, letters and line feeds, by
\* cons_putc: to the parallel port, on the screen, to the serial port.
Running(t) == cur = t /\ mode = "on" /\ stage # "wild" /\ panic = "none"

Putc(t, from, to, r) == /\ Running(t) /\ putc[t].at = from
                        /\ putc' = [putc EXCEPT ![t] = [at |-> to, r |-> r]]
                        /\ UNCHANGED <<vars, panic>>

\* Faulty variant: the looks at the serial port are not limited.
LookForEver(t, port) ==
    /\ port = "com" \/ putc[t].r < Patience
    /\ Putc(t, port, port, IF port = "com" THEN (putc[t].r + 1) % (Patience + 1)
                                          ELSE putc[t].r + 1)
    /\ UNCHANGED crt_pos

\* lpt_putc_sub and serial_putc_sub look at the device; it may be ready, and
\* after enough looks the character is sent anyway.
Look(t, port) == /\ putc[t].r < Patience
                 /\ Putc(t, port, port, putc[t].r + 1)
                 /\ UNCHANGED crt_pos

LptOut(t) == Putc(t, "lpt", "cga", 0) /\ UNCHANGED crt_pos
ComOut(t) == Putc(t, "com", "lpt", 0) /\ UNCHANGED crt_pos

\* Faulty variant: only a line feed can scroll.
LetterStoreOnly(t) == Putc(t, "letter", "com", 0) /\ crt_pos' = Word(putc[t].r + 1)

\* crt_buf[crt_pos ++] = c
LetterLoad(t)  == Putc(t, "cga", "letter", crt_pos) /\ UNCHANGED crt_pos
LetterStore(t) == Putc(t, "letter", "check", 0) /\ crt_pos' = Word(putc[t].r + 1)

\* crt_pos += CRT_COLS
LineLoad(t)  == Putc(t, "cga", "line", crt_pos) /\ UNCHANGED crt_pos
LineStore(t) == Putc(t, "line", "return", 0) /\ crt_pos' = Word(putc[t].r + Cols)

\* crt_pos -= (crt_pos % CRT_COLS): crt_pos is read twice, in either order.
ReturnLoad(t)  == Putc(t, "return", "column", crt_pos) /\ UNCHANGED crt_pos
ColumnLoad(t)  == /\ \E v \in {putc[t].r - (crt_pos % Cols), crt_pos - (putc[t].r % Cols)} :
                         Putc(t, "column", "back", Word(v))
                  /\ UNCHANGED crt_pos
ReturnStore(t) == Putc(t, "back", "check", 0) /\ crt_pos' = putc[t].r

\* if (crt_pos >= CRT_SIZE), the text moves up, and crt_pos -= CRT_COLS
Check(t) == /\ Putc(t, "check", IF crt_pos >= CrtSize THEN "scroll" ELSE "com", 0)
            /\ UNCHANGED crt_pos
ScrollLoad(t)  == Putc(t, "scroll", "up", crt_pos) /\ UNCHANGED crt_pos
ScrollStore(t) == Putc(t, "up", "com", 0) /\ crt_pos' = Word(putc[t].r - Cols)

ThreadFunc(t) == \/ \E port \in {"lpt", "com"} : Look(t, port)
            \/ LptOut(t) \/ ComOut(t)
            \/ LetterLoad(t) \/ LetterStore(t)
            \/ LineLoad(t) \/ LineStore(t)
            \/ ReturnLoad(t) \/ ColumnLoad(t) \/ ReturnStore(t)
            \/ Check(t) \/ ScrollLoad(t) \/ ScrollStore(t)

-----------------------------------------------------------------------------
\* The timer: print_ticks, and then schedule().
KTick     == Tick /\ UNCHANGED <<crt_pos, putc, panic>>
KSchedule == /\ panic = "none" /\ Schedule
             /\ crt_pos' = TickPrinted(crt_pos)
             /\ UNCHANGED <<putc, panic>>
KReturn   == /\ panic = "none" /\ Return
             /\ UNCHANGED <<crt_pos, putc, panic>>

\* A keyboard or serial interrupt prints the character it received (which is
\* what Console is about).
Device == /\ mode = "on" /\ panic = "none" /\ stage # "wild"
          /\ crt_pos' \in DevicePrinted(crt_pos)
          /\ UNCHANGED <<vars, putc, panic>>

\* Faulty variant: a trap gate, which leaves interrupts as they are.
GateTrap == mode

\* idt_init makes interrupt gates: interrupts are off in every handler.
Gate == "off"

\* A second panic goes straight to panic_dead.
Panics == IF panic = "none" THEN "print" ELSE "monitor"

\* Any other trap in the kernel: an exception, in a thread, in a handler, or
\* while a panic prints a stack that is no stack; or an interrupt that nobody
\* asked for.
Unexpected == /\ mode # "off" \/ panic # "none"
              /\ mode' = Gate /\ panic' = Panics
              /\ crt_pos' \in PanicPrinted(crt_pos)    \* print_trapframe
              /\ UNCHANGED <<threads, putc>>

\* The message and the stack, and intr_disable at the end.
PanicPrint == /\ panic = "print" /\ panic' = "monitor"
              /\ mode' = "off"
              /\ crt_pos' \in PanicPrinted(crt_pos)
              /\ UNCHANGED <<threads, putc>>

\* kmonitor, for ever
Monitor == /\ panic = "monitor"
           /\ crt_pos' \in PanicPrinted(crt_pos)
           /\ UNCHANGED <<vars, putc, panic>>

Starting == /\ \/ \E t \in Workers : KernelThread(t) \/ KernelThreadFails(t)
               \/ IntrEnable \/ BootStep
            /\ UNCHANGED <<crt_pos, putc, panic>>

KNext == \/ Starting
         \/ \E t \in Workers : ThreadFunc(t)
         \/ KTick \/ KSchedule \/ KReturn
         \/ Device \/ Unexpected \/ PanicPrint \/ Monitor

KSpec == KInit /\ [][KNext]_kvars

\* As in Threads; and of the time between two ticks a thread gets some.
KFairSpec == /\ KSpec
             /\ WF_kvars(Starting) /\ WF_kvars(KTick)
             /\ WF_kvars(KSchedule \/ KReturn)
             /\ \A t \in Workers : SF_kvars(ThreadFunc(t))

-----------------------------------------------------------------------------
\* The cursor is never more than a row behind the end of the screen and is
\* never moved up from above its top, although it is moved and the screen
\* scrolled by threads that were interrupted between the two: on the way to
\* another thread print_ticks has brought it back.
CursorBounded == crt_pos <= CrtSize + Cols

\* A panic is final: the thread it happened in is never switched away from, even
\* while the message is printed, the others get nothing done any more, and the
\* message is not begun a second time when printing it fails.
PanicFinal == [][panic # "none" => /\ panic' = "monitor"
                                   /\ UNCHANGED <<threads, putc>>]_kvars

\* Unless the kernel panics, every thread that was created prints again and
\* again: its turns come, and it gets behind the serial port, which it waits for
\* last, to begin its next character, however long that port stays silent.
EveryThreadPrints ==
    \A t \in Workers : /\ t \in Created ~> putc[t].at = "com" \/ panic # "none"
                       /\ putc[t].at = "com" ~> putc[t].at = "lpt" \/ panic # "none"
=============================================================================
