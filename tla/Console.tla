------------------------------ MODULE Console -------------------------------
(***************************************************************************)
(* Console input (kern/driver/console.c): the keyboard and the serial      *)
(* port, their interrupts, the circular buffer between, and cons_getc,     *)
(* which the interrupt handler calls for one character (trap_dispatch) and *)
(* the kernel monitor calls in a loop with interrupts off (getchar).       *)
(*                                                                         *)
(* cons_getc polls the devices itself, one byte a step; keys are pressed   *)
(* and bytes arrive between any two of its steps.                          *)
(***************************************************************************)
EXTENDS Integers, FiniteSets, SequencesExt

CONSTANTS
    BufSize,        \* CONSBUFSIZE
    Keys,           \* the keys that are pressed, a subset of DOMAIN MakeCode
    SerialChars,    \* the characters that come over the serial port
    KbdRoom,        \* bytes the keyboard keeps for the controller
    MaxEvents       \* bound: key and serial events

NO    == "NO"       \* 0: not a character
NONE  == "NONE"     \* -1: no data
Chars == {"a", "A", "^A", "CR", "LF", "DEL", "BS"}

ASSUME ConsoleConstants == /\ BufSize \in Nat \ {0, 1} /\ MaxEvents \in Nat
                           /\ SerialChars \subseteq Chars \cup {"DEL127"}

VARIABLES
    held, capsOn,   \* the keys that are down; whether Caps Lock is on
    kbd,            \* scan bytes the keyboard has for KBDATAP
    com,            \* the receive register COM1 + COM_RX
    irr,            \* interrupts requested
    shift,          \* shift of kbd_proc_data
    buf, rpos, wpos,    \* cons
    where,          \* "boot": interrupts off; "kernel"; "trap"; "monitor"
    pc,             \* what cons_getc does next
    got,            \* the character it returned last
    events

devices == <<held, capsOn, events>>
cons    == <<buf, rpos, wpos>>
vars    == <<devices, kbd, com, irr, shift, cons, where, pc, got>>

-----------------------------------------------------------------------------
\* Scan codes, from the tables that are indexed by them.
MakeCode ==
    [A |-> <<30>>, ENTER |-> <<28>>, CAPS |-> <<58>>, DELETE |-> <<224, 83>>,
     LSHIFT |-> <<42>>, RSHIFT |-> <<54>>, LCTL |-> <<29>>, RCTL |-> <<224, 29>>]
BreakCode == [k \in DOMAIN MakeCode |->
                 [i \in DOMAIN MakeCode[k] |->
                     MakeCode[k][i] + (IF i = Len(MakeCode[k]) THEN 128 ELSE 0)]]

ASSUME KeysAreKnown == Keys \subseteq DOMAIN MakeCode

ShiftCode(d)  == CASE d \in {29, 157} -> {"CTL"} [] d \in {42, 54} -> {"SHIFT"}
                   [] d \in {56, 184} -> {"ALT"} [] OTHER -> {}
ToggleCode(d) == CASE d = 58 -> {"CAPSLOCK"} [] d = 69 -> {"NUMLOCK"}
                   [] d = 70 -> {"SCROLLLOCK"} [] OTHER -> {}

\* normalmap, shiftmap, ctlmap
CharCode(s, d) ==
    CASE d = 30  -> IF "CTL" \in s THEN "^A" ELSE IF "SHIFT" \in s THEN "A" ELSE "a"
      [] d = 28  -> IF "CTL" \in s THEN "CR" ELSE "LF"
      [] d = 211 -> "DEL"
      [] OTHER   -> NO

CapsSwap(c) == CASE c = "a" -> "A" [] c = "A" -> "a" [] OTHER -> c

\* Faulty variant: the release of an extended key does not end its prefix.
DecodeKeepsPrefix(s, data) ==
    LET esc == "E0ESC" \in s
    IN IF data = 224 THEN [shift |-> s \cup {"E0ESC"}, c |-> NO]
       ELSE IF data >= 128
       THEN [shift |-> s \ ShiftCode(IF esc THEN data ELSE data - 128), c |-> NO]
       ELSE LET d == IF esc THEN data + 128 ELSE data
                t == SymDiff((s \ {"E0ESC"}) \cup ShiftCode(d), ToggleCode(d))
                c == CharCode(t, d)
            IN [shift |-> t, c |-> IF "CAPSLOCK" \in t THEN CapsSwap(c) ELSE c]

\* kbd_proc_data after it has read data, without the reboot on Ctrl-Alt-Del.
Decode(s, data) ==
    LET esc == "E0ESC" \in s
    IN IF data = 224 THEN [shift |-> s \cup {"E0ESC"}, c |-> NO]
       ELSE IF data >= 128
       THEN [shift |-> s \ (ShiftCode(IF esc THEN data ELSE data - 128) \cup {"E0ESC"}),
             c |-> NO]
       ELSE LET d == IF esc THEN data + 128 ELSE data
                t == SymDiff((s \ {"E0ESC"}) \cup ShiftCode(d), ToggleCode(d))
                c == CharCode(t, d)
            IN [shift |-> t, c |-> IF "CAPSLOCK" \in t THEN CapsSwap(c) ELSE c]

-----------------------------------------------------------------------------
\* cons_init has run: the devices have been drained and their interrupts
\* enabled in irq_mask.
Init == /\ held = {} /\ capsOn = FALSE /\ events = 0
        /\ kbd = <<>> /\ com = NONE /\ irr = {}
        /\ shift = {}
        /\ buf = [i \in 0 .. BufSize - 1 |-> NO] /\ rpos = 0 /\ wpos = 0
        /\ where = "boot" /\ pc = "idle" /\ got = NO

Event == events < MaxEvents /\ events' = events + 1

\* The controller requests an interrupt whenever it has a new byte to be read.
KeyEvent(bytes) ==
    /\ Event /\ Len(kbd) + Len(bytes) <= KbdRoom
    /\ kbd' = kbd \o bytes
    /\ irr' = IF kbd = <<>> THEN irr \cup {"KBD"} ELSE irr
    /\ UNCHANGED <<com, shift, cons, where, pc, got>>

Press(k) == /\ k \notin held
            /\ held' = held \cup {k}
            /\ capsOn' = IF k = "CAPS" THEN ~capsOn ELSE capsOn
            /\ KeyEvent(MakeCode[k])

Release(k) == /\ k \in held
              /\ held' = held \ {k}
              /\ UNCHANGED capsOn
              /\ KeyEvent(BreakCode[k])

\* The port has no FIFO (serial_init turns it off): a character that comes
\* before the last one is read replaces it, without another request.
SerialArrives(c) == /\ Event
                    /\ com' = c
                    /\ irr' = IF com = NONE THEN irr \cup {"COM1"} ELSE irr
                    /\ UNCHANGED <<held, capsOn, kbd, shift, cons, where, pc, got>>

Environment == \/ \E k \in Keys : Press(k) \/ Release(k)
               \/ \E c \in SerialChars : SerialArrives(c)

-----------------------------------------------------------------------------
\* pic_init forgets the requests made before it (ICW1), and the lines that are
\* up make no new one.  Bound: nothing comes in between cons_init and here.
IntrEnable == /\ where = "boot" /\ kbd = <<>> /\ com = NONE
              /\ irr' = {} /\ where' = "kernel"
              /\ UNCHANGED <<devices, kbd, com, shift, cons, pc, got>>

\* IRQ_COM1 and IRQ_KBD: trap_dispatch calls cons_getc with interrupts off.
Interrupt(i) == /\ where = "kernel" /\ i \in irr
                /\ irr' = irr \ {i}
                /\ where' = "trap" /\ pc' = "serial"
                /\ UNCHANGED <<devices, kbd, com, shift, cons, got>>

\* __panic: intr_disable, and kmonitor for ever.
Panic == /\ where = "kernel"
         /\ where' = "monitor"
         /\ UNCHANGED <<devices, kbd, com, irr, shift, cons, pc, got>>

\* getchar, from readline
Getchar == /\ where = "monitor" /\ pc = "idle"
           /\ pc' = "serial"
           /\ UNCHANGED <<devices, kbd, com, irr, shift, cons, where, got>>

\* Faulty variant: the write position stops at the end of the buffer.
PutStops(c) == IF c = NO THEN UNCHANGED cons
               ELSE /\ buf' = [buf EXCEPT ![wpos] = c]
                    /\ wpos' = IF wpos + 1 = BufSize THEN wpos ELSE wpos + 1
                    /\ UNCHANGED rpos

\* cons_intr with a result of proc other than -1.
Put(c) == IF c = NO THEN UNCHANGED cons
          ELSE /\ buf' = [buf EXCEPT ![wpos] = c]
               /\ wpos' = (wpos + 1) % BufSize
               /\ UNCHANGED rpos

\* serial_proc_data turns 127 into a backspace.
FromSerial(c) == IF c = "DEL127" THEN "BS" ELSE c

PollSerial == /\ pc = "serial" /\ com # NONE
              /\ com' = NONE
              /\ Put(FromSerial(com))
              /\ UNCHANGED <<devices, kbd, irr, shift, where, pc, got>>

\* Faulty variant: the keyboard is not polled.
SerialEmptyEnds == /\ pc = "serial" /\ com = NONE
                   /\ pc' = "grab"
                   /\ UNCHANGED <<devices, kbd, com, irr, shift, cons, where, got>>

SerialEmpty == /\ pc = "serial" /\ com = NONE
               /\ pc' = "kbd"
               /\ UNCHANGED <<devices, kbd, com, irr, shift, cons, where, got>>

PollKbd == /\ pc = "kbd" /\ kbd # <<>>
           /\ kbd' = Tail(kbd)
           /\ irr' = IF kbd' # <<>> THEN irr \cup {"KBD"} ELSE irr
           /\ LET r == Decode(shift, Head(kbd)) IN shift' = r.shift /\ Put(r.c)
           /\ UNCHANGED <<devices, com, where, pc, got>>

KbdEmpty == /\ pc = "kbd" /\ kbd = <<>>
            /\ pc' = "grab"
            /\ UNCHANGED <<devices, kbd, com, irr, shift, cons, where, got>>

\* Faulty variant: the read position stays.
GrabStays == /\ pc = "grab" /\ pc' = "idle"
             /\ got' = IF rpos # wpos THEN buf[rpos] ELSE NO
             /\ where' = IF where = "trap" THEN "kernel" ELSE where
             /\ UNCHANGED <<devices, kbd, com, irr, shift, cons>>

\* The end of cons_getc, and of the handler that called it.
Grab == /\ pc = "grab" /\ pc' = "idle"
        /\ IF rpos # wpos
           THEN got' = buf[rpos] /\ rpos' = (rpos + 1) % BufSize
           ELSE got' = NO /\ UNCHANGED rpos
        /\ where' = IF where = "trap" THEN "kernel" ELSE where
        /\ UNCHANGED <<devices, kbd, com, irr, shift, buf, wpos>>

ConsGetc == PollSerial \/ SerialEmpty \/ PollKbd \/ KbdEmpty \/ Grab
Handle   == \E i \in irr : Interrupt(i)

Next == Environment \/ IntrEnable \/ Handle \/ Panic \/ Getchar \/ ConsGetc

Spec == Init /\ [][Next]_vars

\* The processor runs and takes the interrupts that are requested; nobody has
\* to type, and the kernel need not panic.
FairSpec == /\ Spec
            /\ WF_vars(IntrEnable) /\ WF_vars(Handle)
            /\ WF_vars(Getchar) /\ WF_vars(ConsGetc)

-----------------------------------------------------------------------------
Waiting == [i \in 1 .. (wpos - rpos) % BufSize |-> buf[(rpos + i - 1) % BufSize]]
ShiftBits == {"SHIFT", "CTL", "ALT", "CAPSLOCK", "NUMLOCK", "SCROLLLOCK", "E0ESC"}

\* Type correctness.
TypeOK == /\ held \subseteq Keys /\ capsOn \in BOOLEAN
          /\ kbd \in Seq(0 .. 255) /\ com \in SerialChars \cup {NONE}
          /\ irr \subseteq {"KBD", "COM1"}
          /\ shift \subseteq ShiftBits
          /\ buf \in [0 .. BufSize - 1 -> Chars \cup {NO}]
          /\ rpos \in 0 .. BufSize - 1 /\ wpos \in 0 .. BufSize - 1
          /\ where \in {"boot", "kernel", "trap", "monitor"}
          /\ pc \in {"idle", "serial", "kbd", "grab"}
          /\ got \in Chars \cup {NO}
          /\ events \in 0 .. MaxEvents

\* What bytes do: the characters they spell and the shift they leave.  (after[k]
\* is the set of the one result there is, so that TLC works it out once.)
Spelling(r, byte) == LET d == Decode(r.shift, byte)
                     IN  [shift |-> d.shift,
                          out   |-> IF d.c = NO THEN r.out ELSE Append(r.out, d.c)]
Spelt(s, bytes) ==
    LET after[k \in 0 .. Len(bytes)] ==
            IF k = 0 THEN {[shift |-> s, out |-> <<>>]}
            ELSE {Spelling(r, bytes[k]) : r \in after[k - 1]}
    IN  CHOOSE r \in after[Len(bytes)] : TRUE
UnderWay == Spelt(shift, kbd)

\* Once the bytes under way are read, shift names no modifier of which no key
\* is down and is in no prefix; a modifier with a single key is named exactly
\* while it is down, and CAPSLOCK while Caps Lock is on.
KeysFor == [SHIFT |-> {"LSHIFT", "RSHIFT"} \cap Keys, CTL |-> {"LCTL", "RCTL"} \cap Keys]
ModifiersFollow ==
    LET s == UnderWay.shift
    IN /\ "E0ESC" \notin s
       /\ \A m \in DOMAIN KeysFor :
             /\ m \in s => KeysFor[m] \cap held # {}
             /\ Cardinality(KeysFor[m]) = 1 /\ KeysFor[m] \subseteq held => m \in s
       /\ ("CAPSLOCK" \in s) = capsOn

\* Characters come out of cons_getc in the order in which they were typed,
\* whoever calls it and whatever arrives meanwhile, and none is lost but in
\* the register of the serial port and by an overrun.
Queue     == INSTANCE CharQueue WITH
                 typed <- UnderWay.out,
                 sent  <- IF com = NONE THEN NONE ELSE FromSerial(com),
                 queue <- Waiting, taken <- got, Size <- BufSize
QueueKept == Queue!QSpec

\* No byte stays in a device for ever: a request that was not taken, or a poll
\* still to come, is always there to fetch it.
Drained == (kbd # <<>> \/ com # NONE) /\ where # "boot" ~> kbd = <<>> /\ com = NONE

\* The monitor gets every character that is waiting.
MonitorReads == where = "monitor" /\ Waiting # <<>> ~> Waiting = <<>>
=============================================================================
