------------------------------ MODULE Monitor ------------------------------
(***************************************************************************)
(* The kernel monitor (kern/debug/kmonitor.c): it reads a line (Readline), *)
(* splits it in place into words, looks the first one up among its         *)
(* commands and runs it.  backtrace follows the stack and finds the source *)
(* of each return address (Stabs).                                         *)
(***************************************************************************)
EXTENDS Readline, Stabs

CONSTANTS
    Commands,   \* names of the commands, by command
    MaxArgs,    \* MAXARGS
    Depth,      \* STACKFRAME_DEPTH
    Returns     \* return addresses that may be found on a stack

NUL == "NUL"

ASSUME MonitorConstants ==
    /\ DOMAIN Commands = {"help", "kerninfo", "backtrace"}
    /\ \A c \in DOMAIN Commands : Commands[c] \in Seq(Letters \ {Blank})
    /\ IsInjective(Commands)
    /\ NUL \notin Letters /\ MaxArgs \in Nat \ {0}
    /\ Depth \in Nat \ {0} /\ Returns \subseteq Nat \ {0}

VARIABLES
    buf,        \* buf of readline, from 1
    argv,       \* where the words of buf begin
    frame       \* i of print_stackframe

mvars  == <<vars, svars, buf, argv, frame>>
screen == <<crt_buf, crt_pos>>

Ink == CHOOSE c \in Letters : c # Blank

\* Texts of n lines; what they say is left out.
Lines(n) == [k \in 1 .. 2 * n |-> IF k % 2 = 1 THEN Ink ELSE "LF"]

MInit == /\ Init /\ StabsInit
         /\ buf = <<NUL>> /\ argv = <<>> /\ frame = 0

Welcome == /\ pc = "welcome" /\ pc' = "prompt"
           /\ Show(Lines(2))
           /\ UNCHANGED <<line, svars, buf, argv, frame>>

\* readline; the line it returns ends with a NUL.
Read == /\ ShowPrompt \/ Readline
        /\ buf' = IF pc' = "run" THEN Append(line', NUL) ELSE buf
        /\ argv' = <<>>
        /\ UNCHANGED <<svars, frame>>

-----------------------------------------------------------------------------
\* strchr(WHITESPACE, buf[k]) = NULL
IsText(k)  == buf[k] \notin {Blank, NUL}
EndFrom(k) == Min({j \in k .. Len(buf) : ~IsText(j)})

\* Where parse stands, behind the word it saved last.
At == IF argv = <<>> THEN 1 ELSE EndFrom(Last(argv))

\* Faulty variant: blanks are passed over and stay.
SkippedOver(from) ==
    LET at == Min({j \in from .. Len(buf) : buf[j] # Blank})
    IN  [at |-> at, buf |-> buf]

\* Blanks in front of the next word become NULs.
Skipped(from) ==
    LET at == Min({j \in from .. Len(buf) : buf[j] # Blank})
    IN  [at |-> at, buf |-> [j \in DOMAIN buf |-> IF j \in from .. at - 1 THEN NUL ELSE buf[j]]]

\* Nothing keeps a word that does not fit into argv from being stored behind it,
\* on the stack: it may hit nothing that is used any more, or anything.
ParseWord == /\ pc = "run"
             /\ LET s == Skipped(At)
                IN  /\ s.buf[s.at] # NUL
                    /\ buf' = s.buf /\ argv' = Append(argv, s.at)
             /\ Show(Lines(IF Len(argv) = MaxArgs - 1 THEN 1 ELSE 0))
             /\ pc' \in {"run"} \cup {w \in {"wild"} : Len(argv) >= MaxArgs}
             /\ UNCHANGED <<line, svars, frame>>

ParseEnd == /\ pc = "run"
            /\ LET s == Skipped(At)
               IN  s.buf[s.at] = NUL /\ buf' = s.buf
            /\ pc' = IF argv = <<>> THEN "prompt" ELSE "lookup"
            /\ UNCHANGED <<screen, line, svars, argv, frame>>

-----------------------------------------------------------------------------
\* The string that begins at k
StringAt(k) == SubSeq(buf, k, Min({j \in k .. Len(buf) : buf[j] = NUL}) - 1)

\* strcmp(name, string at k) = 0
Same(name, k) == name = StringAt(k)

Named(c) == Same(Commands[c], argv[1])

\* A command that prints n lines and returns to readline.
Answer(n) == /\ pc' = "prompt" /\ Show(Lines(n))
             /\ UNCHANGED <<line, svars, buf, argv, frame>>

Help     == pc = "lookup" /\ Named("help") /\ Answer(Cardinality(DOMAIN Commands))
KernInfo == pc = "lookup" /\ Named("kerninfo") /\ Answer(6)
NotFound == pc = "lookup" /\ (\A c \in DOMAIN Commands : ~Named(c)) /\ Answer(1)

Backtrace == /\ pc = "lookup" /\ Named("backtrace")
             /\ pc' = "trace" /\ frame' = 0
             /\ UNCHANGED <<screen, line, svars, buf, argv>>

-----------------------------------------------------------------------------
\* print_stackframe, a frame: the stack is whatever was interrupted; its ebp
\* leads to another frame, whose return address is eip, or is 0.
Frame(ret) == /\ pc = "trace" /\ frame < Depth
              /\ Debuginfo(ret - 1)
              /\ Show(Lines(1))
              /\ UNCHANGED <<line, pc, buf, argv, frame>>

Look == /\ pc = "trace" /\ DebugStep
        /\ UNCHANGED <<vars, buf, argv, frame>>

\* print_debuginfo; debuginfo_eip's variables are gone.
FramePrinted == /\ pc = "trace" /\ phase \in {"found", "fail"}
                /\ Show(Lines(1))
                /\ frame' = frame + 1
                /\ StabsGone
                /\ UNCHANGED <<line, pc, buf, argv>>

TraceEnd == /\ pc = "trace" /\ phase = "idle" /\ frame > 0
            /\ pc' = "prompt" /\ frame' = 0
            /\ UNCHANGED <<screen, line, svars, buf, argv>>

Run == \/ ParseWord \/ ParseEnd
       \/ Help \/ KernInfo \/ Backtrace \/ NotFound
       \/ (\E ret \in Returns : Frame(ret)) \/ Look \/ FramePrinted \/ TraceEnd

\* What the processor does with such a stack is not in the source.
Wild == pc = "wild" /\ UNCHANGED mvars

MNext == Welcome \/ Read \/ Run \/ Wild
MSpec == MInit /\ [][MNext]_mvars

\* The monitor has the processor for itself.
MFairSpec == MSpec /\ WF_mvars(Run)

-----------------------------------------------------------------------------
\* Type correctness; the cursor is on the screen whenever the monitor stops.
MTypeOK == /\ crt_buf \in [0 .. ScreenSize - 1 -> Letters \cup {Blank}]
           /\ crt_pos \in 0 .. ScreenSize - 1
           /\ line \in Seq(Letters) /\ Len(line) < BufSize
           /\ pc \in {"welcome", "prompt", "read", "run", "lookup", "trace", "wild"}
           /\ buf \in Seq(Letters \cup {NUL})
           /\ Range(argv) \subseteq DOMAIN buf
           /\ frame \in 0 .. Depth

\* When parse has ended, argv has the words of the line that was typed, each
\* from its first letter to a NUL where a blank or the line's end was, although
\* parse writes into the text that it is reading.  Only a line of more than
\* MAXARGS words, which no check of parse stops, lets it write behind argv.
ArgsAreWords ==
    LET isText(k) == k \in DOMAIN line /\ line[k] # Blank
        starts    == {k \in DOMAIN line : isText(k) /\ ~isText(k - 1)}
        word(k)   == SubSeq(line, k, Min({j \in k .. Len(line) + 1 : ~isText(j)}) - 1)
    IN  /\ pc = "lookup" =>
            /\ Range(argv) = starts
            /\ \A i, j \in DOMAIN argv : i < j => argv[i] < argv[j]
            /\ \A i \in DOMAIN argv : StringAt(argv[i]) = word(argv[i])
        /\ pc = "wild" => Cardinality(starts) > MaxArgs

\* Where an address belongs, worked out without a search: the last entry of a
\* type at or below it, up to the next one above it; in the table the file, in
\* that the function, in that the line.
LastAt(type, addr, lo, hi) ==
    LET ks   == {k \in lo .. hi : Stab[k].type = type}
        over == {k \in ks : Stab[k].value > addr}
    IN  [at  |-> IF ks \ over = {} THEN lo ELSE Max(ks \ over),
         end |-> IF over = {} THEN hi ELSE Min(over) - 1]
FileOf(a) == LastAt("SO", a, 0, LastStab)
FunOf(a)  == LastAt("FUN", a, FileOf(a).at, FileOf(a).end)
IsFun(a)  == Stab[FunOf(a).at].type = "FUN"
Base(a)   == IF IsFun(a) THEN Stab[FunOf(a).at].value ELSE 0
LineOf(a) == LastAt("SLINE", a - Base(a), FunOf(a).at, FunOf(a).end)

\* Does the table know the address at all?
Known(a) == /\ FileOf(a).at # 0
            /\ \E k \in FunOf(a).at .. FunOf(a).end : Stab[k].type = "SLINE"

\* The search that meets the address itself goes on for the next one, and takes an
\* entry that begins there for its own.
Adjoin(type, addr, lo, hi) ==
    \E j, k \in lo .. hi : /\ Stab[j].type = type /\ Stab[j].value = addr
                          /\ Stab[k].type = type /\ Stab[k].value = addr + 1
OneByteFun(a)  == \/ Adjoin("SO", a, 0, LastStab)
                  \/ Adjoin("FUN", a, FileOf(a).at, FileOf(a).end)
OneByteLine(a) == Adjoin("SLINE", a - Base(a), FunOf(a).at, FunOf(a).end)

\* The line's entry has the next line's entry right behind it.
LineFollows(a) == /\ Stab[LineOf(a).at].type = "SLINE"
                  /\ LineOf(a).at = LineOf(a).end

\* Of an address print_debuginfo prints the last function at or below it in its
\* file, how far behind, and the function's parameters, unless that function or
\* its file is one byte long; the file and the line that the address belongs to,
\* unless the line is one byte long too; and that it knows nothing only if the
\* table does not.  The line number is the line's own only if nothing but the
\* next line's entry follows it: kdebug.c:183 takes the last entry in front of the
\* next line, which, before inlined code and at a function's end, is no line.
TraceRight ==
    /\ phase = "found" /\ ~OneByteFun(eip) =>
           /\ IsFun(eip)  => info.fn = Stab[FunOf(eip).at].name /\ info.addr = Base(eip)
           /\ ~IsFun(eip) => info.fn = Unknown /\ info.addr = eip
           /\ info.narg = Cardinality({k \in FunOf(eip).at .. FunOf(eip).end :
                                          IsFun(eip) /\ Stab[k].type = "PSYM"})
    /\ phase = "found" /\ ~OneByteFun(eip) /\ ~OneByteLine(eip) =>
           /\ info.file = SourceOf(LineOf(eip).at)
           /\ LineFollows(eip) => info.line = Stab[LineOf(eip).at].desc
    /\ phase = "fail" /\ ~OneByteFun(eip) /\ ~OneByteLine(eip) => ~Known(eip)

\* Every command comes to its end and the monitor reads the next line, if argv
\* was not overrun: the search narrows even when it meets the address itself.
CommandsReturn == pc = "run" ~> pc \in {"prompt", "wild"}
=============================================================================
