----------------------------- MODULE MCMonitor -----------------------------
(* Values of the constants of Monitor for TLC. *)
EXTENDS Monitor

MCPrompt   == <<"k">>
MCCommands == [help |-> <<"h">>, kerninfo |-> <<"k">>, backtrace |-> <<"k", "h">>]
MCUnknown  == "?"

Entry(type, value, desc, name) ==
    [type |-> type, value |-> value, desc |-> desc, name |-> name]

\* The compiler's table of a file in assembler, a file with two functions, the
\* first with two parameters and lines of an inlined function, and a file that
\* begins behind a gap and has a line of one byte.
MCStab == LET entries == <<
    Entry("UNDF",  0, 0, ""),
    Entry("SO",    2, 0, "dir"),  Entry("SO",    2, 0, "entry.S"),
    Entry("SLINE", 2, 1, ""),     Entry("SLINE", 4, 2, ""),
    Entry("SO",    6, 0, "end"),
    Entry("SO",    6, 0, "dir"),  Entry("SO",    6, 0, "init.c"),
    Entry("LSYM",  0, 0, "int"),
    Entry("FUN",   6, 0, "f"),
    Entry("PSYM",  8, 0, "a"),    Entry("PSYM", 12, 0, "b"),
    Entry("SLINE", 0, 3, ""),     Entry("SLINE", 2, 4, ""),
    Entry("SOL",  10, 0, "x86.h"),
    Entry("SLINE", 4, 9, ""),
    Entry("SOL",  12, 0, "init.c"),
    Entry("SLINE", 6, 5, ""),
    Entry("LBRAC", 2, 0, ""),     Entry("RBRAC", 6, 0, ""),
    Entry("FUN",  14, 0, "g"),
    Entry("SLINE", 0, 7, ""),
    Entry("SO",   16, 0, "end"),
    Entry("SO",   18, 0, "dir"),  Entry("SO",   18, 0, "trap.c"),
    Entry("FUN",  18, 0, "h"),
    Entry("PSYM",  8, 0, "a"),
    Entry("SLINE", 0, 8, ""),     Entry("SLINE", 2, 9, ""),
    Entry("SLINE", 3, 10, ""),
    Entry("SO",   22, 0, "end") >>
          IN  [k \in 0 .. Len(entries) - 1 |-> entries[k + 1]]

MCReturns == 1 .. 25
=============================================================================
