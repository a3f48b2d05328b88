------------------------------- MODULE Stabs -------------------------------
(***************************************************************************)
(* Finding the source of an address in the compiler's symbol table         *)
(* (debuginfo_eip and stab_binsearch, kern/debug/kdebug.c): the file, the  *)
(* function in it, the line in that, each by one search.  Entries of one   *)
(* type ascend; between them stand entries of all other types, so a search *)
(* halves the table and then walks back to an entry of its type.           *)
(***************************************************************************)
EXTENDS Integers, FiniteSetsExt

CONSTANTS
    Stab,       \* the table: entries with type, value, desc and name by index
    Unknown     \* the name "<unknown>"

Index    == DOMAIN Stab
LastStab == Max(Index)

ASSUME StabConstants == /\ 0 \in Index /\ IsFiniteSet(Index)
                        /\ Index = 0 .. Cardinality(Index) - 1
                        /\ \A k \in Index : /\ Stab[k].value \in Nat
                                            /\ Stab[k].desc \in Nat
                        \* the entry the linker begins the table with
                        /\ Stab[0].type = "UNDF"

\* How the compiler and the linker lay the table out: files ascend, and so do the
\* functions of a file, of which the first begins where the file does, and the
\* lines of a function, or of a file without functions; parameters stand behind
\* their function, and something follows them.
Ascend(type, lo, hi) ==
    \A j, k \in lo .. hi :
        Stab[j].type = type /\ Stab[k].type = type /\ j < k => Stab[j].value <= Stab[k].value
Section(type, lo, hi, end) ==
    /\ Stab[lo].type = type /\ \A k \in lo + 1 .. hi : Stab[k].type # type
    /\ hi = end \/ Stab[hi + 1].type = type
FunLaidOut(lo, hi) ==
    /\ Ascend("SLINE", lo, hi)
    /\ \A k \in lo + 1 .. hi : Stab[k].type = "PSYM" =>
           k < hi /\ \A j \in lo + 1 .. k : Stab[j].type = "PSYM"
FileLaidOut(lo, hi) ==
    LET funs == {k \in lo .. hi : Stab[k].type = "FUN"}
    IN  /\ funs = {} => Ascend("SLINE", lo, hi)
        /\ Ascend("FUN", lo, hi)
        /\ funs # {} => \E k \in funs : Stab[k].value <= Stab[lo].value
        /\ \A l, h \in lo .. hi : Section("FUN", l, h, hi) => FunLaidOut(l, h)

ASSUME StabLaidOut ==
    /\ Ascend("SO", 0, LastStab)
    /\ \A lo, hi \in Index : Section("SO", lo, hi, LastStab) => FileLaidOut(lo, hi)

VARIABLES
    phase,      \* which search is on: "file", "fun", "line"; "found", "fail"; "idle"
    eip,        \* the argument of debuginfo_eip
    srch,       \* the variables of stab_binsearch
    file,       \* lfile .. rfile, lfun .. rfun
    fun,
    info        \* *info

svars == <<phase, eip, srch, file, fun, info>>

Range0(l, r) == [left |-> l, right |-> r]

\* stab_binsearch(stabs, &left, &right, type, addr), as it begins
Search(left, right, type, addr) ==
    [left |-> left, right |-> right, l |-> left, r |-> right, any |-> FALSE,
     type |-> type, addr |-> addr]

NoInfo(addr) == [file |-> Unknown, line |-> 0, fn |-> Unknown, addr |-> addr, narg |-> 0]

NoSearch   == Search(0, LastStab, "SO", 0)
Nowhere    == Range0(0, 0)

StabsInit == /\ phase = "idle" /\ eip = 0 /\ srch = NoSearch
             /\ file = Nowhere /\ fun = Nowhere /\ info = NoInfo(0)

\* The variables go with the call.
StabsGone == /\ phase' = "idle" /\ eip' = 0 /\ srch' = NoSearch
             /\ file' = Nowhere /\ fun' = Nowhere /\ info' = NoInfo(0)

\* debuginfo_eip(addr): the whole table is searched for the file.
Debuginfo(addr) == /\ phase = "idle" /\ phase' = "file"
                   /\ eip' = addr
                   /\ srch' = Search(0, LastStab, "SO", addr)
                   /\ info' = NoInfo(addr)
                   /\ UNCHANGED <<file, fun>>

-----------------------------------------------------------------------------
\* Entries of the type searched for.
OfType(lo, hi) == {k \in lo .. hi : Stab[k].type = srch.type}

\* Faulty variant: after an exact match the search goes on for the same address.
SearchAgain(m, mid) ==
    CASE Stab[m].value < srch.addr -> [srch EXCEPT !.any = TRUE, !.left = m, !.l = mid + 1]
      [] Stab[m].value > srch.addr -> [srch EXCEPT !.any = TRUE, !.right = m - 1, !.r = m - 1]
      [] OTHER -> [srch EXCEPT !.any = TRUE, !.left = m, !.l = m]

\* After an exact match the search goes on for the right end of the region.
Narrowed(m, mid) ==
    CASE Stab[m].value < srch.addr -> [srch EXCEPT !.any = TRUE, !.left = m, !.l = mid + 1]
      [] Stab[m].value > srch.addr -> [srch EXCEPT !.any = TRUE, !.right = m - 1, !.r = m - 1]
      [] OTHER -> [srch EXCEPT !.any = TRUE, !.left = m, !.l = m, !.addr = @ + 1]

\* One iteration of the search.
Halve == /\ phase \in {"file", "fun", "line"} /\ srch.l <= srch.r
         /\ LET mid == (srch.l + srch.r) \div 2
                ms  == OfType(srch.l, mid)
            IN  srch' = IF ms = {} THEN [srch EXCEPT !.l = mid + 1]
                                   ELSE Narrowed(Max(ms), mid)
         /\ UNCHANGED <<phase, eip, file, fun, info>>

Rightmost == IF srch.right <= srch.left THEN Range0(srch.right, srch.right)
             ELSE Range0(Max({srch.left} \cup OfType(srch.left + 1, srch.right)), srch.right)

\* Faulty variant: a search that met no entry of the type reports its region.
ResultAlways == Rightmost

\* What the search leaves in *region_left and *region_right.
Result == IF srch.any THEN Rightmost ELSE Range0(srch.left, srch.left - 1)

Ended(p) == phase = p /\ srch.l > srch.r

-----------------------------------------------------------------------------
Fail == phase' = "fail" /\ UNCHANGED <<eip, srch, file, fun, info>>

\* lfile = 0 is how a search of the whole table says that it found nothing.
FileFound == /\ Ended("file")
             /\ IF Result.left = 0 THEN Fail
                ELSE /\ phase' = "fun" /\ file' = Result
                     /\ srch' = Search(Result.left, Result.right, "FUN", eip)
                     /\ UNCHANGED <<eip, fun, info>>

\* Lines of a function are relative to its address; a file without functions,
\* in assembler, is searched for the address itself.
FunFound == /\ Ended("fun") /\ phase' = "line" /\ fun' = Result
            /\ IF Result.left <= Result.right
               THEN LET f == Stab[Result.left]
                    IN  /\ info' = [info EXCEPT !.fn = f.name, !.addr = f.value]
                        /\ srch' = Search(Result.left, Result.right, "SLINE", eip - f.value)
               ELSE /\ srch' = Search(file.left, file.right, "SLINE", eip)
                    /\ UNCHANGED info
            /\ UNCHANGED <<eip, file>>

\* The entry that names the source: the last one in front of the line.
Names(k) == Stab[k].type = "SOL" \/ (Stab[k].type = "SO" /\ Stab[k].value # 0)
SourceOf(k) == LET ks == {j \in file.left .. k : Names(j)}
               IN  IF ks = {} THEN Unknown ELSE Stab[Max(ks)].name

\* Parameters are counted as long as they follow the function.
Narg == Cardinality({k \in fun.left + 1 .. fun.right - 1 :
                        \A j \in fun.left + 1 .. k : Stab[j].type = "PSYM"})

LineFound == /\ Ended("line")
             /\ IF Result.left > Result.right THEN Fail
                ELSE /\ phase' = "found"
                     /\ info' = [info EXCEPT !.line = Stab[Result.right].desc,
                                             !.file = SourceOf(Result.left),
                                             !.narg = Narg]
                     /\ UNCHANGED <<eip, srch, file, fun>>

DebugStep == Halve \/ FileFound \/ FunFound \/ LineFound
=============================================================================
