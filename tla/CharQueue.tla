----------------------------- MODULE CharQueue ------------------------------
(***************************************************************************)
(* What console input promises: the characters typed on each device are    *)
(* taken in the order in which they were typed, each once.  Characters are *)
(* lost in two places only: in the one register of the serial port, and    *)
(* when one is fetched while Size - 1 are waiting, which loses them all.   *)
(***************************************************************************)
EXTENDS Sequences, Naturals

CONSTANTS Chars, NO, NONE, Size

VARIABLES typed,    \* characters typed and not yet fetched from the keyboard
          sent,     \* the character in the register of the serial port
          queue,    \* characters waiting
          taken     \* the result of the latest call

qvars == <<typed, sent, queue, taken>>

QInit == typed = <<>> /\ sent = NONE /\ queue = <<>> /\ taken = NO

Arrive == \/ /\ \E c \in Chars : typed' = Append(typed, c)
             /\ UNCHANGED <<sent, queue, taken>>
          \/ /\ sent' \in Chars
             /\ UNCHANGED <<typed, queue, taken>>

Wait(c) == queue' = IF Len(queue) < Size - 1 THEN Append(queue, c) ELSE <<>>

Fetch == \/ /\ typed # <<>> /\ typed' = Tail(typed)
            /\ Wait(Head(typed))
            /\ UNCHANGED <<sent, taken>>
         \/ /\ sent # NONE /\ sent' = NONE
            /\ Wait(sent)
            /\ UNCHANGED <<typed, taken>>

Take == /\ IF queue = <<>> THEN taken' = NO /\ UNCHANGED queue
           ELSE taken' = Head(queue) /\ queue' = Tail(queue)
        /\ UNCHANGED <<typed, sent>>

QSpec == QInit /\ [][Arrive \/ Fetch \/ Take]_qvars
=============================================================================
