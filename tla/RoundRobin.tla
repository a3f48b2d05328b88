----------------------------- MODULE RoundRobin -----------------------------
(***************************************************************************)
(* What the scheduler promises the threads: those that joined before it    *)
(* started take turns, in the order they joined, for ever.                 *)
(***************************************************************************)
EXTENDS Sequences, Naturals

CONSTANT Threads

VARIABLES order,    \* the thread whose turn it is, and then those that wait
          started

rrvars == <<order, started>>

RRInit == order = <<>> /\ started = FALSE

Join(t) == /\ ~started /\ \A k \in DOMAIN order : order[k] # t
           /\ order' = Append(order, t)
           /\ UNCHANGED started

Start == /\ ~started /\ order # <<>>
         /\ started' = TRUE
         /\ UNCHANGED order

Rotate == /\ started
          /\ order' = Append(Tail(order), Head(order))
          /\ UNCHANGED started

RRNext == (\E t \in Threads : Join(t)) \/ Start \/ Rotate

RRSafe == RRInit /\ [][RRNext]_rrvars

\* It begins, and turns go on for ever.
RRSpec == RRSafe /\ WF_rrvars(Start) /\ WF_rrvars(Rotate)
=============================================================================
