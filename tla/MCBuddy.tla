------------------------------ MODULE MCBuddy ------------------------------
(* Values of the constants of Buddy for TLC. *)
EXTENDS Buddy

MCPow2 == [k \in 0 .. MaxOrder |-> 2 ^ k]
=============================================================================
