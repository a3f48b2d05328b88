------------------------------- MODULE MCVmm --------------------------------
(* Values of the constants of Vmm for TLC. *)
EXTENDS Vmm

MCFlags == {{"READ", "STACK"}, {"READ", "WRITE"}}
=============================================================================
