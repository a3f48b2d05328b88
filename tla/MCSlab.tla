------------------------------- MODULE MCSlab -------------------------------
(* Values of the constants of Slab for TLC: a cache with its descriptors on *)
(* the slab and one with its descriptors in objects of the first.           *)
EXTENDS Slab

MCCaches    == {0, 1}
MCDescCache == [c \in {1} |-> 0]
MCSlabPages == [c \in {0, 1} |-> c + 1]
MCObjs      == [c \in {0, 1} |-> IF c = 0 THEN 3 ELSE 2]

\* Few enough objects of the second cache that no more than MaxEmptySlabs of
\* its slabs exist, and enough to have more.
MCFewHeld  == [c \in {0, 1} |-> IF c = 0 THEN 7 ELSE 2]
MCManyHeld == [c \in {0, 1} |-> IF c = 0 THEN 1 ELSE 4]
=============================================================================
