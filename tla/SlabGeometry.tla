---------------------------- MODULE SlabGeometry ----------------------------
(***************************************************************************)
(* How fill_empty_slot (kern/mm/slab.c) lays a slab out in its block, in   *)
(* bytes: room is the length of the block, size that of an object.  Where  *)
(* the descriptor shares the block, its length depends on the number of    *)
(* objects and the number of objects on its length; the code settles this  *)
(* with two divisions.                                                     *)
(***************************************************************************)
EXTENDS Naturals

CeilDiv(a, b) == (a + b - 1) \div b

\* sizeof(slab_t) with an obj_list of objs entries
SlabLen(objs) == 32 + 4 * (objs - 1)

Whole(room, size) == room \div size

\* The objects that make way for the descriptor of a full block, and those of
\* them that come back because the descriptor is then shorter.
HeaderObjs(room, size) == CeilDiv(SlabLen(Whole(room, size)), size)
AddObjs(room, size)    == (4 * HeaderObjs(room, size)) \div (4 + size)

\* objs, and the offset of slab->buff, of a slab that holds its descriptor
TotalObjs(room, size) ==
    Whole(room, size) - HeaderObjs(room, size) + AddObjs(room, size)
BuffOffset(room, size) == size * CeilDiv(SlabLen(TotalObjs(room, size)), size)
=============================================================================
