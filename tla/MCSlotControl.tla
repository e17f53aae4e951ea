--------------------------- MODULE MCSlotControl ---------------------------
(* Small instances of SlotControl: the factory blocks are the documented    *)
(* healthy pair, its mirror image, a slot with tries left next to a proven  *)
(* one, an empty slot, and equal priorities.                                *)
EXTENDS SlotControl

Meta(x, y) == [s \in Slots |-> IF s = "a" THEN x ELSE y]

MCFactoryMeta ==
    { Meta(Pack(15, 0, 1), Pack(14, 0, 1)),
      Meta(Pack(14, 0, 1), Pack(15, 7, 0)),
      Meta(Pack(0, 0, 0),  Pack(15, 0, 1)),
      Meta(Pack(7, 2, 1),  Pack(7, 0, 0)) }
=============================================================================
