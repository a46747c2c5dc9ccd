----------------------------- MODULE MCGpPane -----------------------------
(* Instance of GpPane for TLC: a world of three pixels and three slots.      *)
EXTENDS GpPane

B(mode, src, dst, sx, dx, w) ==
  [mode |-> mode, src |-> src, dst |-> dst, sx |-> sx, dx |-> dx, w |-> w, value |-> 1]
\* Beyond either edge on either side, outside altogether, within one slot to
\* the right, to the left and onto itself, and clears that name a source.
MCBlits ==
  {B("copy", 0, 1, 0, 0, 3), B("copy", 2, 0, 0, -1, 3), B("copy", 0, 2, -1, 0, 3),
   B("transparent", 2, 0, 1, 0, 4), B("xor", 1, 2, 0, 1, 3), B("and", 0, 2, 1, -1, 2),
   B("copy", 0, 1, 5, 0, 2),
   B("copy", 0, 0, 0, 1, 2), B("xor", 0, 0, 1, 0, 2), B("or", 2, 2, 0, 0, 3),
   B("clear", 1, 0, -1, 0, 2), B("clear", 0, 0, 1, 1, 5)}

D(op, slot, x, w, colour) == [op |-> op, slot |-> slot, x |-> x, w |-> w, colour |-> colour]
MCDraws ==
  {D("cls", 0, 0, 0, 1), D("pset", 0, 1, 0, 1), D("pset", 0, -1, 0, 1), D("fill", 0, 1, 4, 0),
   D("load", 2, 0, 2, 1)}
===========================================================================
