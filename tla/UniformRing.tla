----------------------------- MODULE UniformRing -----------------------------
(***************************************************************************)
(* The dynamic area of a uniform buffer, a circular buffer (class          *)
(* UniformBuffers of graphics/Primitives.cpp).  A ring is a record of      *)
(* m_dynamic_free_offset and m_dynamic_used_size; its size is RingSize.    *)
(* Nothing says where the used part begins: a frame remembers the free     *)
(* offset after its last allocation as a mark, and when the frame is done  *)
(* everything up to the mark is free again.                                *)
(***************************************************************************)
EXTENDS Naturals

CONSTANT RingSize      \* m_dynamic_size, in units of the alignment

ASSUME RingSizeAssumption == RingSize \in Nat \ {0}

Ring(free, used) == [free |-> free, used |-> used]

EmptyRing == Ring(0, 0)

Rings == [free : 0 .. RingSize, used : 0 .. RingSize]

\* Mutant: the area is not cycled.
NeverWrapped(r, size) == r

(* The block does not fit behind the free offset: the rest of the area is  *)
(* marked as used and the allocation starts at the beginning.              *)
Wrapped(r, size) ==
  IF r.free + size > RingSize THEN Ring(0, r.used + (RingSize - r.free)) ELSE r

(* Otherwise allocate_dynamic_uniform throws: the area overflows. *)
Fits(r, size) == Wrapped(r, size).used + size <= RingSize

(* The offset it returns, and the ring after it. *)
OffsetOf(r, size) == Wrapped(r, size).free

\* Mutant: the free offset does not move.
AllocatedInPlace(r, size) ==
  Ring(Wrapped(r, size).free, Wrapped(r, size).used + size)

Allocated(r, size) ==
  Ring(Wrapped(r, size).free + size, Wrapped(r, size).used + size)

\* Mutant: the case of a cycled buffer is forgotten.
FreedToMarkUncycled(r, mark) ==
  Ring(r.free, IF mark <= r.free THEN r.free - mark ELSE 0)

(* free_dynamic_uniform_mark *)
FreedToMark(r, mark) ==
  Ring(r.free, IF mark <= r.free THEN r.free - mark
               ELSE RingSize - mark + r.free)

-----------------------------------------------------------------------------
(* How far a unit is behind the free offset, in the direction of the       *)
(* allocations: the last one allocated is 1 behind.  The used part are the *)
(* units at most m_dynamic_used_size behind.                               *)
Age(r, unit) ==
  IF unit < r.free THEN r.free - unit ELSE RingSize - unit + r.free

Units == 0 .. RingSize - 1

UsedUnits(r) == {x \in Units : Age(r, x) <= r.used}

(* The units of a block. *)
Block(offset, size) == offset .. offset + size - 1
=============================================================================
