-------------------------- MODULE PrimitivesProofs --------------------------
(***************************************************************************)
(* Proofs about the uniforms of drawn primitives: for every number of      *)
(* command buffers, every size of the ring and of the uniform, and every   *)
(* number of updates and draws, what a frame in flight allocated stays     *)
(* reserved, is not overwritten, and exists.                               *)
(*                                                                         *)
(* The argument is about ages.  Allocating makes all the used units of a   *)
(* ring older by the same amount and the new ones younger than them;       *)
(* freeing to a mark moves the end of the used part and no age.  A mark is *)
(* the age of the last unit before it, so it is enough that the marks are  *)
(* freed in the order of their ages and that the units of a frame are      *)
(* younger than the marks of the frames before it.                         *)
(*                                                                         *)
(* A draw of a uniform that did not change is bound to a block that is not *)
(* used any more.  That it is not written, and that the ring does not      *)
(* overflow, is shown by counting: in each place of the order in which the *)
(* command buffers are released, what was allocated since is bounded by    *)
(* the draws and updates of the frames from there on, and the ring has     *)
(* room for those of all the frames in flight.                             *)
(***************************************************************************)
EXTENDS Primitives, FramesProofs

-----------------------------------------------------------------------------
(* The ring. *)

LEMMA AgeRange == \A r \in Rings, x \in Units : Age(r, x) \in 1 .. RingSize
  BY RingSizeAssumption DEF Rings, Units, Age

(* What fits is allocated within the ring, behind the units wrapped over. *)
LEMMA AllocatedRing ==
  \A r \in Rings : Fits(r, UniformSize) =>
     /\ Allocated(r, UniformSize) \in Rings
     /\ Allocated(r, UniformSize).used >= r.used + UniformSize
     /\ OffsetOf(r, UniformSize) \in Units
     /\ OffsetOf(r, UniformSize) + UniformSize <= RingSize
     /\ Allocated(r, UniformSize).free = OffsetOf(r, UniformSize) + UniformSize
  BY RingSizeAssumption, UniformSizeAssumption
     DEF Rings, Units, Fits, Allocated, OffsetOf, Wrapped, Ring

(* All the used units age by what the used part grows. *)
LEMMA AgeShift ==
  \A r \in Rings, x \in Units :
     Fits(r, UniformSize) /\ Age(r, x) <= r.used =>
        Age(Allocated(r, UniformSize), x)
           = Age(r, x) + (Allocated(r, UniformSize).used - r.used)
  BY RingSizeAssumption, UniformSizeAssumption
     DEF Rings, Units, Fits, Allocated, Wrapped, Ring, Age

(* The new units are the youngest. *)
LEMMA NewBlockAge ==
  \A r \in Rings : Fits(r, UniformSize) =>
     \A x \in Block(OffsetOf(r, UniformSize), UniformSize) :
        x \in Units /\ Age(Allocated(r, UniformSize), x) <= UniformSize
  BY RingSizeAssumption, UniformSizeAssumption
     DEF Rings, Units, Fits, Allocated, OffsetOf, Wrapped, Ring, Age, Block

(* Freeing to a mark leaves the units younger than it, at their ages. *)
LEMMA FreedRing ==
  \A r \in Rings, m \in 1 .. RingSize : Age(r, m - 1) <= r.used =>
     /\ m - 1 \in Units
     /\ FreedToMark(r, m) \in Rings
     /\ FreedToMark(r, m).used = Age(r, m - 1) - 1
     /\ \A x \in Units : Age(FreedToMark(r, m), x) = Age(r, x)
  BY RingSizeAssumption DEF Rings, Units, FreedToMark, Ring, Age

-----------------------------------------------------------------------------
(* The invariant. *)

(* The order in which the buffers are released: the current one is the     *)
(* next until it is begun, and the last from then on.                      *)
Place(b) ==
  IF b = cur THEN IF step \in {"record", "present", "recreate"}
                  THEN CmdBufCount ELSE 0
  ELSE IF b > cur THEN b - cur ELSE b - cur + CmdBufCount

(* The marks of a buffer that is being released are freed one by one, and  *)
(* its draws are forgotten after them.                                     *)
Live(b) == ~(b = cur /\ step = "release")

(* The last unit a mark frees. *)
LastUnit(m) == m.offset - 1

(* Draws and marks are of generations that their command buffer keeps. *)
GensHeld ==
  \A b \in Bufs :
     /\ \A d \in draws[b] : d.gen \in held[b]
     /\ \A i \in DOMAIN marks[b] : marks[b][i].gen \in held[b]

(* What a mark frees has not been freed. *)
MarksUsed ==
  \A b \in Bufs : \A i \in DOMAIN marks[b] :
     LET m == marks[b][i] IN Age(ring[m.gen], LastUnit(m)) <= ring[m.gen].used

(* A mark that is freed earlier is older, in a buffer ... *)
MarksOrdered ==
  \A b \in Bufs : \A i, j \in DOMAIN marks[b] :
     i < j /\ marks[b][i].gen = marks[b][j].gen =>
        Age(ring[marks[b][i].gen], LastUnit(marks[b][j]))
           < Age(ring[marks[b][i].gen], LastUnit(marks[b][i]))

(* ... and between them. *)
BuffersOrdered ==
  \A b, c \in Bufs : Place(b) < Place(c) =>
     \A i \in DOMAIN marks[b] : \A j \in DOMAIN marks[c] :
        marks[b][i].gen = marks[c][j].gen =>
           Age(ring[marks[b][i].gen], LastUnit(marks[c][j]))
              < Age(ring[marks[b][i].gen], LastUnit(marks[b][i]))

(* What a draw allocated is used, and was not written again. *)
DrawsUsed ==
  \A b \in Bufs : Live(b) => \A d \in draws[b] : d.fresh =>
     /\ d.offset + UniformSize <= RingSize
     /\ ~d.torn
     /\ \A x \in Block(d.offset, UniformSize) :
           Age(ring[d.gen], x) <= ring[d.gen].used

(* It is younger than the marks of the buffers released before its own. *)
DrawsYounger ==
  \A b, c \in Bufs : Place(b) < Place(c) =>
     \A i \in DOMAIN marks[b] : \A d \in draws[c] :
        d.fresh /\ d.gen = marks[b][i].gen =>
           \A x \in Block(d.offset, UniformSize) :
              Age(ring[d.gen], x) < Age(ring[d.gen], LastUnit(marks[b][i]))

RingInv ==
  GensHeld /\ MarksUsed /\ MarksOrdered /\ BuffersOrdered /\ DrawsUsed
  /\ DrawsYounger

IInv == TypeOK /\ FramesInv /\ RingInv

-----------------------------------------------------------------------------
(* Facts about the state that the steps below need. *)

LEMMA MarkFacts ==
  ASSUME TypeOK
  PROVE  \A b \in Bufs : \A i \in DOMAIN marks[b] :
            /\ marks[b][i].gen \in Generations
            /\ marks[b][i].offset \in 1 .. RingSize
            /\ LastUnit(marks[b][i]) \in Units
            /\ ring[marks[b][i].gen] \in Rings
<1> TAKE b \in Bufs
<1> TAKE i \in DOMAIN marks[b]
<1>1. marks[b] \in Seq(Marks) /\ ring \in [Generations -> Rings]
  BY DEF TypeOK
<1>2. marks[b][i] \in Marks
  BY <1>1
<1> QED
  BY <1>1, <1>2, RingSizeAssumption DEF Marks, LastUnit, Units

LEMMA DrawFacts ==
  ASSUME TypeOK
  PROVE  \A b \in Bufs : \A d \in draws[b] :
            /\ d.gen \in Generations
            /\ d.offset \in Units
            /\ ring[d.gen] \in Rings
            /\ d.offset + UniformSize <= RingSize =>
                 Block(d.offset, UniformSize) \subseteq Units
  BY RingSizeAssumption, UniformSizeAssumption DEF TypeOK, Draws, Units, Block

LEMMA RingFacts == \A r \in Rings : r.used \in Nat /\ r.free \in Nat
  BY RingSizeAssumption DEF Rings
(* The current buffer is first or last, the others are between. *)
LEMMA Places ==
  ASSUME TypeOK
  PROVE  /\ \A b \in Bufs : Place(b) \in 0 .. CmdBufCount
         /\ \A b \in Bufs : b # cur => Place(b) \in 1 .. CmdBufCount - 1
         /\ Place(cur) \in {0, CmdBufCount}
  BY CmdBufCountAssumption DEF TypeOK, FramesTypeOK, Bufs, Place

(* What copy_updated_uniforms does to the ages. *)
LEMMA CopyAges ==
  ASSUME TypeOK, NEW u, CopyUpdated(u)
  PROVE  /\ prim.gen \in Generations
         /\ prim'.offset \in Units
         /\ prim'.offset + UniformSize <= RingSize
         /\ ring' \in [Generations -> Rings]
         /\ \A h \in Generations : \A x \in Units :
               Age(ring[h], x) <= ring[h].used =>
                  Age(ring'[h], x)
                     = Age(ring[h], x) + (ring'[h].used - ring[h].used)
         /\ \A h \in Generations : ring'[h].used >= ring[h].used
         /\ ring'[prim.gen].used >= ring[prim.gen].used + UniformSize
         /\ \A x \in Block(prim'.offset, UniformSize) :
               x \in Units /\ Age(ring'[prim.gen], x) <= UniformSize
         /\ ring'[prim.gen].free = prim'.offset + UniformSize
<1> DEFINE g == prim.gen
           r == ring[g]
<1>1. /\ g \in Generations
      /\ r \in Rings
      /\ Fits(r, UniformSize)
      /\ prim'.offset = OffsetOf(r, UniformSize)
      /\ ring' = [ring EXCEPT ![g] = Allocated(r, UniformSize)]
      /\ ring \in [Generations -> Rings]
  BY DEF TypeOK, Prims, CopyUpdated, Prim
<1>2. /\ ring'[g] = Allocated(r, UniformSize)
      /\ \A h \in Generations : h # g => ring'[h] = ring[h]
  BY <1>1
<1>3. /\ Allocated(r, UniformSize) \in Rings
      /\ Allocated(r, UniformSize).used >= r.used + UniformSize
      /\ OffsetOf(r, UniformSize) \in Units
      /\ OffsetOf(r, UniformSize) + UniformSize <= RingSize
      /\ Allocated(r, UniformSize).free = OffsetOf(r, UniformSize) + UniformSize
  BY <1>1, AllocatedRing
<1>4. ring' \in [Generations -> Rings]
  BY <1>1, <1>3
<1>5. ASSUME NEW h \in Generations, NEW x \in Units,
             Age(ring[h], x) <= ring[h].used
      PROVE  Age(ring'[h], x)
                = Age(ring[h], x) + (ring'[h].used - ring[h].used)
  <2>1. CASE h = g
    BY <1>1, <1>2, <1>5, <2>1, AgeShift
  <2>2. CASE h # g
    <3>1. ring'[h] = ring[h] /\ ring[h] \in Rings
      BY <1>1, <1>2, <2>2
    <3>2. Age(ring[h], x) \in Nat /\ ring[h].used \in Nat
      BY <3>1, AgeRange, RingFacts
    <3> QED
      BY <3>1, <3>2
  <2> QED
    BY <2>1, <2>2
<1>6. ASSUME NEW h \in Generations
      PROVE  ring'[h].used >= ring[h].used
  <2>1. ring[h].used \in Nat /\ ring'[h].used \in Nat
    BY <1>1, <1>4, RingFacts
  <2> QED
    BY <1>1, <1>2, <1>3, <2>1, UniformSizeAssumption
<1>7. \A x \in Block(prim'.offset, UniformSize) :
         x \in Units /\ Age(ring'[g], x) <= UniformSize
  BY <1>1, <1>2, NewBlockAge
<1> QED
  BY <1>1, <1>2, <1>3, <1>4, <1>5, <1>6, <1>7

(* After it, whatever was used before is used, at the same distances, and  *)
(* is older than the new block, which it does not touch.                   *)
LEMMA CopyKeeps ==
  ASSUME TypeOK, NEW u, CopyUpdated(u),
         NEW h \in Generations, NEW x \in Units,
         Age(ring[h], x) <= ring[h].used
  PROVE  /\ Age(ring'[h], x) <= ring'[h].used
         /\ \A y \in Units : Age(ring[h], y) <= ring[h].used =>
               (Age(ring[h], y) < Age(ring[h], x)
                  => Age(ring'[h], y) < Age(ring'[h], x))
         /\ h = prim.gen => /\ Age(ring'[h], x) > UniformSize
                            /\ x \notin Block(prim'.offset, UniformSize)
<1>1. ring[h] \in Rings /\ ring'[h] \in Rings
  BY CopyAges DEF TypeOK
<1>2. \A y \in Units : Age(ring[h], y) \in 1 .. RingSize
                       /\ Age(ring'[h], y) \in 1 .. RingSize
  BY <1>1, AgeRange
<1>3. ring[h].used \in Nat /\ ring'[h].used \in Nat
  BY <1>1, RingFacts
<1>4. \A y \in Units : Age(ring[h], y) <= ring[h].used =>
         Age(ring'[h], y) = Age(ring[h], y) + (ring'[h].used - ring[h].used)
  BY CopyAges
<1>5. Age(ring'[h], x) <= ring'[h].used
  BY <1>2, <1>3, <1>4
<1>6. \A y \in Units : Age(ring[h], y) <= ring[h].used =>
         (Age(ring[h], y) < Age(ring[h], x)
            => Age(ring'[h], y) < Age(ring'[h], x))
  BY <1>2, <1>3, <1>4
<1>7. ASSUME h = prim.gen
      PROVE  /\ Age(ring'[h], x) > UniformSize
             /\ x \notin Block(prim'.offset, UniformSize)
  <2>1. ring'[h].used >= ring[h].used + UniformSize
    BY <1>7, CopyAges
  <2>2. Age(ring'[h], x) > UniformSize
    BY <1>2, <1>3, <1>4, <2>1, UniformSizeAssumption
  <2> QED
    BY <1>2, <1>7, <2>2, CopyAges, UniformSizeAssumption
<1> QED
  BY <1>5, <1>6, <1>7

(* The draw d is e after a write of the block at o of generation g: if     *)
(* that tore it, a unit of the block is its own.                           *)
WrittenFrom(d, e, g, o) ==
  /\ d.gen = e.gen /\ d.offset = e.offset /\ d.own = e.own /\ d.fresh = e.fresh
  /\ d.torn => \/ e.torn
               \/ /\ e.gen = g
                  /\ \E x \in Block(o, UniformSize) :
                        x \in Block(e.offset, UniformSize)

LEMMA WrittenDraws ==
  TypeOK =>
     \A g : \A o \in Nat : \A b \in Bufs : \A d \in Written(g, o)[b] :
        \E e \in draws[b] : WrittenFrom(d, e, g, o)
<1> HAVE TypeOK
<1> TAKE g
<1> TAKE o \in Nat
<1> TAKE b \in Bufs
<1> TAKE d \in Written(g, o)[b]
<1>1. PICK e \in draws[b] : d = TornBy(e, g, o)
  BY DEF Written
<1>2. e.offset \in Nat
  BY DrawFacts DEF Units
<1>3. Overlap(e.offset, o) =>
         \E x \in Block(o, UniformSize) : x \in Block(e.offset, UniformSize)
  <2> SUFFICES ASSUME Overlap(e.offset, o)
               PROVE  \E x \in Block(o, UniformSize) :
                         x \in Block(e.offset, UniformSize)
    OBVIOUS
  <2>1. CASE e.offset <= o
    <3>1. o \in Block(o, UniformSize) /\ o \in Block(e.offset, UniformSize)
      BY <1>2, <2>1, UniformSizeAssumption DEF Overlap, Block
    <3> QED
      BY <3>1
  <2>2. CASE o < e.offset
    <3>1. e.offset \in Block(o, UniformSize)
          /\ e.offset \in Block(e.offset, UniformSize)
      BY <1>2, <2>2, UniformSizeAssumption DEF Overlap, Block
    <3> QED
      BY <3>1
  <2> QED
    BY <1>2, <2>1, <2>2
<1> QED
  BY <1>1, <1>3 DEF TornBy, Draw, WrittenFrom
-----------------------------------------------------------------------------
(* The steps. *)

(* Steps that change no ring in use, add no mark and no draw that          *)
(* allocated, and release no buffer out of order.                          *)
LEMMA Unmoved ==
  ASSUME TypeOK, RingInv, GensHeld',
         \A b, c \in Bufs :
            Place(b)' < Place(c)' /\ (marks'[c] # <<>> \/ draws'[c] # {})
               => Place(b) < Place(c),
         \A b \in Bufs : marks'[b] = marks[b],
         \A b \in Bufs : \A d \in draws'[b] : d.fresh =>
            \E e \in draws[b] : /\ e.fresh /\ e.gen = d.gen
                                /\ e.offset = d.offset
                                /\ d.torn => e.torn,
         \A b \in Bufs : \A h \in held'[b] : ring'[h] = ring[h],
         \A b \in Bufs : Live(b)' /\ draws'[b] # {} => Live(b)
  PROVE  RingInv'
<1>1. \A b \in Bufs : \A i \in DOMAIN marks'[b] :
         ring'[marks[b][i].gen] = ring[marks[b][i].gen]
  BY DEF GensHeld
<1>2. \A b \in Bufs : \A d \in draws'[b] : ring'[d.gen] = ring[d.gen]
  BY DEF GensHeld
<1>3. MarksUsed'
  BY <1>1 DEF RingInv, MarksUsed, LastUnit
<1>4. MarksOrdered'
  BY <1>1 DEF RingInv, MarksOrdered, LastUnit
<1>5. BuffersOrdered'
  <2> SUFFICES ASSUME NEW b \in Bufs, NEW c \in Bufs, Place(b)' < Place(c)',
                      NEW i \in DOMAIN marks'[b], NEW j \in DOMAIN marks'[c],
                      marks'[b][i].gen = marks'[c][j].gen
               PROVE  Age(ring'[marks'[b][i].gen], LastUnit(marks'[c][j]))
                        < Age(ring'[marks'[b][i].gen], LastUnit(marks'[b][i]))
    BY DEF BuffersOrdered, LastUnit
  <2>1. marks[c] \in Seq(Marks) /\ marks'[c] = marks[c]
    BY DEF TypeOK
  <2>2. marks'[c] # <<>>
    BY <2>1
  <2>3. Place(b) < Place(c)
    BY <2>2
  <2> QED
    BY <1>1, <2>3 DEF RingInv, BuffersOrdered
<1>6. DrawsUsed'
  <2> SUFFICES ASSUME NEW b \in Bufs, Live(b)', NEW d \in draws'[b], d.fresh
               PROVE  /\ d.offset + UniformSize <= RingSize
                      /\ ~d.torn
                      /\ \A x \in Block(d.offset, UniformSize) :
                            Age(ring'[d.gen], x) <= ring'[d.gen].used
    BY DEF DrawsUsed
  <2>1. Live(b)
    OBVIOUS
  <2>2. PICK e \in draws[b] : /\ e.fresh /\ e.gen = d.gen
                              /\ e.offset = d.offset /\ (d.torn => e.torn)
    OBVIOUS
  <2> QED
    BY <1>2, <2>1, <2>2 DEF RingInv, DrawsUsed
<1>7. DrawsYounger'
  <2> SUFFICES ASSUME NEW b \in Bufs, NEW c \in Bufs, Place(b)' < Place(c)',
                      NEW i \in DOMAIN marks'[b], NEW d \in draws'[c],
                      d.fresh, d.gen = marks'[b][i].gen,
                      NEW x \in Block(d.offset, UniformSize)
               PROVE  Age(ring'[d.gen], x)
                        < Age(ring'[d.gen], LastUnit(marks'[b][i]))
    BY DEF DrawsYounger, LastUnit
  <2>1. Place(b) < Place(c)
    OBVIOUS
  <2>2. PICK e \in draws[c] : e.fresh /\ e.gen = d.gen /\ e.offset = d.offset
    OBVIOUS
  <2>3. marks'[b] = marks[b] /\ i \in DOMAIN marks[b]
    OBVIOUS
  <2>4. ring'[d.gen] = ring[d.gen]
    BY <1>2
  <2>5. DrawsYounger
    BY DEF RingInv
  <2>6. Age(ring[e.gen], x) < Age(ring[e.gen], LastUnit(marks[b][i]))
    BY <2>1, <2>2, <2>3, <2>5 DEF DrawsYounger
  <2> QED
    BY <2>2, <2>3, <2>4, <2>6
<1> QED
  BY <1>3, <1>4, <1>5, <1>6, <1>7 DEF RingInv

(* The marks stay in order when their generation is allocated from. *)
LEMMA CopyMarks ==
  ASSUME TypeOK, RingInv, NEW u, CopyUpdated(u)
  PROVE  /\ \A b \in Bufs : \A i \in DOMAIN marks[b] :
               Age(ring'[marks[b][i].gen], LastUnit(marks[b][i]))
                  <= ring'[marks[b][i].gen].used
         /\ \A b \in Bufs : \A i \in DOMAIN marks[b] :
               marks[b][i].gen = prim.gen =>
                  Age(ring'[prim.gen], LastUnit(marks[b][i])) > UniformSize
         /\ \A b, c \in Bufs : \A i \in DOMAIN marks[b] : \A j \in DOMAIN marks[c] :
               /\ marks[b][i].gen = marks[c][j].gen
               /\ Place(b) < Place(c) \/ (b = c /\ i < j)
               => Age(ring'[marks[b][i].gen], LastUnit(marks[c][j]))
                    < Age(ring'[marks[b][i].gen], LastUnit(marks[b][i]))
<1>1. ASSUME NEW b \in Bufs, NEW i \in DOMAIN marks[b]
      PROVE  /\ marks[b][i].gen \in Generations
             /\ LastUnit(marks[b][i]) \in Units
             /\ Age(ring[marks[b][i].gen], LastUnit(marks[b][i]))
                  <= ring[marks[b][i].gen].used
  BY MarkFacts DEF RingInv, MarksUsed
<1>2. ASSUME NEW b \in Bufs, NEW i \in DOMAIN marks[b]
      PROVE  /\ Age(ring'[marks[b][i].gen], LastUnit(marks[b][i]))
                  <= ring'[marks[b][i].gen].used
             /\ marks[b][i].gen = prim.gen =>
                  Age(ring'[prim.gen], LastUnit(marks[b][i])) > UniformSize
  BY <1>1, CopyKeeps
<1>3. ASSUME NEW b \in Bufs, NEW c \in Bufs,
             NEW i \in DOMAIN marks[b], NEW j \in DOMAIN marks[c],
             marks[b][i].gen = marks[c][j].gen,
             Place(b) < Place(c) \/ (b = c /\ i < j)
      PROVE  Age(ring'[marks[b][i].gen], LastUnit(marks[c][j]))
               < Age(ring'[marks[b][i].gen], LastUnit(marks[b][i]))
  <2>1. Age(ring[marks[b][i].gen], LastUnit(marks[c][j]))
          < Age(ring[marks[b][i].gen], LastUnit(marks[b][i]))
    BY <1>3 DEF RingInv, MarksOrdered, BuffersOrdered
  <2>2. Age(ring[marks[b][i].gen], LastUnit(marks[c][j]))
          <= ring[marks[b][i].gen].used
    BY <1>1, <1>3
  <2> QED
    BY <1>1, <2>1, <2>2, CopyKeeps
<1> QED
  BY <1>2, <1>3

(* The draws that allocated before stay used, untorn and young. *)
LEMMA CopyDraws ==
  ASSUME TypeOK, RingInv, NEW u, CopyUpdated(u), \A b \in Bufs : Live(b),
         NEW c \in Bufs, NEW d \in Written(prim.gen, prim'.offset)[c], d.fresh
  PROVE  /\ d.gen \in Generations
         /\ d.offset + UniformSize <= RingSize
         /\ ~d.torn
         /\ \A x \in Block(d.offset, UniformSize) :
               Age(ring'[d.gen], x) <= ring'[d.gen].used
         /\ \A b \in Bufs : \A i \in DOMAIN marks[b] :
               Place(b) < Place(c) /\ d.gen = marks[b][i].gen =>
                  \A x \in Block(d.offset, UniformSize) :
                     Age(ring'[d.gen], x)
                        < Age(ring'[d.gen], LastUnit(marks[b][i]))
<1>1. prim'.offset \in Nat
  BY CopyAges DEF Units
<1>2. PICK e \in draws[c] : WrittenFrom(d, e, prim.gen, prim'.offset)
  BY <1>1, WrittenDraws
<1> USE DEF WrittenFrom
<1>3. /\ e.offset + UniformSize <= RingSize
      /\ ~e.torn
      /\ \A x \in Block(e.offset, UniformSize) :
            Age(ring[e.gen], x) <= ring[e.gen].used
  BY <1>2 DEF RingInv, DrawsUsed
<1>4. e.gen \in Generations
      /\ \A x \in Block(e.offset, UniformSize) : x \in Units
  BY <1>2, <1>3, DrawFacts
<1>5. \A x \in Block(e.offset, UniformSize) :
         /\ Age(ring'[e.gen], x) <= ring'[e.gen].used
         /\ e.gen = prim.gen => x \notin Block(prim'.offset, UniformSize)
  BY <1>3, <1>4, CopyKeeps
<1>6. ~d.torn
  BY <1>2, <1>3, <1>5
<1>7. ASSUME NEW b \in Bufs, NEW i \in DOMAIN marks[b],
             Place(b) < Place(c), e.gen = marks[b][i].gen,
             NEW x \in Block(e.offset, UniformSize)
      PROVE  Age(ring'[e.gen], x) < Age(ring'[e.gen], LastUnit(marks[b][i]))
  <2>1. Age(ring[e.gen], x) < Age(ring[e.gen], LastUnit(marks[b][i]))
    BY <1>2, <1>7 DEF RingInv, DrawsYounger
  <2>2. LastUnit(marks[b][i]) \in Units
        /\ Age(ring[e.gen], LastUnit(marks[b][i])) <= ring[e.gen].used
    BY <1>7, MarkFacts DEF RingInv, MarksUsed
  <2> QED
    BY <1>3, <1>4, <2>1, <2>2, CopyKeeps
<1> QED
  BY <1>2, <1>3, <1>4, <1>5, <1>6, <1>7

LEMMA UpdateRing ==
  ASSUME TypeOK, RingInv, Update
  PROVE  RingInv'
<1>1. CopyUpdated(TRUE) /\ UNCHANGED <<step, cur, marks, held>>
      /\ draws' = Written(prim.gen, prim'.offset)
  BY DEF Update, frameVars
<1>2. \A b \in Bufs : Live(b)
  BY DEF Update, Live
<1>3. \A b \in Bufs : Place(b)' = Place(b)
  BY <1>1 DEF Place
<1>4. GensHeld'
  <2>0. prim'.offset \in Units
    BY <1>1, CopyAges
  <2>1. prim'.offset \in Nat
    BY <2>0 DEF Units
  <2>2. \A b \in Bufs : \A d \in draws'[b] :
           \E e \in draws[b] : WrittenFrom(d, e, prim.gen, prim'.offset)
    BY <1>1, <2>1, WrittenDraws
  <2> QED
    BY <1>1, <2>2 DEF RingInv, GensHeld, WrittenFrom
<1>5. MarksUsed' /\ MarksOrdered' /\ BuffersOrdered'
  BY <1>1, <1>3, CopyMarks DEF MarksUsed, MarksOrdered, BuffersOrdered, LastUnit
<1>6. DrawsUsed'
  BY <1>1, <1>2, CopyDraws DEF DrawsUsed
<1>7. DrawsYounger'
  BY <1>1, <1>2, <1>3, CopyDraws DEF DrawsYounger, LastUnit
<1> QED
  BY <1>4, <1>5, <1>6, <1>7 DEF RingInv

(* The draw of the frame that is recorded: its buffer is released after    *)
(* all the others, and its mark is the youngest.                           *)
LEMMA DrawUpdatedRing ==
  ASSUME TypeOK, RingInv, DrawUpdated
  PROVE  RingInv'
<1> DEFINE g == prim.gen
           new == Draw(g, prim'.offset, TRUE, TRUE, FALSE)
           mark == Mark(g, ring'[g].free)
<1>1. /\ CopyUpdated(FALSE)
      /\ step = "record" /\ UNCHANGED <<step, cur>>
      /\ cur \in Bufs
      /\ draws \in [Bufs -> SUBSET Draws]
      /\ held \in [Bufs -> SUBSET Generations]
      /\ marks \in [Bufs -> Seq(Marks)]
      /\ held' = [held EXCEPT ![cur] = held[cur] \cup {g}]
      /\ marks' = [marks EXCEPT ![cur] = Append(marks[cur], mark)]
  BY DEF TypeOK, FramesTypeOK, DrawUpdated, CountDraw, frameVars, Keep, WillFree
<1>2. \A b \in Bufs : Live(b)
  BY <1>1 DEF Live
<1>3. /\ \A b \in Bufs : Place(b)' = Place(b)
      /\ \A b, c \in Bufs : Place(b) < Place(c) => b # cur
  BY <1>1, Places, CmdBufCountAssumption DEF Place
<1>4. \A b \in Bufs : \A d \in draws'[b] :
         d \in Written(g, prim'.offset)[b] \/ (b = cur /\ d = new)
  BY <1>1 DEF DrawUpdated, Written
<1>5. /\ g \in Generations
      /\ prim'.offset \in Units
      /\ prim'.offset + UniformSize <= RingSize
      /\ ring'[g].free = prim'.offset + UniformSize
      /\ \A x \in Block(prim'.offset, UniformSize) :
            x \in Units /\ Age(ring'[g], x) <= UniformSize
  BY <1>1, CopyAges
<1>6. LastUnit(mark) \in Block(prim'.offset, UniformSize)
  BY <1>5, UniformSizeAssumption DEF Mark, LastUnit, Block, Units
<1>7. ring'[g].used \in Nat /\ UniformSize <= ring'[g].used
  <2>1. ring'[g].used >= ring[g].used + UniformSize
    BY <1>1, CopyAges
  <2>2. ring[g].used \in Nat /\ ring'[g].used \in Nat
    BY <1>1, <1>5, CopyAges, RingFacts DEF TypeOK
  <2> QED
    BY <2>1, <2>2, UniformSizeAssumption
<1>0. \A x \in Units : Age(ring'[g], x) \in Nat
  <2>1. ring'[g] \in Rings
    BY <1>1, <1>5, CopyAges
  <2> QED
    BY <2>1, AgeRange
<1>8. \A x \in Block(prim'.offset, UniformSize) :
         Age(ring'[g], x) \in Nat /\ Age(ring'[g], x) <= ring'[g].used
  BY <1>0, <1>5, <1>7, UniformSizeAssumption
<1>9. /\ \A b \in Bufs : b # cur => marks'[b] = marks[b]
      /\ DOMAIN marks[cur] = 1 .. Len(marks[cur])
      /\ Len(marks[cur]) \in Nat
      /\ DOMAIN marks'[cur] = 1 .. Len(marks[cur]) + 1
      /\ \A i \in 1 .. Len(marks[cur]) : marks'[cur][i] = marks[cur][i]
      /\ marks'[cur][Len(marks[cur]) + 1] = mark
  BY <1>1
<1>10. mark.gen = g
  BY DEF Mark
<1>11. \A b \in Bufs : \A i \in DOMAIN marks'[b] :
          \/ i \in DOMAIN marks[b] /\ marks'[b][i] = marks[b][i]
          \/ b = cur /\ i = Len(marks[cur]) + 1 /\ marks'[b][i] = mark
  BY <1>9
<1>12. GensHeld'
  <2>1. prim'.offset \in Nat
    BY <1>5 DEF Units
  <2>2. \A b \in Bufs : \A d \in Written(g, prim'.offset)[b] :
           \E e \in draws[b] : WrittenFrom(d, e, g, prim'.offset)
    BY <2>1, WrittenDraws
  <2>3. \A b \in Bufs : held[b] \subseteq held'[b]
    BY <1>1
  <2>4. g \in held'[cur]
    BY <1>1
  <2>5. new.gen = g
    BY DEF Draw
  <2>6. \A b \in Bufs : \A d \in draws'[b] : d.gen \in held'[b]
    BY <1>4, <2>2, <2>3, <2>4, <2>5 DEF RingInv, GensHeld, WrittenFrom
  <2>7. \A b \in Bufs : \A i \in DOMAIN marks'[b] : marks'[b][i].gen \in held'[b]
    BY <1>10, <1>11, <2>3, <2>4 DEF RingInv, GensHeld
  <2> QED
    BY <2>6, <2>7 DEF GensHeld
<1>13. MarksUsed'
  <2> SUFFICES ASSUME NEW b \in Bufs, NEW i \in DOMAIN marks'[b]
               PROVE  Age(ring'[marks'[b][i].gen], LastUnit(marks'[b][i]))
                         <= ring'[marks'[b][i].gen].used
    BY DEF MarksUsed, LastUnit
  <2>1. CASE i \in DOMAIN marks[b] /\ marks'[b][i] = marks[b][i]
    BY <1>1, <2>1, CopyMarks
  <2>2. CASE marks'[b][i] = mark
    BY <1>6, <1>8, <1>10, <2>2
  <2> QED
    BY <1>11, <2>1, <2>2
<1>14. \A b \in Bufs : \A i \in DOMAIN marks[b] : marks[b][i].gen = g =>
          Age(ring'[g], LastUnit(mark)) < Age(ring'[g], LastUnit(marks[b][i]))
  <2> TAKE b \in Bufs
  <2> TAKE i \in DOMAIN marks[b]
  <2> HAVE marks[b][i].gen = g
  <2>1. Age(ring'[g], LastUnit(marks[b][i])) > UniformSize
    BY <1>1, CopyMarks
  <2>2. Age(ring'[g], LastUnit(mark)) <= UniformSize
        /\ Age(ring'[g], LastUnit(mark)) \in Nat
    BY <1>5, <1>6, <1>8
  <2>3. Age(ring'[g], LastUnit(marks[b][i])) \in Nat
    BY <1>0, MarkFacts
  <2> QED
    BY <2>1, <2>2, <2>3, UniformSizeAssumption
<1>15. MarksOrdered'
  <2> SUFFICES ASSUME NEW b \in Bufs, NEW i \in DOMAIN marks'[b],
                      NEW j \in DOMAIN marks'[b], i < j,
                      marks'[b][i].gen = marks'[b][j].gen
               PROVE  Age(ring'[marks'[b][i].gen], LastUnit(marks'[b][j]))
                        < Age(ring'[marks'[b][i].gen], LastUnit(marks'[b][i]))
    BY DEF MarksOrdered, LastUnit
  <2>1. i \in DOMAIN marks[b] /\ marks'[b][i] = marks[b][i]
    BY <1>9, <1>11
  <2>2. CASE j \in DOMAIN marks[b] /\ marks'[b][j] = marks[b][j]
    BY <1>1, <2>1, <2>2, CopyMarks
  <2>3. CASE marks'[b][j] = mark
    BY <1>10, <1>14, <2>1, <2>3
  <2> QED
    BY <1>11, <2>2, <2>3
<1>16. BuffersOrdered'
  <2> SUFFICES ASSUME NEW b \in Bufs, NEW c \in Bufs, Place(b)' < Place(c)',
                      NEW i \in DOMAIN marks'[b], NEW j \in DOMAIN marks'[c],
                      marks'[b][i].gen = marks'[c][j].gen
               PROVE  Age(ring'[marks'[b][i].gen], LastUnit(marks'[c][j]))
                        < Age(ring'[marks'[b][i].gen], LastUnit(marks'[b][i]))
    BY DEF BuffersOrdered, LastUnit
  <2>1. Place(b) < Place(c) /\ i \in DOMAIN marks[b]
        /\ marks'[b][i] = marks[b][i]
    BY <1>3, <1>9
  <2>2. CASE j \in DOMAIN marks[c] /\ marks'[c][j] = marks[c][j]
    BY <1>1, <2>1, <2>2, CopyMarks
  <2>3. CASE marks'[c][j] = mark
    BY <1>10, <1>14, <2>1, <2>3
  <2> QED
    BY <1>11, <2>2, <2>3
<1>17. /\ new.gen = g /\ new.offset = prim'.offset /\ ~new.torn
  BY DEF Draw
<1>18. DrawsUsed'
  <2> SUFFICES ASSUME NEW b \in Bufs, NEW d \in draws'[b], d.fresh
               PROVE  /\ d.offset + UniformSize <= RingSize
                      /\ ~d.torn
                      /\ \A x \in Block(d.offset, UniformSize) :
                            Age(ring'[d.gen], x) <= ring'[d.gen].used
    BY DEF DrawsUsed
  <2>1. CASE d \in Written(g, prim'.offset)[b]
    BY <1>1, <1>2, <2>1, CopyDraws
  <2>2. CASE d = new
    BY <1>5, <1>8, <1>17, <2>2
  <2> QED
    BY <1>4, <2>1, <2>2
<1>19. DrawsYounger'
  <2> SUFFICES ASSUME NEW b \in Bufs, NEW c \in Bufs, Place(b)' < Place(c)',
                      NEW i \in DOMAIN marks'[b], NEW d \in draws'[c],
                      d.fresh, d.gen = marks'[b][i].gen,
                      NEW x \in Block(d.offset, UniformSize)
               PROVE  Age(ring'[d.gen], x)
                        < Age(ring'[d.gen], LastUnit(marks'[b][i]))
    BY DEF DrawsYounger, LastUnit
  <2>1. Place(b) < Place(c) /\ i \in DOMAIN marks[b]
        /\ marks'[b][i] = marks[b][i]
    BY <1>3, <1>9
  <2>2. CASE d \in Written(g, prim'.offset)[c]
    BY <1>1, <1>2, <2>1, <2>2, CopyDraws
  <2>3. CASE d = new
    <3>1. Age(ring'[g], LastUnit(marks[b][i])) > UniformSize
      BY <1>1, <1>17, <2>1, <2>3, CopyMarks
    <3>2. Age(ring'[g], LastUnit(marks[b][i])) \in Nat
      BY <1>0, <2>1, MarkFacts
    <3>3. Age(ring'[g], x) <= UniformSize /\ Age(ring'[g], x) \in Nat
      BY <1>5, <1>8, <1>17, <2>3
    <3>4. Age(ring'[g], x) < Age(ring'[g], LastUnit(marks[b][i]))
      BY <3>1, <3>2, <3>3, UniformSizeAssumption
    <3> QED
      BY <1>17, <2>1, <2>3, <3>4
  <2> QED
    BY <1>4, <2>2, <2>3
<1> QED
  BY <1>12, <1>13, <1>15, <1>16, <1>18, <1>19 DEF RingInv

(* The mark that is freed is the oldest of its generation, and older than  *)
(* what any frame but the one that is released allocated.                  *)
LEMMA FreeMarkRing ==
  ASSUME TypeOK, RingInv, FreeMark
  PROVE  RingInv'
<1> DEFINE m == Head(marks[cur])
           g == m.gen
<1>1. /\ step = "release" /\ UNCHANGED <<step, cur, draws, held>>
      /\ cur \in Bufs
      /\ marks \in [Bufs -> Seq(Marks)]
      /\ ring \in [Generations -> Rings]
      /\ marks[cur] \in Seq(Marks) /\ marks[cur] # <<>>
      /\ ring' = [ring EXCEPT ![g] = FreedToMark(ring[g], m.offset)]
      /\ marks' = [marks EXCEPT ![cur] = Tail(marks[cur])]
  BY DEF TypeOK, FramesTypeOK, FreeMark, frameVars
<1>2. /\ \A b \in Bufs : b # cur => marks'[b] = marks[b]
      /\ DOMAIN marks[cur] = 1 .. Len(marks[cur])
      /\ Len(marks[cur]) \in Nat \ {0}
      /\ m = marks[cur][1]
      /\ DOMAIN marks'[cur] = 1 .. Len(marks[cur]) - 1
      /\ \A i \in 1 .. Len(marks[cur]) - 1 : marks'[cur][i] = marks[cur][i + 1]
  BY <1>1
<1>3. 1 \in DOMAIN marks[cur]
  BY <1>2
<1>4. /\ g \in Generations
      /\ m.offset \in 1 .. RingSize
      /\ Age(ring[g], m.offset - 1) <= ring[g].used
      /\ ring[g] \in Rings
  BY <1>1, <1>2, <1>3, MarkFacts DEF RingInv, MarksUsed, LastUnit
<1>5. /\ m.offset - 1 \in Units
      /\ ring'[g] \in Rings
      /\ ring'[g].used = Age(ring[g], m.offset - 1) - 1
      /\ \A x \in Units : Age(ring'[g], x) = Age(ring[g], x)
  BY <1>1, <1>4, FreedRing
<1>6. \A h \in Generations : h # g => ring'[h] = ring[h]
  BY <1>1
<1>7. \A h \in Generations : \A x \in Units : Age(ring'[h], x) = Age(ring[h], x)
  BY <1>5, <1>6
<1>8. \A x \in Units : Age(ring[g], x) < Age(ring[g], m.offset - 1)
         => Age(ring'[g], x) <= ring'[g].used
  <2> TAKE x \in Units
  <2>1. Age(ring[g], x) \in Nat /\ Age(ring[g], m.offset - 1) \in Nat
    BY <1>4, <1>5, AgeRange
  <2> QED
    BY <1>5, <2>1
<1>9. /\ \A b \in Bufs : Place(b)' = Place(b)
      /\ \A b \in Bufs : b # cur => Place(cur) < Place(b)
  <2>1. Place(cur) = 0
    BY <1>1 DEF Place
  <2>2. \A b \in Bufs : b # cur => Place(b) \in 1 .. CmdBufCount - 1
    BY Places
  <2> QED
    BY <1>1, <2>1, <2>2, CmdBufCountAssumption DEF Place
(* A mark that remains is a mark that was there, behind the one freed. *)
<1>10. \A b \in Bufs : \A i \in DOMAIN marks'[b] :
          IF b = cur THEN /\ i + 1 \in DOMAIN marks[b] /\ 1 < i + 1
                          /\ marks'[b][i] = marks[b][i + 1]
                     ELSE /\ i \in DOMAIN marks[b]
                          /\ marks'[b][i] = marks[b][i]
  BY <1>2
<1>11. \A b \in Bufs : \A i \in DOMAIN marks'[b] :
          /\ \E k \in DOMAIN marks[b] : marks'[b][i] = marks[b][k]
          /\ marks'[b][i].gen \in Generations
          /\ LastUnit(marks'[b][i]) \in Units
  <2> TAKE b \in Bufs
  <2> TAKE i \in DOMAIN marks'[b]
  <2>1. PICK k \in DOMAIN marks[b] : marks'[b][i] = marks[b][k]
    BY <1>10
  <2> QED
    BY <2>1, MarkFacts
<1>12. GensHeld'
  BY <1>1, <1>11 DEF RingInv, GensHeld
<1>13. MarksUsed'
  <2> SUFFICES ASSUME NEW b \in Bufs, NEW i \in DOMAIN marks'[b]
               PROVE  Age(ring'[marks'[b][i].gen], LastUnit(marks'[b][i]))
                         <= ring'[marks'[b][i].gen].used
    BY DEF MarksUsed, LastUnit
  <2>1. CASE marks'[b][i].gen # g
    <3>1. PICK k \in DOMAIN marks[b] : marks'[b][i] = marks[b][k]
      BY <1>11
    <3>2. ring'[marks[b][k].gen] = ring[marks[b][k].gen]
      BY <1>6, <1>11, <2>1, <3>1
    <3> QED
      BY <3>1, <3>2 DEF RingInv, MarksUsed
  <2>2. CASE marks'[b][i].gen = g
    <3>1. CASE b = cur
      <4>1. i + 1 \in DOMAIN marks[cur] /\ 1 < i + 1
            /\ marks'[b][i] = marks[cur][i + 1]
        BY <1>10, <3>1
      <4>2. Age(ring[g], LastUnit(marks[cur][i + 1]))
              < Age(ring[g], LastUnit(marks[cur][1]))
        BY <1>1, <1>2, <1>3, <2>2, <4>1 DEF RingInv, MarksOrdered
      <4> QED
        BY <1>2, <1>8, <1>11, <2>2, <4>1, <4>2 DEF LastUnit
    <3>2. CASE b # cur
      <4>1. i \in DOMAIN marks[b] /\ marks'[b][i] = marks[b][i]
        BY <1>10, <3>2
      <4>2. Age(ring[g], LastUnit(marks[b][i]))
              < Age(ring[g], LastUnit(marks[cur][1]))
        BY <1>1, <1>2, <1>3, <1>9, <2>2, <3>2, <4>1 DEF RingInv, BuffersOrdered
      <4> QED
        BY <1>2, <1>8, <1>11, <2>2, <4>1, <4>2 DEF LastUnit
    <3> QED
      BY <3>1, <3>2
  <2> QED
    BY <2>1, <2>2
<1>14. MarksOrdered'
  <2> SUFFICES ASSUME NEW b \in Bufs, NEW i \in DOMAIN marks'[b],
                      NEW j \in DOMAIN marks'[b], i < j,
                      marks'[b][i].gen = marks'[b][j].gen
               PROVE  Age(ring'[marks'[b][i].gen], LastUnit(marks'[b][j]))
                        < Age(ring'[marks'[b][i].gen], LastUnit(marks'[b][i]))
    BY DEF MarksOrdered, LastUnit
  <2>1. Age(ring[marks'[b][i].gen], LastUnit(marks'[b][j]))
          < Age(ring[marks'[b][i].gen], LastUnit(marks'[b][i]))
    <3>1. CASE b = cur
      <4>1. /\ i + 1 \in DOMAIN marks[b] /\ marks'[b][i] = marks[b][i + 1]
            /\ j + 1 \in DOMAIN marks[b] /\ marks'[b][j] = marks[b][j + 1]
        BY <1>10, <3>1
      <4>2. i + 1 < j + 1
        BY <1>2, <3>1
      <4> QED
        BY <4>1, <4>2 DEF RingInv, MarksOrdered
    <3>2. CASE b # cur
      BY <1>10, <3>2 DEF RingInv, MarksOrdered
    <3> QED
      BY <3>1, <3>2
  <2> QED
    BY <1>7, <1>11, <2>1
<1>15. BuffersOrdered'
  <2> SUFFICES ASSUME NEW b \in Bufs, NEW c \in Bufs, Place(b)' < Place(c)',
                      NEW i \in DOMAIN marks'[b], NEW j \in DOMAIN marks'[c],
                      marks'[b][i].gen = marks'[c][j].gen
               PROVE  Age(ring'[marks'[b][i].gen], LastUnit(marks'[c][j]))
                        < Age(ring'[marks'[b][i].gen], LastUnit(marks'[b][i]))
    BY DEF BuffersOrdered, LastUnit
  <2>1. PICK k \in DOMAIN marks[b] : marks'[b][i] = marks[b][k]
    BY <1>11
  <2>2. PICK l \in DOMAIN marks[c] : marks'[c][j] = marks[c][l]
    BY <1>11
  <2>3. Age(ring[marks[b][k].gen], LastUnit(marks[c][l]))
          < Age(ring[marks[b][k].gen], LastUnit(marks[b][k]))
    BY <1>9, <2>1, <2>2 DEF RingInv, BuffersOrdered
  <2> QED
    BY <1>7, <1>11, <2>1, <2>2, <2>3
<1>16. DrawsUsed'
  <2> SUFFICES ASSUME NEW b \in Bufs, Live(b)', NEW d \in draws[b], d.fresh
               PROVE  /\ d.offset + UniformSize <= RingSize
                      /\ ~d.torn
                      /\ \A x \in Block(d.offset, UniformSize) :
                            Age(ring'[d.gen], x) <= ring'[d.gen].used
    BY <1>1 DEF DrawsUsed
  <2>1. Live(b) /\ b # cur
    BY <1>1 DEF Live
  <2>2. /\ d.offset + UniformSize <= RingSize
        /\ ~d.torn
        /\ \A x \in Block(d.offset, UniformSize) :
              Age(ring[d.gen], x) <= ring[d.gen].used
    BY <2>1 DEF RingInv, DrawsUsed
  <2>3. d.gen \in Generations
        /\ \A x \in Block(d.offset, UniformSize) : x \in Units
    BY <2>2, DrawFacts
  <2>4. CASE d.gen = g
    <3>1. \A x \in Block(d.offset, UniformSize) :
             Age(ring[d.gen], x) < Age(ring[d.gen], LastUnit(marks[cur][1]))
      BY <1>1, <1>2, <1>3, <1>9, <2>1, <2>4 DEF RingInv, DrawsYounger
    <3> QED
      BY <1>2, <1>8, <2>2, <2>3, <2>4, <3>1 DEF LastUnit
  <2>5. CASE d.gen # g
    BY <1>6, <2>2, <2>3, <2>5
  <2> QED
    BY <2>4, <2>5
<1>17. DrawsYounger'
  <2> SUFFICES ASSUME NEW b \in Bufs, NEW c \in Bufs, Place(b)' < Place(c)',
                      NEW i \in DOMAIN marks'[b], NEW d \in draws[c],
                      d.fresh, d.gen = marks'[b][i].gen,
                      NEW x \in Block(d.offset, UniformSize)
               PROVE  Age(ring'[d.gen], x)
                        < Age(ring'[d.gen], LastUnit(marks'[b][i]))
    BY <1>1 DEF DrawsYounger, LastUnit
  <2>1. PICK k \in DOMAIN marks[b] : marks'[b][i] = marks[b][k]
    BY <1>11
  <2>2. Place(b) < Place(c)
    BY <1>9
  <2>3. Age(ring[d.gen], x) < Age(ring[d.gen], LastUnit(marks[b][k]))
    BY <2>1, <2>2 DEF RingInv, DrawsYounger
  <2>4. c # cur
    BY <1>9, Places, CmdBufCountAssumption, <1>1, <2>2
  <2>5. Live(c)
    BY <2>4 DEF Live
  <2>6. d.offset + UniformSize <= RingSize
    BY <2>5 DEF RingInv, DrawsUsed
  <2>7. x \in Units /\ d.gen \in Generations
    BY <2>6, DrawFacts
  <2> QED
    BY <1>7, <1>11, <2>1, <2>3, <2>7
<1> QED
  BY <1>12, <1>13, <1>14, <1>15, <1>16, <1>17 DEF RingInv

(* The next buffer in turn. *)
LEMMA NextInTurn ==
  \A b \in Bufs : (b + 1) % CmdBufCount = IF b + 1 = CmdBufCount THEN 0 ELSE b + 1
  BY CmdBufCountAssumption DEF Bufs

(* The steps of the frame keep the buffers in their order. *)
LEMMA FramePlaces ==
  ASSUME TypeOK, BeginDraw \/ DrawStep \/ Submit \/ GpuDone
  PROVE  /\ \A b, c \in Bufs : Place(b)' < Place(c)' => Place(b) < Place(c)
         /\ \A b \in Bufs : Live(b)' => Live(b)
<1>1. CASE BeginDraw \/ WaitFence \/ AcquireImage \/ AcquireOutOfDate
           \/ AcquireError \/ PresentComplains \/ Submit \/ GpuDone
  <2>1. CASE UNCHANGED cur /\ step \notin {"record", "present", "recreate"}
             /\ step' \notin {"record", "present", "recreate"} /\ step # "release"
    BY <2>1 DEF Place, Live
  <2>2. CASE UNCHANGED cur /\ step \in {"record", "present", "recreate"}
             /\ step' \in {"record", "present", "recreate"}
    BY <2>2 DEF Place, Live
  <2>3. CASE UNCHANGED <<cur, step>>
    BY <2>3 DEF Place, Live
  <2> QED
    BY <1>1, <2>1, <2>2, <2>3
       DEF BeginDraw, WaitFence, AcquireImage, AcquireOutOfDate, AcquireError,
           PresentComplains, Submit, GpuDone
<1>2. CASE Present \/ PresentRecreates
  <2>1. /\ step \in {"present", "recreate"} /\ step' = "idle"
        /\ cur \in Bufs /\ cur' = IF cur + 1 = CmdBufCount THEN 0 ELSE cur + 1
    BY <1>2, NextInTurn DEF Present, PresentRecreates, Advance, TypeOK, FramesTypeOK
  <2>2. \A b \in Bufs : Place(b)' = Place(b) - 1
    BY <2>1, CmdBufCountAssumption DEF Place, Bufs
  <2>3. \A b \in Bufs : Place(b) \in Nat
    BY Places, CmdBufCountAssumption
  <2> QED
    BY <2>1, <2>2, <2>3 DEF Live
<1> QED
  BY <1>1, <1>2 DEF DrawStep

(* The other steps: a ring that is alive, because somebody keeps it, is    *)
(* never reset.                                                            *)
LEMMA OtherRing ==
  ASSUME TypeOK, RingInv,
         \/ SetUniform \/ DestroyPipeline \/ UpdateCreates \/ DrawUnchanged
         \/ Overflow \/ Begin \/ OtherDrawStep \/ DropReferences
         \/ SubmitFrame \/ Gpu \/ UNCHANGED vars
  PROVE  RingInv'
<1>1. CASE SetUniform \/ Overflow \/ UNCHANGED vars
  <2>1. UNCHANGED <<step, cur, ring, draws, held, marks>>
    BY <1>1 DEF SetUniform, Overflow, vars, frameVars, primVars
  <2> QED
    BY <2>1, Unmoved DEF RingInv, GensHeld, Place, Live
<1>2. CASE Begin \/ OtherDrawStep \/ SubmitFrame \/ Gpu
  <2>1. UNCHANGED primVars /\ (BeginDraw \/ DrawStep \/ Submit \/ GpuDone)
    BY <1>2 DEF Begin, OtherDrawStep, SubmitFrame, Gpu
  <2>2. UNCHANGED <<ring, draws, held, marks>>
    BY <2>1 DEF primVars
  <2>3. GensHeld'
    BY <2>2 DEF RingInv, GensHeld
  <2> QED
    BY <2>1, <2>2, <2>3, FramePlaces, Unmoved
<1>3. CASE DestroyPipeline
  <2>1. /\ UNCHANGED <<step, cur, draws, held, marks>>
        /\ ring' = OfAlive(ring, AliveWith(NoPipeline, held))
        /\ held \in [Bufs -> SUBSET Generations]
    BY <1>3 DEF DestroyPipeline, frameVars, TypeOK
  <2>2. \A b \in Bufs : \A h \in held[b] : ring'[h] = ring[h]
    BY <2>1 DEF OfAlive, AliveWith
  <2>3. GensHeld'
    BY <2>1 DEF RingInv, GensHeld
  <2>4. /\ \A b \in Bufs : Place(b)' = Place(b)
        /\ \A b \in Bufs : Live(b)' = Live(b)
    BY <2>1 DEF Place, Live
  <2> QED
    BY <2>1, <2>2, <2>3, <2>4, Unmoved
<1>4. CASE UpdateCreates
  <2>1. PICK g \in Generations \ Alive :
           /\ ring' = [ring EXCEPT ![g] = EmptyRing]
           /\ draws' = Written(g, prim.offset)
    BY <1>4 DEF UpdateCreates
  <2>2. /\ UNCHANGED <<step, cur, held, marks>>
        /\ prim.offset \in Nat
        /\ ring \in [Generations -> Rings]
        /\ held \in [Bufs -> SUBSET Generations]
    BY <1>4 DEF UpdateCreates, frameVars, TypeOK, Prims, Units
  <2>3. \A b \in Bufs : \A h \in held[b] : h # g /\ ring'[h] = ring[h]
    BY <2>1, <2>2 DEF Alive, AliveWith
  <2>4. \A b \in Bufs : \A d \in draws'[b] :
           \E e \in draws[b] : WrittenFrom(d, e, g, prim.offset)
    BY <2>1, <2>2, WrittenDraws
  <2>5. \A b \in Bufs : \A d \in draws'[b] :
           \E e \in draws[b] : /\ e.gen = d.gen /\ e.offset = d.offset
                               /\ e.fresh = d.fresh /\ (d.torn => e.torn)
                               /\ e.gen \in held[b]
    BY <2>3, <2>4 DEF WrittenFrom, RingInv, GensHeld
  <2>6. GensHeld'
    BY <2>2, <2>5 DEF RingInv, GensHeld
  <2>7. /\ \A b \in Bufs : Place(b)' = Place(b)
        /\ \A b \in Bufs : Live(b)' /\ draws'[b] # {} => Live(b)
    BY <2>2 DEF Place, Live
  <2>8. \A b \in Bufs : \A d \in draws'[b] : d.fresh =>
           \E e \in draws[b] : /\ e.fresh /\ e.gen = d.gen
                               /\ e.offset = d.offset /\ (d.torn => e.torn)
    BY <2>5
  <2> QED
    BY <2>2, <2>3, <2>6, <2>7, <2>8, Unmoved
<1>5. CASE DrawUnchanged
  <2> DEFINE new == Draw(prim.gen, prim.offset, prim.own, FALSE, FALSE)
  <2>1. /\ UNCHANGED <<step, cur, ring, marks>>
        /\ cur \in Bufs
        /\ draws \in [Bufs -> SUBSET Draws]
        /\ held \in [Bufs -> SUBSET Generations]
        /\ draws' = [draws EXCEPT ![cur] = draws[cur] \cup {new}]
        /\ held' = [held EXCEPT ![cur] = held[cur] \cup {prim.gen}]
    BY <1>5 DEF DrawUnchanged, CountDraw, Keep, frameVars, TypeOK, FramesTypeOK
  <2>2. /\ \A b \in Bufs : draws'[b] \subseteq
                              draws[b] \cup (IF b = cur THEN {new} ELSE {})
        /\ \A b \in Bufs : held[b] \subseteq held'[b]
        /\ prim.gen \in held'[cur]
    BY <2>1
  <2>3. new.gen = prim.gen /\ new.fresh = FALSE
    BY DEF Draw
  <2>4. GensHeld'
    BY <2>1, <2>2, <2>3 DEF RingInv, GensHeld
  <2>5. /\ \A b \in Bufs : Place(b)' = Place(b)
        /\ \A b \in Bufs : Live(b)' /\ draws'[b] # {} => Live(b)
    BY <2>1 DEF Place, Live
  <2>6. \A b \in Bufs : \A d \in draws'[b] : d.fresh => d \in draws[b]
    BY <2>2, <2>3
  <2> QED
    BY <2>1, <2>4, <2>5, <2>6, Unmoved
<1>6. CASE DropReferences
  <2>1. /\ UNCHANGED <<cur, marks>>
        /\ marks[cur] = <<>>
        /\ step = "release" /\ step' = "record"
        /\ cur \in Bufs
        /\ draws \in [Bufs -> SUBSET Draws]
        /\ held \in [Bufs -> SUBSET Generations]
        /\ draws' = [draws EXCEPT ![cur] = {}]
        /\ held' = [held EXCEPT ![cur] = {}]
        /\ ring' = OfAlive(ring, AliveWith(prim.gen, held'))
    BY <1>6 DEF DropReferences, BeginCommands, TypeOK, FramesTypeOK
  <2>2. held' \in [Bufs -> SUBSET Generations]
    BY <2>1
  <2>3. \A b \in Bufs : \A h \in held'[b] : ring'[h] = ring[h]
    BY <2>1, <2>2 DEF OfAlive, AliveWith
  <2>4. /\ draws'[cur] = {} /\ marks'[cur] = <<>>
        /\ \A b \in Bufs : b # cur => draws'[b] = draws[b]
        /\ \A b \in Bufs : b # cur => held'[b] = held[b]
    BY <2>1
  <2>5. GensHeld'
    <3>1. DOMAIN marks'[cur] = {}
      BY <2>4
    <3> QED
      BY <2>1, <2>4, <3>1 DEF RingInv, GensHeld
  <2>6. \A b, c \in Bufs : Place(b)' < Place(c)' /\ c # cur => Place(b) < Place(c)
    <3>0. \A b \in Bufs : b # cur => Place(b)' = Place(b)
      BY <2>1 DEF Place
    <3>3. \A b \in Bufs : b # cur => Place(b) \in 1 .. CmdBufCount - 1
      BY Places
    <3>1. \A b \in Bufs : b # cur => /\ Place(b)' = Place(b)
                                     /\ Place(b) \in 1 .. CmdBufCount - 1
      BY <3>0, <3>3
    <3>2. \A b \in Bufs : b = cur => Place(b)' = CmdBufCount
      BY <2>1 DEF Place
    <3> QED
      BY <3>1, <3>2, CmdBufCountAssumption
  <2>7. \A b \in Bufs : Live(b)' /\ draws'[b] # {} => Live(b)
    BY <2>1, <2>4 DEF Live
  <2>8. \A b \in Bufs : \A d \in draws'[b] : d \in draws[b]
    BY <2>1
  <2> QED
    BY <2>1, <2>3, <2>4, <2>5, <2>6, <2>7, <2>8, Unmoved
<1> QED
  BY <1>1, <1>2, <1>3, <1>4, <1>5, <1>6
-----------------------------------------------------------------------------
(* The types. *)

PrimTypes ==
  /\ prim \in Prims
  /\ ring \in [Generations -> Rings]
  /\ draws \in [Bufs -> SUBSET Draws]
  /\ held \in [Bufs -> SUBSET Generations]
  /\ marks \in [Bufs -> Seq(Marks)]
  /\ updates \in 0 .. MaxUpdates
  /\ drawn \in 0 .. MaxDraws
  /\ failed \in BOOLEAN

LEMMA TypeOKParts == TypeOK <=> FramesTypeOK /\ PrimTypes
  BY DEF TypeOK, PrimTypes

LEMMA WrittenType ==
  TypeOK => \A g : \A o : Written(g, o) \in [Bufs -> SUBSET Draws]
<1> HAVE TypeOK
<1> TAKE g
<1> TAKE o
<1>1. \A b \in Bufs : \A d \in draws[b] : TornBy(d, g, o) \in Draws
  BY DEF TypeOK, Draws, TornBy, Draw
<1> QED
  BY <1>1 DEF Written

LEMMA OfAliveType ==
  TypeOK => \A alive : OfAlive(ring, alive) \in [Generations -> Rings]
<1>1. EmptyRing \in Rings
  BY RingSizeAssumption DEF EmptyRing, Ring, Rings
<1> QED
  BY <1>1 DEF TypeOK, OfAlive

LEMMA TypesPreserved ==
  ASSUME TypeOK, [Next]_vars
  PROVE  PrimTypes'
<1>1. PrimTypes
  BY TypeOKParts
<1>2. CASE SetUniform
  BY <1>1, <1>2 DEF SetUniform, PrimTypes, Prims, Prim
<1>3. CASE DestroyPipeline
  <2>1. prim' \in Prims
    BY <1>1, <1>3 DEF DestroyPipeline, PrimTypes, Prims, Prim
  <2>2. ring' \in [Generations -> Rings]
    BY <1>3, OfAliveType DEF DestroyPipeline
  <2> QED
    BY <1>1, <1>3, <2>1, <2>2 DEF DestroyPipeline, PrimTypes
<1>4. CASE UpdateCreates
  <2>1. PICK g \in Generations \ Alive :
           /\ ring' = [ring EXCEPT ![g] = EmptyRing]
           /\ draws' = Written(g, prim.offset)
           /\ prim' = Prim(g, prim.offset, FALSE, FALSE)
    BY <1>4 DEF UpdateCreates
  <2>2. prim' \in Prims
    BY <1>1, <2>1 DEF PrimTypes, Prims, Prim
  <2>3. EmptyRing \in Rings
    BY RingSizeAssumption DEF EmptyRing, Ring, Rings
  <2>5. Written(g, prim.offset) \in [Bufs -> SUBSET Draws]
    BY WrittenType
  <2>4. draws' \in [Bufs -> SUBSET Draws]
    BY <2>1, <2>5
  <2> QED
    BY <1>1, <1>4, <2>1, <2>2, <2>3, <2>4 DEF UpdateCreates, PrimTypes
<1>5. ASSUME NEW u, u \in BOOLEAN, CopyUpdated(u)
      PROVE  prim' \in Prims /\ ring' \in [Generations -> Rings]
  <2>1. /\ prim.gen \in Generations /\ prim'.offset \in Units
        /\ ring' \in [Generations -> Rings]
    BY <1>5, CopyAges
  <2>2. prim' = Prim(prim.gen, prim'.offset, u, TRUE)
    BY <1>5 DEF CopyUpdated, Prim
  <2>3. \A g \in Generations, o \in Units, b \in BOOLEAN :
           Prim(g, o, b, TRUE) \in Prims
    BY DEF Prims, Prim
  <2> QED
    BY <1>5, <2>1, <2>2, <2>3
<1>6. CASE Update
  <2>1. prim' \in Prims /\ ring' \in [Generations -> Rings]
    BY <1>5, <1>6 DEF Update
  <2>2. draws' \in [Bufs -> SUBSET Draws]
    BY <1>6, WrittenType DEF Update
  <2>3. updates' \in 0 .. MaxUpdates
    BY <1>1, <1>6, BoundsAssumption DEF Update, PrimTypes
  <2> QED
    BY <1>1, <1>6, <2>1, <2>2, <2>3 DEF Update, PrimTypes
<1>7. CASE DrawUpdated
  <2> DEFINE written == Written(prim.gen, prim'.offset)
             new == Draw(prim.gen, prim'.offset, TRUE, TRUE, FALSE)
             mark == Mark(prim.gen, ring'[prim.gen].free)
  <2>1. CopyUpdated(FALSE) /\ cur \in Bufs
    BY <1>7 DEF DrawUpdated, TypeOK, FramesTypeOK
  <2>2. prim' \in Prims /\ ring' \in [Generations -> Rings]
    BY <1>5, <2>1
  <2>3. /\ prim.gen \in Generations /\ prim'.offset \in Units
        /\ prim'.offset + UniformSize <= RingSize
        /\ ring'[prim.gen].free = prim'.offset + UniformSize
    BY <2>1, CopyAges
  <2>4. new \in Draws
    BY <2>3 DEF Draws, Draw
  <2>5. written \in [Bufs -> SUBSET Draws]
    BY WrittenType
  <2>6. draws' = [written EXCEPT ![cur] = written[cur] \cup {new}]
    BY <1>7 DEF DrawUpdated
  <2>7. draws' \in [Bufs -> SUBSET Draws]
    BY <2>1, <2>4, <2>5, <2>6
  <2>8. mark \in Marks
    BY <2>3, RingSizeAssumption, UniformSizeAssumption DEF Marks, Mark, Units
  <2>9. marks' \in [Bufs -> Seq(Marks)]
    BY <1>1, <1>7, <2>1, <2>8 DEF PrimTypes, DrawUpdated, WillFree
  <2>10. held' \in [Bufs -> SUBSET Generations]
    BY <1>1, <1>7, <2>1, <2>3 DEF PrimTypes, DrawUpdated, Keep
  <2>11. updates' \in 0 .. MaxUpdates /\ drawn' \in 0 .. MaxDraws
    BY <1>1, <1>7, BoundsAssumption DEF PrimTypes, DrawUpdated, CountDraw
  <2> QED
    BY <1>1, <1>7, <2>2, <2>7, <2>9, <2>10, <2>11 DEF PrimTypes, DrawUpdated
<1>8. CASE DrawUnchanged
  <2> DEFINE new == Draw(prim.gen, prim.offset, prim.own, FALSE, FALSE)
  <2>1. cur \in Bufs /\ prim.gen \in Generations
    BY <1>1, <1>8 DEF DrawUnchanged, PrimTypes, Prims, TypeOK, FramesTypeOK
  <2>2. new \in Draws
    BY <1>1, <2>1 DEF PrimTypes, Prims, Draws, Draw
  <2>3. draws' = [draws EXCEPT ![cur] = draws[cur] \cup {new}]
    BY <1>8 DEF DrawUnchanged
  <2>4. draws' \in [Bufs -> SUBSET Draws]
    BY <1>1, <2>1, <2>2, <2>3 DEF PrimTypes
  <2>5. held' \in [Bufs -> SUBSET Generations]
    BY <1>1, <1>8, <2>1 DEF PrimTypes, DrawUnchanged, Keep
  <2>6. drawn' \in 0 .. MaxDraws
    BY <1>1, <1>8, BoundsAssumption DEF PrimTypes, DrawUnchanged, CountDraw
  <2> QED
    BY <1>1, <1>8, <2>4, <2>5, <2>6 DEF PrimTypes, DrawUnchanged
<1>9. CASE Overflow \/ Begin \/ OtherDrawStep \/ SubmitFrame \/ Gpu
           \/ UNCHANGED vars
  BY <1>1, <1>9 DEF Overflow, Begin, OtherDrawStep, SubmitFrame, Gpu, primVars,
                    vars, PrimTypes
<1>10. CASE FreeMark
  <2>1. /\ cur \in Bufs /\ marks[cur] \in Seq(Marks) /\ marks[cur] # <<>>
    BY <1>10 DEF FreeMark, TypeOK, FramesTypeOK
  <2>2. marks' \in [Bufs -> Seq(Marks)]
    BY <1>1, <1>10, <2>1 DEF PrimTypes, FreeMark
  <2>7. Head(marks[cur]) \in Marks
    BY <2>1
  <2>3. PICK m \in Marks :
           ring' = [ring EXCEPT ![m.gen] = FreedToMark(ring[m.gen], m.offset)]
    BY <1>10, <2>7 DEF FreeMark
  <2>4. m.gen \in Generations /\ m.offset \in 1 .. RingSize
    BY DEF Marks
  <2>5. \A r \in Rings : FreedToMark(r, m.offset) \in Rings
    BY <2>4, RingSizeAssumption DEF Rings, FreedToMark, Ring
  <2>6. ring' \in [Generations -> Rings]
    BY <1>1, <2>3, <2>4, <2>5 DEF PrimTypes
  <2> QED
    BY <1>1, <1>10, <2>2, <2>6 DEF PrimTypes, FreeMark, frameVars
<1>11. CASE DropReferences
  <2>1. ring' \in [Generations -> Rings]
    BY <1>11, OfAliveType DEF DropReferences
  <2>2. drawn' \in 0 .. MaxDraws
    BY <1>11, BoundsAssumption DEF DropReferences
  <2> QED
    BY <1>1, <1>11, <2>1, <2>2 DEF PrimTypes, DropReferences
<1> QED
  BY <1>2, <1>3, <1>4, <1>6, <1>7, <1>8, <1>9, <1>10, <1>11 DEF Next

-----------------------------------------------------------------------------
(* The theorems. *)

(* What a step does to the frames is a step of a frame, or nothing. *)
LEMMA StepsOfFrames ==
  ASSUME [Next]_vars
  PROVE  FramesStep
<1>1. CASE SetUniform \/ DestroyPipeline \/ UpdateCreates \/ Update
           \/ Overflow \/ FreeMark
  BY <1>1 DEF SetUniform, DestroyPipeline, UpdateCreates, Update, Overflow,
              FreeMark, FramesStep
<1>2. CASE DrawUpdated \/ DrawUnchanged
  BY <1>2 DEF DrawUpdated, DrawUnchanged, FramesStep
<1>3. CASE Begin \/ OtherDrawStep \/ DropReferences \/ SubmitFrame \/ Gpu
  BY <1>3 DEF Begin, OtherDrawStep, DropReferences, SubmitFrame, Gpu, FramesStep
<1>4. CASE UNCHANGED vars
  BY <1>4 DEF vars, FramesStep
<1> QED
  BY <1>1, <1>2, <1>3, <1>4 DEF Next

(* At the beginning nothing is drawn, kept or used. *)
LEMMA InitialInv == Init => IInv
<1> SUFFICES ASSUME Init
             PROVE  IInv
  OBVIOUS
<1>1. FramesInv
  BY FramesInitially DEF Init
<1>2. EmptyRing \in Rings /\ 0 \in Units
  BY RingSizeAssumption DEF EmptyRing, Ring, Rings, Units
<1>3. /\ prim \in Prims
      /\ ring \in [Generations -> Rings]
      /\ draws \in [Bufs -> SUBSET Draws]
      /\ held \in [Bufs -> SUBSET Generations]
      /\ marks \in [Bufs -> Seq(Marks)]
  <2>1. Prim(NoPipeline, 0, FALSE, FALSE) \in Prims
    BY <1>2 DEF Prims, Prim
  <2>2. prim \in Prims
    BY <2>1 DEF Init
  <2>3. ring \in [Generations -> Rings]
    BY <1>2 DEF Init
  <2>4. draws \in [Bufs -> SUBSET Draws] /\ held \in [Bufs -> SUBSET Generations]
    BY DEF Init
  <2>5. <<>> \in Seq(Marks)
    OBVIOUS
  <2>6. marks \in [Bufs -> Seq(Marks)]
    BY <2>5 DEF Init
  <2> QED
    BY <2>2, <2>3, <2>4, <2>6
<1>4. PrimTypes
  <2>1. updates = 0 /\ drawn = 0 /\ failed = FALSE
    BY DEF Init
  <2>2. failed \in BOOLEAN
    BY <2>1
  <2>3. updates \in 0 .. MaxUpdates /\ drawn \in 0 .. MaxDraws
    BY <2>1, BoundsAssumption
  <2> QED
    BY <1>3, <2>2, <2>3 DEF PrimTypes
<1>5. \A b \in Bufs : DOMAIN marks[b] = {} /\ draws[b] = {}
  BY DEF Init
<1>6. RingInv
  BY <1>5 DEF RingInv, GensHeld, MarksUsed, MarksOrdered, BuffersOrdered,
              DrawsUsed, DrawsYounger
<1> QED
  BY <1>1, <1>4, <1>6, TypeOKParts DEF IInv, FramesInv

LEMMA InvPreserved == IInv /\ [Next]_vars => IInv'
<1> SUFFICES ASSUME IInv, [Next]_vars
             PROVE  IInv'
  OBVIOUS
<1>1. FramesInv'
  BY StepsOfFrames, FramesPreserved DEF IInv
<1>2. PrimTypes'
  BY TypesPreserved DEF IInv
<1>3. TypeOK'
  BY <1>1, <1>2, TypeOKParts, PTL DEF FramesInv
<1>4. RingInv'
  BY UpdateRing, DrawUpdatedRing, FreeMarkRing, OtherRing DEF IInv, Next
<1> QED
  BY <1>1, <1>3, <1>4 DEF IInv

LEMMA InvAlways == Spec => []IInv
  BY InitialInv, InvPreserved, PTL DEF Spec

(* A command buffer that is recorded or executed is not being released. *)
LEMMA PendingLive ==
  ASSUME IInv, NEW b \in Bufs, Pending(b)
  PROVE  Live(b)
  BY DEF IInv, FramesInv, Reset, Pending, InFlight, Live

(* The offsets, marks and rings keep their ranges: allocations stay within *)
(* the dynamic area, also when it is cycled.                               *)
THEOREM TypeCorrect == Spec => []TypeOK
  BY InvAlways, PTL DEF IInv

(* What a frame in flight allocated for its uniforms is not given back to  *)
(* UniformBuffers::allocate_dynamic_uniform before the GPU is done with    *)
(* it, for every number of command buffers and every size of the ring.     *)
THEOREM Reserved == Spec => []ReservedWhilePending
<1>1. IInv => ReservedWhilePending
  <2> SUFFICES ASSUME IInv, NEW b \in Bufs, Pending(b),
                      NEW d \in draws[b], d.fresh,
                      NEW x \in Block(d.offset, UniformSize)
               PROVE  x \in UsedUnits(ring[d.gen])
    BY DEF ReservedWhilePending
  <2>1. Live(b)
    BY PendingLive
  <2>2. /\ d.offset + UniformSize <= RingSize
        /\ Age(ring[d.gen], x) <= ring[d.gen].used
    BY <2>1 DEF IInv, RingInv, DrawsUsed
  <2>3. x \in Units
    BY <2>2, DrawFacts DEF IInv
  <2> QED
    BY <2>2, <2>3 DEF UsedUnits
<1> QED
  BY <1>1, InvAlways, PTL

(* A draw that allocated its uniform sees it as it was recorded, whatever  *)
(* is updated and drawn before the GPU executes it.                        *)
THEOREM FreshUntorn == Spec => []UntornIfFresh
<1>1. IInv => UntornIfFresh
  BY PendingLive DEF IInv, RingInv, DrawsUsed, UntornIfFresh
<1> QED
  BY <1>1, InvAlways, PTL

(* The buffers a command reads exist until the GPU is done with it, also   *)
(* when the object destroyed its pipeline meanwhile.                       *)
THEOREM Held == Spec => []HeldWhilePending
<1>1. IInv => HeldWhilePending
  BY DEF IInv, RingInv, GensHeld, HeldWhilePending, Alive, AliveWith
<1> QED
  BY <1>1, InvAlways, PTL

-----------------------------------------------------------------------------
(* Counting allocations. *)

(* The ring has room for so many, and a rest that is skipped when it is    *)
(* cycled.                                                                 *)
Slots == RingSize \div UniformSize

Rest == RingSize - Slots * UniformSize

(* The last units before the free offset, so many, are at most k           *)
(* allocations, and the rest if they begin before it.                      *)
Within(r, length, k) ==
  length <= k * UniformSize + (IF r.free <= k * UniformSize THEN Rest ELSE 0)

(* What a frame allocates, with the updates before its first draw.         *)
PerFrame == MaxDraws + MaxUpdates

(* The ring holds what CmdBufCount frames allocate, and the updates before *)
(* the next one.                                                           *)
RoomForFrames ==
  CmdBufCount * PerFrame + MaxUpdates <= Slots

(* The current buffer has released its last frame and counts as the last.  *)
Recorded == step \in {"record", "present", "recreate"}

\* the last place in the order of the buffers
LastPlace == IF Recorded THEN CmdBufCount ELSE CmdBufCount - 1

(* What the current frame has allocated, at most: no more updates than     *)
(* MaxUpdates before its first draw, and none before the others.           *)
Current == IF marks[cur] = <<>> THEN 0 ELSE Len(marks[cur]) + MaxUpdates

(* How many allocations there were, at most, by the frames from place p    *)
(* on, and by updates after the last draw.                                 *)
Since(p) ==
  IF Recorded /\ p > CmdBufCount THEN updates
  ELSE (CmdBufCount - p) * PerFrame + updates
         + (IF Recorded THEN Current ELSE 0)

(* The buffer has marks in the ring of the object's generation.            *)
Mine(b) == \E i \in DOMAIN marks[b] : marks[b][i].gen = prim.gen

\* no such marks between the buffer's place and p
NoneBetween(b, p) ==
  \A c \in Bufs : Place(b) < Place(c) /\ Place(c) < p => ~Mine(c)

(* A pipeline is created or destroyed between frames only, so a frame      *)
(* allocates in one ring.                                                  *)
FramesOfOne ==
  /\ \A b \in Bufs : \A i, j \in DOMAIN marks[b] : marks[b][i].gen = marks[b][j].gen
  /\ step = "record" => \A i \in DOMAIN marks[cur] : marks[cur][i].gen = prim.gen

(* There is a mark for a draw at most; a draw that allocates resets the    *)
(* count of updates.                                                       *)
MarksCounted ==
  /\ \A b \in Bufs : Len(marks[b]) <= MaxDraws
  /\ step = "record" =>
       /\ Len(marks[cur]) <= drawn
       /\ marks[cur] # <<>> => updates = 0

(* The free offset is where an allocation ends.                            *)
Aligned(x) == \E n \in 0 .. Slots : x = n * UniformSize

RingsAligned == \A g \in Generations : Aligned(ring[g].free)

(* The object's own block is the last that was allocated.                  *)
OwnIsLast ==
  prim.own => /\ prim.gen # NoPipeline
              /\ prim.offset + UniformSize = ring[prim.gen].free

(* When no buffer before place p has marks, what is used was allocated     *)
(* from there on.                                                          *)
UsedBounded ==
  prim.gen # NoPipeline =>
     \A p \in 0 .. LastPlace + 1 :
        (\A c \in Bufs : Place(c) < p => ~Mine(c)) =>
           Within(ring[prim.gen], ring[prim.gen].used, Since(p))

(* What is younger than a mark was allocated by the later draws of its     *)
(* frame and by the frames from the next one with marks on.                *)
MarksBounded ==
  \A b \in Bufs : \A i \in DOMAIN marks[b] : marks[b][i].gen = prim.gen =>
     \A p \in Place(b) + 1 .. LastPlace + 1 : NoneBetween(b, p) =>
        Within(ring[prim.gen], Age(ring[prim.gen], LastUnit(marks[b][i])) - 1,
               Since(p) + Len(marks[b]) - i)

(* How many allocations there were, at most, since a draw of the buffer    *)
(* was recorded.                                                           *)
DrawnSince(b) ==
  IF b = cur /\ Recorded THEN drawn - 1 ELSE Since(Place(b) + 1) + MaxDraws - 1

(* How much was allocated since a block ends at e. *)
Behind(r, e) == Age(r, e - 1) - 1

(* A draw of a uniform as it was: fewer allocations behind its block than  *)
(* would come back to it.                                                  *)
OwnDraw(b, d) ==
  /\ ~d.torn
  /\ MaxDraws > 0
  /\ b = cur /\ Recorded => drawn > 0
  /\ Aligned(d.offset)
  /\ d.offset + UniformSize <= RingSize
  /\ d.gen = prim.gen =>
       Within(ring[prim.gen], Behind(ring[prim.gen], d.offset + UniformSize),
              DrawnSince(b))

\* of every frame that is not being released
OwnDraws ==
  \A b \in Bufs : Live(b) =>
     \A d \in draws[b] : d.own /\ ~d.fresh => OwnDraw(b, d)

-----------------------------------------------------------------------------
(* Counting in allocations. *)

LEMMA Multiples ==
  /\ \A k, n \in Nat : k < n => k * UniformSize + UniformSize <= n * UniformSize
  /\ \A k, n \in Nat : k <= n => k * UniformSize <= n * UniformSize
  /\ \A k \in Nat : (k + 1) * UniformSize = k * UniformSize + UniformSize
  /\ \A k \in Nat : k * UniformSize \in Nat
<1>1. \A k, n, u \in Nat : k <= n => k * u <= n * u
  OBVIOUS
<1>2. \A k, u \in Nat : (k + 1) * u = k * u + u
  OBVIOUS
<1>3. \A k, u \in Nat : k * u \in Nat
  OBVIOUS
<1>4. ASSUME NEW k \in Nat, NEW n \in Nat, k < n
      PROVE  k * UniformSize + UniformSize <= n * UniformSize
  <2>1. k + 1 <= n /\ k + 1 \in Nat
    BY <1>4
  <2> QED
    BY <1>1, <1>2, <2>1, UniformSizeAssumption
<1> QED
  BY <1>1, <1>2, <1>3, <1>4, UniformSizeAssumption

LEMMA SlotsFit ==
  /\ Slots \in Nat
  /\ Slots * UniformSize \in Nat
  /\ Slots * UniformSize <= RingSize
  /\ RingSize < Slots * UniformSize + UniformSize
  /\ Rest \in Nat
  BY RingSizeAssumption, UniformSizeAssumption DEF Slots, Rest

-----------------------------------------------------------------------------
(* Allocations of one size: the free offset is always where one ends. *)

(* The free offset is where an allocation ends, so that the last one       *)
(* before the rest ends there.                                             *)
LEMMA WrapsAtRest ==
  \A x : Aligned(x) =>
     /\ x \in Nat
     /\ x <= Slots * UniformSize
     /\ x + UniformSize > RingSize => x = Slots * UniformSize
     /\ \A n \in Nat : n * UniformSize < x => n * UniformSize + UniformSize <= x
     /\ x + UniformSize <= RingSize => Aligned(x + UniformSize)
<1> SUFFICES ASSUME NEW n \in 0 .. Slots
             PROVE  LET x == n * UniformSize IN
                    /\ x \in Nat
                    /\ x <= Slots * UniformSize
                    /\ x + UniformSize > RingSize => x = Slots * UniformSize
                    /\ \A k \in Nat : k * UniformSize < x => k * UniformSize + UniformSize <= x
                    /\ x + UniformSize <= RingSize => Aligned(x + UniformSize)
  BY DEF Aligned
<1>1. n \in Nat /\ n <= Slots
  BY SlotsFit
<1>2. n * UniformSize \in Nat /\ n * UniformSize <= Slots * UniformSize
  BY <1>1, Multiples, SlotsFit
<1>3. n < Slots => n * UniformSize + UniformSize <= Slots * UniformSize
  BY <1>1, Multiples, SlotsFit
<1>4. ASSUME n * UniformSize + UniformSize > RingSize
      PROVE  n * UniformSize = Slots * UniformSize
  <2>1. ~(n < Slots)
    BY <1>2, <1>3, <1>4, SlotsFit, RingSizeAssumption, UniformSizeAssumption
  <2>2. n = Slots
    BY <1>1, <2>1, SlotsFit
  <2> QED
    BY <2>2
<1>5. ASSUME NEW k \in Nat, k * UniformSize < n * UniformSize
      PROVE  k * UniformSize + UniformSize <= n * UniformSize
  <2>1. ~(n <= k)
    BY <1>1, <1>5, Multiples, UniformSizeAssumption
  <2> QED
    BY <1>1, <2>1, Multiples
<1>6. ASSUME n * UniformSize + UniformSize <= RingSize
      PROVE  Aligned(n * UniformSize + UniformSize)
  <2>1. n # Slots
    BY <1>6, SlotsFit, RingSizeAssumption, UniformSizeAssumption
  <2>2. n + 1 \in 0 .. Slots /\ (n + 1) * UniformSize = n * UniformSize + UniformSize
    BY <1>1, <2>1, Multiples, SlotsFit
  <2> QED
    BY <2>2 DEF Aligned
<1> QED
  BY <1>2, <1>4, <1>5, <1>6

LEMMA EndsAligned ==
  /\ Aligned(0)
  /\ UniformSize <= RingSize => Aligned(UniformSize)
<1>1. 0 * UniformSize = 0 /\ 0 \in 0 .. Slots
  BY SlotsFit, UniformSizeAssumption
<1>2. Aligned(0)
  BY <1>1 DEF Aligned
<1> QED
  BY <1>2, WrapsAtRest, UniformSizeAssumption

LEMMA AllocatedAligned ==
  \A r \in Rings : Fits(r, UniformSize) /\ Aligned(r.free) =>
     Aligned(Allocated(r, UniformSize).free)
<1> SUFFICES ASSUME NEW r \in Rings, Fits(r, UniformSize), Aligned(r.free)
             PROVE  Aligned(Allocated(r, UniformSize).free)
  OBVIOUS
<1>1. r.free \in Nat /\ r.used \in Nat
  BY RingFacts
<1>2. CASE r.free + UniformSize <= RingSize
  <2>1. Allocated(r, UniformSize).free = r.free + UniformSize
    BY <1>1, <1>2, RingSizeAssumption, UniformSizeAssumption DEF Allocated, Wrapped, Ring
  <2> QED
    BY <1>2, <2>1, WrapsAtRest
<1>3. CASE r.free + UniformSize > RingSize
  <2>1. Allocated(r, UniformSize).free = UniformSize /\ UniformSize <= RingSize
    BY <1>1, <1>3, RingSizeAssumption, UniformSizeAssumption
       DEF Allocated, Wrapped, Ring, Fits, Rings
  <2> QED
    BY <2>1, EndsAligned
<1> QED
  BY <1>1, <1>2, <1>3, RingSizeAssumption, UniformSizeAssumption

LEMMA WithinMore ==
  \A r \in Rings : \A a \in Nat : \A k, l \in Nat :
     k <= l /\ Within(r, a, k) => Within(r, a, l)
<1> SUFFICES ASSUME NEW r \in Rings, NEW a \in Nat, NEW k \in Nat, NEW l \in Nat,
                    k <= l, Within(r, a, k)
             PROVE  Within(r, a, l)
  OBVIOUS
<1>1. k * UniformSize \in Nat /\ l * UniformSize \in Nat
      /\ k * UniformSize <= l * UniformSize
  BY Multiples
<1> QED
  BY <1>1, SlotsFit, RingFacts DEF Within

(* What is used is one allocation more after it. *)
LEMMA WithinAllocated ==
  \A r \in Rings : \A a, k \in Nat :
     Fits(r, UniformSize) /\ Aligned(r.free) /\ a <= r.used /\ Within(r, a, k) =>
        Within(Allocated(r, UniformSize),
               a + (Allocated(r, UniformSize).used - r.used), k + 1)
<1> SUFFICES ASSUME NEW r \in Rings, NEW a \in Nat, NEW k \in Nat,
                    Fits(r, UniformSize), Aligned(r.free), a <= r.used, Within(r, a, k)
             PROVE  Within(Allocated(r, UniformSize),
                           a + (Allocated(r, UniformSize).used - r.used), k + 1)
  OBVIOUS
<1> DEFINE s == Allocated(r, UniformSize)
           ku == k * UniformSize
           full == Slots * UniformSize
<1>1. r.free \in Nat /\ r.used \in Nat
  BY RingFacts
<1>2. ku \in Nat /\ (k + 1) * UniformSize = ku + UniformSize
  BY Multiples
<1>3. full \in Nat /\ Rest \in Nat /\ RingSize = full + Rest
  BY SlotsFit, RingSizeAssumption DEF Rest
<1>4. a <= ku + (IF r.free <= ku THEN Rest ELSE 0)
  BY DEF Within
<1>6. SUFFICES a + (s.used - r.used)
                 <= ku + UniformSize
                      + (IF s.free <= ku + UniformSize THEN Rest ELSE 0)
  BY <1>2 DEF Within
<1>7. CASE r.free + UniformSize <= RingSize
  <2>1. s.free = r.free + UniformSize /\ s.used = r.used + UniformSize
    BY <1>1, <1>7, RingSizeAssumption, UniformSizeAssumption DEF Allocated, Wrapped, Ring
  <2> HIDE DEF s, ku
  <2> QED
    BY <1>1, <1>2, <1>3, <1>4, <2>1, UniformSizeAssumption
<1>8. CASE r.free + UniformSize > RingSize
  <2>1. r.free = full
    BY <1>8, WrapsAtRest
  <2>2. s.free = UniformSize /\ s.used = r.used + (RingSize - r.free) + UniformSize
        /\ s.used <= RingSize
    BY <1>1, <1>8, RingSizeAssumption, UniformSizeAssumption
       DEF Allocated, Wrapped, Ring, Fits, Rings
  <2> HIDE DEF s, ku, full
  <2>3. s.free <= ku + UniformSize
    BY <1>2, <2>2, UniformSizeAssumption
  <2>4. CASE ku < full
    BY <1>1, <1>2, <1>3, <1>4, <2>1, <2>2, <2>3, <2>4, UniformSizeAssumption
  <2>5. CASE full <= ku
    BY <1>1, <1>2, <1>3, <2>1, <2>2, <2>3, <2>5, UniformSizeAssumption
  <2> QED
    BY <1>2, <1>3, <2>4, <2>5
<1> QED
  BY <1>1, <1>7, <1>8, RingSizeAssumption, UniformSizeAssumption

(* One more fits. *)
LEMMA OneMoreFits ==
  \A r \in Rings : \A k \in Nat :
     Aligned(r.free) /\ k + 1 <= Slots /\ Within(r, r.used, k) => Fits(r, UniformSize)
<1> SUFFICES ASSUME NEW r \in Rings, NEW k \in Nat,
                    Aligned(r.free), k + 1 <= Slots, Within(r, r.used, k)
             PROVE  Fits(r, UniformSize)
  OBVIOUS
<1> DEFINE ku == k * UniformSize
           full == Slots * UniformSize
<1>1. r.free \in Nat /\ r.used \in Nat
  BY RingFacts
<1>2. ku \in Nat /\ ku + UniformSize <= full
  BY Multiples, SlotsFit
<1>3. full \in Nat /\ Rest \in Nat /\ RingSize = full + Rest
  BY SlotsFit, RingSizeAssumption DEF Rest
<1>4. r.used <= ku + (IF r.free <= ku THEN Rest ELSE 0)
  BY DEF Within
<1>5. r.free + UniformSize > RingSize => r.free = full
  BY WrapsAtRest
<1> HIDE DEF ku, full
<1> QED
  BY <1>1, <1>2, <1>3, <1>4, <1>5, RingSizeAssumption, UniformSizeAssumption
     DEF Fits, Wrapped, Ring

(* The block that ends at e is not written, and is one allocation older. *)
LEMMA BlockKept ==
  \A r \in Rings : \A k \in Nat : \A o :
     /\ Fits(r, UniformSize) /\ Aligned(r.free) /\ Aligned(o)
     /\ o + UniformSize <= RingSize
     /\ k + 2 <= Slots /\ Within(r, Behind(r, o + UniformSize), k)
     => /\ ~Overlap(o, OffsetOf(r, UniformSize))
        /\ Within(Allocated(r, UniformSize),
                  Behind(Allocated(r, UniformSize), o + UniformSize), k + 1)
<1> SUFFICES ASSUME NEW r \in Rings, NEW k \in Nat, NEW o,
                    Fits(r, UniformSize), Aligned(r.free), Aligned(o),
                    o + UniformSize <= RingSize,
                    k + 2 <= Slots, Within(r, Behind(r, o + UniformSize), k)
             PROVE  /\ ~Overlap(o, OffsetOf(r, UniformSize))
                    /\ Within(Allocated(r, UniformSize),
                              Behind(Allocated(r, UniformSize), o + UniformSize), k + 1)
  OBVIOUS
<1> DEFINE s == Allocated(r, UniformSize)
           ku == k * UniformSize
           full == Slots * UniformSize
           e == o + UniformSize
<1>1. r.free \in Nat /\ r.used \in Nat /\ o \in Nat /\ r.free <= RingSize
  BY RingFacts, WrapsAtRest DEF Rings
<1>2. ku \in Nat /\ ku + UniformSize + UniformSize <= full
      /\ (k + 1) * UniformSize = ku + UniformSize
  <2>1. k + 1 \in Nat /\ k + 1 < Slots
    BY SlotsFit
  <2> QED
    BY <2>1, Multiples, SlotsFit
<1>3. full \in Nat /\ Rest \in Nat /\ RingSize = full + Rest
  BY SlotsFit, RingSizeAssumption DEF Rest
<1>4. Behind(r, e) <= ku + (IF r.free <= ku THEN Rest ELSE 0)
  BY DEF Within
<1>5. Aligned(e) /\ e <= full
  BY WrapsAtRest
<1>6. \E n \in Nat : e = n * UniformSize
  BY <1>5, SlotsFit DEF Aligned
<1>7. \E n \in Nat : r.free = n * UniformSize
  BY SlotsFit DEF Aligned
<1>8. r.free < e => r.free + UniformSize <= e
  BY <1>5, <1>7, WrapsAtRest
<1>9. SUFFICES /\ ~Overlap(o, OffsetOf(r, UniformSize))
               /\ Behind(s, e) <= ku + UniformSize
                      + (IF s.free <= ku + UniformSize THEN Rest ELSE 0)
  BY <1>2 DEF Within
<1>10. e \in Nat \ {0} /\ e <= RingSize
  BY <1>1, UniformSizeAssumption
<1>11. \A q : Behind(q, e) = (IF e - 1 < q.free THEN q.free - (e - 1)
                              ELSE RingSize - (e - 1) + q.free) - 1
  BY DEF Behind, Age
<1>12. CASE r.free + UniformSize <= RingSize
  <2>1. s.free = r.free + UniformSize /\ OffsetOf(r, UniformSize) = r.free
    BY <1>1, <1>12, RingSizeAssumption, UniformSizeAssumption
       DEF Allocated, OffsetOf, Wrapped, Ring
  <2> HIDE DEF s, ku, full
  <2>2. CASE e <= r.free
    <3>1. Behind(r, e) = r.free - e /\ Behind(s, e) = s.free - e
      BY <1>1, <1>10, <1>11, <2>1, <2>2, UniformSizeAssumption
    <3> QED
      BY <1>1, <1>2, <1>3, <1>4, <1>10, <2>1, <2>2, <3>1, UniformSizeAssumption DEF Overlap
  <2>3. CASE r.free < e
    <3>1. Behind(r, e) = RingSize - e + r.free
      BY <1>1, <1>10, <1>11, <2>3, RingSizeAssumption
    <3>2. r.free + UniformSize + UniformSize <= e
      BY <1>1, <1>2, <1>3, <1>4, <1>5, <1>10, <2>3, <3>1, UniformSizeAssumption, RingSizeAssumption
    <3>3. Behind(s, e) = RingSize - e + s.free
      BY <1>1, <1>10, <1>11, <2>1, <3>2, RingSizeAssumption, UniformSizeAssumption
    <3> QED
      BY <1>1, <1>2, <1>3, <1>4, <1>10, <2>1, <3>1, <3>2, <3>3, UniformSizeAssumption DEF Overlap
  <2> QED
    BY <1>1, <1>10, <2>2, <2>3
<1>13. CASE r.free + UniformSize > RingSize
  <2>1. r.free = full
    BY <1>13, WrapsAtRest
  <2>2. s.free = UniformSize /\ OffsetOf(r, UniformSize) = 0
    BY <1>1, <1>13, RingSizeAssumption, UniformSizeAssumption
       DEF Allocated, OffsetOf, Wrapped, Ring
  <2> HIDE DEF s, ku, full
  <2>3. Behind(r, e) = full - e
    BY <1>1, <1>3, <1>5, <1>10, <1>11, <2>1
  <2>4. UniformSize + UniformSize <= e
    BY <1>1, <1>2, <1>3, <1>4, <1>10, <2>1, <2>3, UniformSizeAssumption
  <2>5. Behind(s, e) = RingSize - e + UniformSize
    BY <1>1, <1>10, <1>11, <2>2, <2>4, RingSizeAssumption, UniformSizeAssumption
  <2> QED
    BY <1>1, <1>2, <1>3, <1>4, <1>10, <2>1, <2>2, <2>3, <2>4, <2>5, UniformSizeAssumption DEF Overlap
<1> QED
  BY <1>1, <1>12, <1>13, RingSizeAssumption, UniformSizeAssumption

-----------------------------------------------------------------------------
(* The counts, and steps that allocate nothing. *)

(* The invariant that the counts make, whatever room the ring has.         *)
OwnInv ==
  /\ FramesOfOne
  /\ MarksCounted
  /\ RingsAligned
  /\ OwnIsLast
  /\ UsedBounded
  /\ MarksBounded

LEMMA FramesTimes ==
  /\ PerFrame \in Nat
  /\ \A k \in Nat : k * PerFrame \in Nat /\ (k + 1) * PerFrame = k * PerFrame + PerFrame
  /\ \A k, n \in Nat : k <= n => k * PerFrame <= n * PerFrame
<1>1. PerFrame \in Nat
  BY BoundsAssumption DEF PerFrame
<1>2. \A k, n, u \in Nat : k <= n => k * u <= n * u
  OBVIOUS
<1>3. \A k, u \in Nat : (k + 1) * u = k * u + u
  OBVIOUS
<1>4. \A k, u \in Nat : k * u \in Nat
  OBVIOUS
<1> QED
  BY <1>1, <1>2, <1>3, <1>4

LEMMA SinceFacts ==
  ASSUME TypeOK, MarksCounted
  PROVE  /\ LastPlace = (IF Recorded THEN CmdBufCount ELSE CmdBufCount - 1)
         /\ LastPlace \in Nat
         /\ Current \in 0 .. PerFrame
         /\ updates \in 0 .. MaxUpdates
         /\ \A p \in 0 .. CmdBufCount :
              /\ Since(p) = (CmdBufCount - p) * PerFrame + updates
                               + (IF Recorded THEN Current ELSE 0)
              /\ (CmdBufCount - p) * PerFrame \in Nat
              /\ Since(p) \in Nat
         /\ Since(LastPlace + 1) = updates
         /\ \A p \in 0 .. LastPlace + 1 : Since(p) \in Nat
<1>1. CmdBufCount \in Nat \ {0} /\ MaxUpdates \in Nat /\ MaxDraws \in Nat
  BY CmdBufCountAssumption, BoundsAssumption
<1>2. /\ marks \in [Bufs -> Seq(Marks)] /\ cur \in Bufs
      /\ updates \in 0 .. MaxUpdates
  BY DEF TypeOK, FramesTypeOK
<1>3. Len(marks[cur]) \in Nat /\ Len(marks[cur]) <= MaxDraws
  BY <1>2 DEF MarksCounted
<1>4. Current \in 0 .. PerFrame
  BY <1>1, <1>3 DEF Current, PerFrame
<1>5. LastPlace = (IF Recorded THEN CmdBufCount ELSE CmdBufCount - 1)
  BY DEF LastPlace
<1>6. ASSUME NEW p \in 0 .. CmdBufCount
      PROVE  /\ Since(p) = (CmdBufCount - p) * PerFrame + updates
                               + (IF Recorded THEN Current ELSE 0)
             /\ (CmdBufCount - p) * PerFrame \in Nat
             /\ Since(p) \in Nat
  <2>1. ~(p > CmdBufCount) /\ CmdBufCount - p \in Nat
    BY <1>1
  <2>2. (CmdBufCount - p) * PerFrame \in Nat
    BY <2>1, FramesTimes
  <2>3. Since(p) = (CmdBufCount - p) * PerFrame + updates
                               + (IF Recorded THEN Current ELSE 0)
    BY <2>1 DEF Since
  <2> QED
    BY <1>1, <1>2, <1>4, <2>2, <2>3
<1>7. Since(LastPlace + 1) = updates
  <2>1. CASE Recorded
    BY <1>1, <1>5, <2>1 DEF Since
  <2>2. CASE ~Recorded
    <3>1. LastPlace + 1 = CmdBufCount /\ CmdBufCount \in 0 .. CmdBufCount
      BY <1>1, <1>5, <2>2
    <3>2. Since(CmdBufCount) = (CmdBufCount - CmdBufCount) * PerFrame + updates
                               + (IF Recorded THEN Current ELSE 0)
      BY <1>6, <3>1
    <3>3. CmdBufCount - CmdBufCount = 0 /\ 0 * PerFrame = 0
      BY <1>1, FramesTimes
    <3> QED
      BY <1>2, <2>2, <3>1, <3>2, <3>3
  <2> QED
    BY <2>1, <2>2
<1>8. \A p \in 0 .. LastPlace + 1 : Since(p) \in Nat
  <2> TAKE p \in 0 .. LastPlace + 1
  <2>1. CASE p \in 0 .. CmdBufCount
    BY <1>6, <2>1
  <2>2. CASE p = LastPlace + 1
    BY <1>1, <1>2, <1>7, <2>2
  <2> QED
    BY <1>1, <1>5, <2>1, <2>2
<1> QED
  BY <1>1, <1>2, <1>4, <1>5, <1>6, <1>7, <1>8

(* Where the counts range, in a form to be used in the next state.         *)
Numbers ==
  /\ \A b \in Bufs : Place(b) \in 0 .. CmdBufCount
  /\ LastPlace \in Nat
  /\ updates \in 0 .. MaxUpdates
  /\ \A p \in 0 .. LastPlace + 1 : Since(p) \in Nat

LEMMA AreNumbers == TypeOK /\ MarksCounted => Numbers
  BY Places, SinceFacts DEF Numbers

(* Behind every place there were at most as many allocations as there are  *)
(* now behind the one with the same frames before it.                      *)
FramesCarried ==
  \A p \in 0 .. LastPlace' + 1 : \E q \in 0 .. LastPlace + 1 :
     /\ Since(q) <= Since(p)'
     /\ \A b \in Bufs : marks[b] # <<>> => (Place(b) < q <=> Place(b)' < p)

OrderCarried ==
  \A b, c \in Bufs :
     marks[b] # <<>> /\ marks[c] # <<>> /\ Place(b) < Place(c)
        => Place(b)' < Place(c)'

(* Steps that allocate nothing and free nothing: what was after a place is *)
(* after one that has the same frames before it.                           *)
LEMMA BoundsCarried ==
  ASSUME TypeOK, TypeOK', OwnInv, MarksCounted',
         prim'.gen = prim.gen, marks' = marks,
         prim.gen # NoPipeline => ring'[prim.gen] = ring[prim.gen],
         FramesCarried, OrderCarried
  PROVE  UsedBounded' /\ MarksBounded'
<1>1. /\ marks \in [Bufs -> Seq(Marks)]
      /\ ring \in [Generations -> Rings]
      /\ prim.gen # NoPipeline => prim.gen \in Generations
  BY DEF TypeOK, Prims
<1>2. \A b \in Bufs : Mine(b)' <=> Mine(b)
  BY DEF Mine
<1>3. \A b \in Bufs : Mine(b) => marks[b] # <<>>
  BY <1>1 DEF Mine
<1>0. Numbers /\ Numbers'
  <2>1. Numbers
    BY AreNumbers DEF OwnInv
  <2>2. Numbers'
    BY AreNumbers, PTL
  <2> QED
    BY <2>1, <2>2
<1>4. LastPlace \in Nat /\ LastPlace' \in Nat
  BY <1>0 DEF Numbers
<1>5. \A q \in 0 .. LastPlace + 1 : Since(q) \in Nat
  BY <1>0 DEF Numbers
<1>6. \A p \in 0 .. LastPlace' + 1 : Since(p)' \in Nat
  BY <1>0 DEF Numbers
<1>7. UsedBounded'
  <2> SUFFICES ASSUME prim.gen # NoPipeline, NEW p \in 0 .. LastPlace' + 1,
                      \A c \in Bufs : Place(c)' < p => ~Mine(c)
               PROVE  Within(ring[prim.gen], ring[prim.gen].used, Since(p)')
    BY <1>2 DEF UsedBounded
  <2>1. PICK q \in 0 .. LastPlace + 1 :
            /\ Since(q) <= Since(p)'
            /\ \A b \in Bufs : marks[b] # <<>> => (Place(b) < q <=> Place(b)' < p)
    BY DEF FramesCarried
  <2>2. Within(ring[prim.gen], ring[prim.gen].used, Since(q))
    BY <1>3, <2>1 DEF OwnInv, UsedBounded
  <2>3. ring[prim.gen] \in Rings /\ ring[prim.gen].used \in Nat
    BY <1>1, RingFacts
  <2> QED
    BY <1>5, <1>6, <2>1, <2>2, <2>3, WithinMore
<1>8. MarksBounded'
  <2> SUFFICES ASSUME NEW b \in Bufs, NEW i \in DOMAIN marks[b],
                      marks[b][i].gen = prim.gen,
                      NEW p \in Place(b)' + 1 .. LastPlace' + 1,
                      NoneBetween(b, p)'
               PROVE  Within(ring'[prim.gen],
                             Age(ring'[prim.gen], LastUnit(marks[b][i])) - 1,
                             Since(p)' + Len(marks[b]) - i)
    BY DEF MarksBounded, LastUnit
  <2>0. /\ marks[b] # <<>> /\ marks[b] \in Seq(Marks)
        /\ i \in 1 .. Len(marks[b]) /\ Len(marks[b]) \in Nat
    BY <1>1
  <2>1. Place(b) \in Nat /\ Place(b)' \in Nat
    BY <1>0, CmdBufCountAssumption DEF Numbers
  <2>2. p \in 0 .. LastPlace' + 1 /\ Place(b)' < p
    <3>1. \A low, high \in Nat : \A x \in low + 1 .. high + 1 :
             x \in 0 .. high + 1 /\ low < x
      OBVIOUS
    <3>2. Place(b)' \in Nat /\ LastPlace' \in Nat
      BY <1>4, <2>1
    <3> HIDE DEF OrderCarried
    <3> QED
      BY <3>1, <3>2
  <2>3. PICK q \in 0 .. LastPlace + 1 :
            /\ Since(q) <= Since(p)'
            /\ \A c \in Bufs : marks[c] # <<>> => (Place(c) < q <=> Place(c)' < p)
    BY <2>2 DEF FramesCarried
  <2>4. Place(b) < q
    BY <2>0, <2>2, <2>3
  <2>5. q \in Place(b) + 1 .. LastPlace + 1
    BY <1>4, <2>1, <2>4
  <2>6. NoneBetween(b, q)
    BY <1>2, <1>3, <2>0, <2>3 DEF NoneBetween, OrderCarried
  <2>7. Within(ring[prim.gen], Age(ring[prim.gen], LastUnit(marks[b][i])) - 1,
               Since(q) + Len(marks[b]) - i)
    BY <2>5, <2>6 DEF OwnInv, MarksBounded
  <2>8. /\ prim.gen \in Generations /\ ring[prim.gen] \in Rings
        /\ LastUnit(marks[b][i]) \in Units
    BY <1>1, MarkFacts
  <2>9. Age(ring[prim.gen], LastUnit(marks[b][i])) - 1 \in Nat
    <3>1. Age(ring[prim.gen], LastUnit(marks[b][i])) \in 1 .. RingSize
      BY <2>8, AgeRange
    <3> QED
      BY <3>1, RingSizeAssumption
  <2>10. ring'[prim.gen] = ring[prim.gen]
    BY <2>8 DEF Generations, NoPipeline
  <2>11. /\ Since(q) + Len(marks[b]) - i \in Nat
         /\ Since(p)' + Len(marks[b]) - i \in Nat
         /\ Since(q) + Len(marks[b]) - i <= Since(p)' + Len(marks[b]) - i
    <3>1. Since(q) \in Nat /\ Since(p)' \in Nat /\ Since(q) <= Since(p)'
      BY <1>5, <1>6, <2>2, <2>3
    <3>2. Len(marks[b]) - i \in Nat
      BY <2>0
    <3> QED
      BY <3>1, <3>2
  <2> QED
    BY <2>7, <2>8, <2>9, <2>10, <2>11, WithinMore
<1> QED
  BY <1>7, <1>8

-----------------------------------------------------------------------------
(* An allocation. *)

(* What copy_updated_uniforms does to the counts. *)
LEMMA CopyCounts ==
  ASSUME TypeOK, RingsAligned, NEW u, CopyUpdated(u)
  PROVE  /\ prim.gen \in Generations
         /\ prim'.gen = prim.gen
         /\ RingsAligned'
         /\ OwnIsLast'
         /\ \A k \in Nat : Within(ring[prim.gen], ring[prim.gen].used, k) =>
               Within(ring'[prim.gen], ring'[prim.gen].used, k + 1)
         /\ \A x \in Units : Age(ring[prim.gen], x) <= ring[prim.gen].used =>
               \A k \in Nat : Within(ring[prim.gen], Age(ring[prim.gen], x) - 1, k) =>
                  Within(ring'[prim.gen], Age(ring'[prim.gen], x) - 1, k + 1)
         /\ \A o : \A k \in Nat :
               /\ Aligned(o) /\ o + UniformSize <= RingSize /\ k + 2 <= Slots
               /\ Within(ring[prim.gen], Behind(ring[prim.gen], o + UniformSize), k)
               => /\ ~Overlap(o, prim'.offset)
                  /\ Within(ring'[prim.gen],
                            Behind(ring'[prim.gen], o + UniformSize), k + 1)
<1> DEFINE g == prim.gen
           r == ring[g]
           s == Allocated(r, UniformSize)
<1>1. /\ g \in Generations
      /\ r \in Rings
      /\ Fits(r, UniformSize)
      /\ prim'.offset = OffsetOf(r, UniformSize)
      /\ prim'.gen = g
      /\ ring' = [ring EXCEPT ![g] = s]
      /\ ring \in [Generations -> Rings]
  BY DEF TypeOK, Prims, CopyUpdated, Prim
<1>2. ring'[g] = s /\ \A h \in Generations : h # g => ring'[h] = ring[h]
  BY <1>1
<1>3. Aligned(r.free) /\ Aligned(s.free)
  BY <1>1, AllocatedAligned DEF RingsAligned
<1>4. RingsAligned'
  BY <1>2, <1>3 DEF RingsAligned, Aligned
<1>5. OwnIsLast'
  <2>1. prim'.gen # NoPipeline
    BY <1>1 DEF Generations, NoPipeline
  <2>2. ring'[prim.gen].free = prim'.offset + UniformSize
    BY CopyAges
  <2> QED
    BY <1>1, <2>1, <2>2 DEF OwnIsLast
<1>6. s \in Rings /\ s.used \in Nat /\ r.used \in Nat
  BY <1>1, AllocatedRing, RingFacts
<1>7. ASSUME NEW k \in Nat, Within(r, r.used, k)
      PROVE  Within(s, s.used, k + 1)
  <2>1. Within(s, r.used + (s.used - r.used), k + 1)
    BY <1>1, <1>3, <1>6, <1>7, WithinAllocated
  <2>2. r.used + (s.used - r.used) = s.used
    BY <1>6
  <2> QED
    BY <2>1, <2>2
<1>8. ASSUME NEW x \in Units, Age(r, x) <= r.used, NEW k \in Nat,
             Within(r, Age(r, x) - 1, k)
      PROVE  Within(s, Age(s, x) - 1, k + 1)
  <2>1. Age(r, x) \in 1 .. RingSize /\ Age(s, x) = Age(r, x) + (s.used - r.used)
    BY <1>1, <1>8, AgeRange, AgeShift
  <2>2. Age(r, x) - 1 \in Nat /\ Age(r, x) - 1 <= r.used
    BY <1>6, <1>8, <2>1
  <2>3. Within(s, (Age(r, x) - 1) + (s.used - r.used), k + 1)
    BY <1>1, <1>3, <1>8, <2>2, WithinAllocated
  <2>4. Age(s, x) - 1 = (Age(r, x) - 1) + (s.used - r.used)
    BY <1>6, <2>1
  <2> QED
    BY <2>3, <2>4
<1>9. ASSUME NEW o, NEW k \in Nat, Aligned(o), o + UniformSize <= RingSize,
             k + 2 <= Slots, Within(r, Behind(r, o + UniformSize), k)
      PROVE  /\ ~Overlap(o, OffsetOf(r, UniformSize))
             /\ Within(s, Behind(s, o + UniformSize), k + 1)
  BY <1>1, <1>3, <1>9, BlockKept
<1> QED
  BY <1>1, <1>2, <1>4, <1>5, <1>7, <1>8, <1>9

LEMMA MarkStretch ==
  ASSUME TypeOK, NEW b \in Bufs, NEW i \in DOMAIN marks[b]
  PROVE  /\ marks[b] \in Seq(Marks) /\ Len(marks[b]) \in Nat
         /\ i \in 1 .. Len(marks[b])
         /\ marks[b][i].gen \in Generations
         /\ LastUnit(marks[b][i]) \in Units
         /\ ring[marks[b][i].gen] \in Rings
         /\ Age(ring[marks[b][i].gen], LastUnit(marks[b][i])) - 1 \in Nat
<1>1. marks[b] \in Seq(Marks)
  BY DEF TypeOK
<1>2. /\ marks[b][i].gen \in Generations
      /\ LastUnit(marks[b][i]) \in Units
      /\ ring[marks[b][i].gen] \in Rings
  BY MarkFacts
<1>3. Age(ring[marks[b][i].gen], LastUnit(marks[b][i])) \in 1 .. RingSize
  BY <1>2, AgeRange
<1> QED
  BY <1>1, <1>2, <1>3, RingSizeAssumption

(* update() adds an allocation that no draw has taken yet. *)
LEMMA UpdateCounts ==
  ASSUME TypeOK, RingInv, OwnInv, Update
  PROVE  OwnInv'
<1> DEFINE g == prim.gen
<1>1. /\ CopyUpdated(TRUE) /\ step = "idle"
      /\ UNCHANGED <<step, cur, marks>>
      /\ updates' = updates + 1
  BY DEF Update, frameVars
<1>2. /\ g \in Generations /\ prim'.gen = g
      /\ RingsAligned' /\ OwnIsLast'
      /\ \A k \in Nat : Within(ring[g], ring[g].used, k) =>
               Within(ring'[g], ring'[g].used, k + 1)
      /\ \A x \in Units : Age(ring[g], x) <= ring[g].used =>
               \A k \in Nat : Within(ring[g], Age(ring[g], x) - 1, k) =>
                  Within(ring'[g], Age(ring'[g], x) - 1, k + 1)
  BY <1>1, CopyCounts DEF OwnInv
<1>3. FramesOfOne' /\ MarksCounted'
  BY <1>1 DEF OwnInv, FramesOfOne, MarksCounted
<1>4. /\ \A b \in Bufs : Place(b)' = Place(b)
      /\ \A b \in Bufs : Mine(b)' <=> Mine(b)
      /\ LastPlace' = LastPlace
      /\ LastPlace \in Nat
  <2>1. LastPlace \in Nat
    BY AreNumbers DEF OwnInv, Numbers
  <2> QED
    BY <1>1, <1>2, <2>1 DEF Place, Mine, LastPlace, Recorded
<1>5. \A p \in 0 .. LastPlace + 1 : Since(p) \in Nat /\ Since(p)' = Since(p) + 1
  <2> TAKE p \in 0 .. LastPlace + 1
  <2>1. Since(p) = (CmdBufCount - p) * PerFrame + updates /\ updates \in Nat
        /\ (CmdBufCount - p) * PerFrame \in Nat /\ Since(p) \in Nat
    <3>1. ~Recorded
      BY <1>1 DEF Recorded
    <3>2. LastPlace = CmdBufCount - 1
      BY <3>1 DEF LastPlace
    <3>3. p \in 0 .. CmdBufCount
      BY <3>2, CmdBufCountAssumption
    <3>4. /\ Since(p) = (CmdBufCount - p) * PerFrame + updates
                               + (IF Recorded THEN Current ELSE 0)
          /\ (CmdBufCount - p) * PerFrame \in Nat
          /\ updates \in 0 .. MaxUpdates
      BY <3>3, SinceFacts DEF OwnInv
    <3> QED
      BY <3>1, <3>4, BoundsAssumption
  <2>2. Since(p)' = (CmdBufCount - p) * PerFrame + updates'
    <3>1. ~Recorded /\ ~Recorded'
      BY <1>1 DEF Recorded
    <3>2. Since(p)' = (CmdBufCount - p) * PerFrame + updates' + 0
      BY <3>1 DEF Since
    <3> QED
      BY <1>1, <2>1, <3>2
  <2> QED
    BY <1>1, <2>1, <2>2
<1>6. UsedBounded'
  <2> SUFFICES ASSUME NEW p \in 0 .. LastPlace + 1,
                      \A c \in Bufs : Place(c) < p => ~Mine(c)
               PROVE  Within(ring'[g], ring'[g].used, Since(p) + 1)
    BY <1>2, <1>4, <1>5 DEF UsedBounded
  <2>1. Within(ring[g], ring[g].used, Since(p))
    BY <1>2 DEF OwnInv, UsedBounded, Generations, NoPipeline
  <2> QED
    BY <1>2, <1>5, <2>1
<1>7. MarksBounded'
  <2> SUFFICES ASSUME NEW b \in Bufs, NEW i \in DOMAIN marks[b],
                      marks[b][i].gen = g,
                      NEW p \in Place(b) + 1 .. LastPlace + 1, NoneBetween(b, p)
               PROVE  Within(ring'[g], Age(ring'[g], LastUnit(marks[b][i])) - 1,
                             Since(p)' + Len(marks[b]) - i)
    BY <1>1, <1>2, <1>4 DEF MarksBounded, NoneBetween, LastUnit
  <2>1. Within(ring[g], Age(ring[g], LastUnit(marks[b][i])) - 1,
               Since(p) + Len(marks[b]) - i)
    BY DEF OwnInv, MarksBounded
  <2>2. /\ LastUnit(marks[b][i]) \in Units
        /\ Age(ring[g], LastUnit(marks[b][i])) <= ring[g].used
        /\ Len(marks[b]) - i \in Nat
    <3>1. i \in 1 .. Len(marks[b]) /\ Len(marks[b]) \in Nat
      BY MarkStretch
    <3>2. LastUnit(marks[b][i]) \in Units
      BY MarkStretch
    <3> QED
      BY <3>1, <3>2 DEF RingInv, MarksUsed
  <2>3. p \in 0 .. LastPlace + 1
    <3>1. Place(b) \in Nat
      BY Places, CmdBufCountAssumption
    <3> QED
      BY <1>4, <3>1
  <2>4. /\ Since(p) + Len(marks[b]) - i \in Nat
        /\ Since(p)' + Len(marks[b]) - i = (Since(p) + Len(marks[b]) - i) + 1
    <3>1. Since(p) \in Nat /\ Since(p)' = Since(p) + 1
      BY <1>5, <2>3
    <3>2. Len(marks[b]) \in Nat /\ i \in Nat /\ Len(marks[b]) - i \in Nat
      BY <2>2, MarkStretch
    <3> QED
      BY <3>1, <3>2
  <2> QED
    BY <1>2, <2>1, <2>2, <2>4
<1> QED
  BY <1>2, <1>3, <1>6, <1>7 DEF OwnInv

-----------------------------------------------------------------------------
(* A draw that allocates. *)

(* What a frame that is recorded allocated may grow until its next mark. *)
LEMMA RecordedNow ==
  ASSUME TypeOK, OwnInv, step = "record"
  PROVE  /\ Recorded /\ LastPlace = CmdBufCount /\ Place(cur) = CmdBufCount
         /\ cur \in Bufs /\ marks[cur] \in Seq(Marks) /\ Len(marks[cur]) \in Nat
         /\ updates \in Nat /\ updates <= MaxUpdates
         /\ Len(marks[cur]) <= drawn
         /\ updates + Current <= MaxUpdates + Len(marks[cur])
         /\ Len(marks[cur]) > 0 => updates = 0
         /\ \A p \in 0 .. CmdBufCount :
               /\ (CmdBufCount - p) * PerFrame \in Nat
               /\ Since(p) = (CmdBufCount - p) * PerFrame + updates + Current
         /\ Since(CmdBufCount + 1) = updates
         /\ Current = (IF Len(marks[cur]) = 0 THEN 0 ELSE Len(marks[cur]) + MaxUpdates)
<1>1. Recorded /\ LastPlace = CmdBufCount /\ Place(cur) = CmdBufCount
  BY DEF Recorded, LastPlace, Place
<1>2. /\ cur \in Bufs /\ marks[cur] \in Seq(Marks) /\ Len(marks[cur]) \in Nat
  BY DEF TypeOK, FramesTypeOK
<1>3. updates \in Nat /\ updates <= MaxUpdates /\ MaxUpdates \in Nat
  BY BoundsAssumption DEF TypeOK
<1>4. marks[cur] = <<>> <=> Len(marks[cur]) = 0
  BY <1>2
<1>5. Len(marks[cur]) <= drawn /\ (Len(marks[cur]) > 0 => updates = 0)
  BY <1>4 DEF OwnInv, MarksCounted
<1>6. Current = IF Len(marks[cur]) = 0 THEN 0 ELSE Len(marks[cur]) + MaxUpdates
  BY <1>4 DEF Current
<1>7. updates + Current <= MaxUpdates + Len(marks[cur])
  BY <1>2, <1>3, <1>5, <1>6
<1>8. /\ \A p \in 0 .. CmdBufCount :
               /\ (CmdBufCount - p) * PerFrame \in Nat
               /\ Since(p) = (CmdBufCount - p) * PerFrame + updates + Current
      /\ Since(CmdBufCount + 1) = updates
  BY <1>1, SinceFacts DEF OwnInv
<1> QED
  BY <1>1, <1>2, <1>3, <1>5, <1>6, <1>7, <1>8

(* What a draw that allocates does to the counts. *)
LEMMA DrawCounts ==
  ASSUME TypeOK, OwnInv, DrawUpdated
  PROVE  /\ LastPlace = CmdBufCount /\ LastPlace' = CmdBufCount
         /\ Recorded /\ Recorded'
         /\ \A b \in Bufs : Place(b)' = Place(b)
         /\ Place(cur) = CmdBufCount
         /\ \A p \in 0 .. CmdBufCount :
               Since(p) \in Nat /\ Since(p)' \in Nat /\ Since(p) + 1 <= Since(p)'
         /\ Since(CmdBufCount + 1) = updates
         /\ Since(CmdBufCount + 1)' = 0
         /\ marks[cur] # <<>> => updates = 0
<1>1. /\ step = "record" /\ UNCHANGED <<step, cur>> /\ updates' = 0
      /\ WillFree(prim.gen, ring'[prim.gen].free)
  BY DEF DrawUpdated, CountDraw, frameVars
<1> DEFINE n == Len(marks[cur])
<1>2. /\ Recorded /\ LastPlace = CmdBufCount /\ Place(cur) = CmdBufCount
      /\ cur \in Bufs /\ marks[cur] \in Seq(Marks) /\ n \in Nat
      /\ updates \in Nat /\ updates <= MaxUpdates
      /\ n > 0 => updates = 0
      /\ \A p \in 0 .. CmdBufCount :
               /\ (CmdBufCount - p) * PerFrame \in Nat
               /\ Since(p) = (CmdBufCount - p) * PerFrame + updates + Current
      /\ Since(CmdBufCount + 1) = updates
      /\ Current = (IF n = 0 THEN 0 ELSE n + MaxUpdates)
  BY <1>1, RecordedNow
<1>3. Recorded' /\ LastPlace' = CmdBufCount
  BY <1>1 DEF Recorded, LastPlace
<1>4. marks'[cur] # <<>> /\ Len(marks'[cur]) = n + 1
  <2>1. marks'[cur] = Append(marks[cur], Mark(prim.gen, ring'[prim.gen].free))
    BY <1>1, <1>2 DEF WillFree, TypeOK
  <2> QED
    BY <1>2, <2>1
<1>5. Current' = n + 1 + MaxUpdates
  BY <1>1, <1>4 DEF Current
<1>6. MaxUpdates \in Nat
  BY BoundsAssumption
<1>7. updates + Current + 1 <= Current' /\ Current \in Nat /\ Current' \in Nat
  BY <1>2, <1>5, <1>6
<1>8. ASSUME NEW p \in 0 .. CmdBufCount
      PROVE  Since(p) \in Nat /\ Since(p)' \in Nat /\ Since(p) + 1 <= Since(p)'
  <2>1. ~(p > CmdBufCount)
    BY CmdBufCountAssumption
  <2>2. Since(p)' = (CmdBufCount - p) * PerFrame + 0 + Current'
    BY <1>1, <1>3, <2>1 DEF Since
  <2>3. /\ (CmdBufCount - p) * PerFrame \in Nat
        /\ Since(p) = (CmdBufCount - p) * PerFrame + updates + Current
    BY <1>2
  <2>4. \A x, y, c, d \in Nat : y + c + 1 <= d =>
           x + y + c \in Nat /\ x + 0 + d \in Nat /\ (x + y + c) + 1 <= x + 0 + d
    OBVIOUS
  <2>5. updates \in Nat
    BY <1>2
  <2> QED
    BY <1>7, <2>2, <2>3, <2>4, <2>5
<1>9. Since(CmdBufCount + 1)' = 0
  BY <1>1, <1>3, CmdBufCountAssumption DEF Since
<1>10. marks[cur] # <<>> => updates = 0
  BY <1>2
<1>11. \A b \in Bufs : Place(b)' = Place(b)
  BY <1>1 DEF Place
<1> QED
  BY <1>2, <1>3, <1>8, <1>9, <1>10, <1>11

(* Its mark is the youngest, and the updates before it are its frame's.    *)
LEMMA DrawUpdatedCounts ==
  ASSUME TypeOK, RingInv, OwnInv, DrawUpdated
  PROVE  OwnInv'
<1> DEFINE g == prim.gen
           n == Len(marks[cur])
           mark == Mark(g, ring'[g].free)
<1>0. PICK w \in Bufs : w = cur
  BY DEF TypeOK, FramesTypeOK
<1>1. /\ CopyUpdated(FALSE)
      /\ step = "record" /\ UNCHANGED <<step, cur>>
      /\ cur \in Bufs
      /\ marks \in [Bufs -> Seq(Marks)]
      /\ marks' = [marks EXCEPT ![cur] = Append(marks[cur], mark)]
      /\ updates' = 0 /\ drawn' = drawn + 1 /\ drawn < MaxDraws
      /\ drawn \in 0 .. MaxDraws
  BY DEF TypeOK, FramesTypeOK, DrawUpdated, CountDraw, frameVars, WillFree
<1>2. /\ g \in Generations /\ prim'.gen = g
      /\ RingsAligned' /\ OwnIsLast'
      /\ \A k \in Nat : Within(ring[g], ring[g].used, k) =>
               Within(ring'[g], ring'[g].used, k + 1)
      /\ \A x \in Units : Age(ring[g], x) <= ring[g].used =>
               \A k \in Nat : Within(ring[g], Age(ring[g], x) - 1, k) =>
                  Within(ring'[g], Age(ring'[g], x) - 1, k + 1)
  BY <1>1, CopyCounts DEF OwnInv
<1>3. /\ \A b \in Bufs : b # cur => marks'[b] = marks[b]
      /\ n \in Nat
      /\ DOMAIN marks[cur] = 1 .. n
      /\ Len(marks'[cur]) = n + 1
      /\ DOMAIN marks'[cur] = 1 .. n + 1
      /\ \A i \in 1 .. n : marks'[cur][i] = marks[cur][i]
      /\ marks'[cur][n + 1] = mark
  BY <1>1
<1>4. mark.gen = g /\ mark.offset = ring'[g].free
  BY DEF Mark
<1>5. /\ LastPlace = CmdBufCount /\ LastPlace' = CmdBufCount
      /\ \A b \in Bufs : Place(b)' = Place(b)
      /\ Place(cur) = CmdBufCount
      /\ \A p \in 0 .. CmdBufCount :
               Since(p) \in Nat /\ Since(p)' \in Nat /\ Since(p) + 1 <= Since(p)'
      /\ Since(CmdBufCount + 1) = updates
      /\ Since(CmdBufCount + 1)' = 0
      /\ marks[cur] # <<>> => updates = 0
  BY DrawCounts
<1>6. \A i \in DOMAIN marks'[cur] : marks'[cur][i].gen = g
  BY <1>1, <1>3, <1>4 DEF OwnInv, FramesOfOne
<1>7. FramesOfOne'
  <2>1. \A b \in Bufs : \A i, j \in DOMAIN marks'[b] :
           marks'[b][i].gen = marks'[b][j].gen
    <3> TAKE b \in Bufs
    <3> TAKE i, j \in DOMAIN marks'[b]
    <3>1. CASE b = cur
      BY <1>6, <3>1
    <3>2. CASE b # cur
      BY <1>3, <3>2 DEF OwnInv, FramesOfOne
    <3> QED
      BY <3>1, <3>2
  <2> QED
    BY <1>1, <1>2, <1>6, <2>1 DEF FramesOfOne
<1>8. MarksCounted'
  <2>1. n <= drawn
    BY <1>1 DEF OwnInv, MarksCounted
  <2>2. Len(marks'[cur]) <= MaxDraws /\ Len(marks'[cur]) <= drawn'
    BY <1>1, <1>3, <2>1, BoundsAssumption
  <2>3. \A b \in Bufs : Len(marks'[b]) <= MaxDraws
    BY <1>3, <2>2 DEF OwnInv, MarksCounted
  <2> QED
    BY <1>1, <2>2, <2>3 DEF MarksCounted
<1>9. Mine(w)' /\ \A b \in Bufs : b # cur => (Mine(b)' <=> Mine(b))
  <2>1. n + 1 \in DOMAIN marks'[cur]
    BY <1>3
  <2>2. Mine(w)'
    BY <1>0, <1>2, <1>6, <2>1 DEF Mine
  <2> QED
    BY <1>2, <1>3, <2>2 DEF Mine
<1>10. \A b \in Bufs : Place(b) \in 0 .. CmdBufCount
  BY Places
<1>11. UsedBounded'
  <2> SUFFICES ASSUME NEW p \in 0 .. CmdBufCount + 1,
                      \A c \in Bufs : Place(c) < p => ~Mine(c)'
               PROVE  Within(ring'[g], ring'[g].used, Since(p)')
    BY <1>2, <1>5 DEF UsedBounded
  <2>1. p \in 0 .. CmdBufCount
    BY <1>0, <1>5, <1>9, CmdBufCountAssumption
  <2>2. \A c \in Bufs : Place(c) < p => ~Mine(c)
    BY <1>5, <1>9, <2>1, CmdBufCountAssumption
  <2>3. Within(ring[g], ring[g].used, Since(p))
    BY <1>2, <1>5, <2>2 DEF OwnInv, UsedBounded, Generations, NoPipeline
  <2>4. Within(ring'[g], ring'[g].used, Since(p) + 1)
    BY <1>2, <1>5, <2>1, <2>3
  <2>5. ring'[g] \in Rings /\ ring'[g].used \in Nat
    BY <1>1, <1>2, CopyAges, RingFacts
  <2> QED
    BY <1>5, <2>1, <2>4, <2>5, WithinMore
<1>12. ASSUME NEW b \in Bufs, NEW i \in DOMAIN marks[b], marks[b][i].gen = g,
              NEW k \in Nat, NEW l \in Nat, k + 1 <= l,
              Within(ring[g], Age(ring[g], LastUnit(marks[b][i])) - 1, k)
       PROVE  Within(ring'[g], Age(ring'[g], LastUnit(marks[b][i])) - 1, l)
  <2>1. /\ LastUnit(marks[b][i]) \in Units
        /\ Age(ring[g], LastUnit(marks[b][i])) <= ring[g].used
    <3>1. LastUnit(marks[b][i]) \in Units
      BY MarkStretch
    <3> QED
      BY <1>12, <3>1 DEF RingInv, MarksUsed
  <2>2. Within(ring'[g], Age(ring'[g], LastUnit(marks[b][i])) - 1, k + 1)
    BY <1>2, <1>12, <2>1
  <2>3. ring'[g] \in Rings
    BY <1>1, <1>2, CopyAges
  <2>4. Age(ring'[g], LastUnit(marks[b][i])) - 1 \in Nat
    <3>1. Age(ring'[g], LastUnit(marks[b][i])) \in 1 .. RingSize
      BY <2>1, <2>3, AgeRange
    <3> QED
      BY <3>1, RingSizeAssumption
  <2> QED
    BY <1>12, <2>2, <2>3, <2>4, WithinMore
<1>13. MarksBounded'
  <2> SUFFICES ASSUME NEW b \in Bufs, NEW i \in DOMAIN marks'[b],
                      marks'[b][i].gen = g,
                      NEW p \in Place(b) + 1 .. CmdBufCount + 1,
                      NoneBetween(b, p)'
               PROVE  Within(ring'[g], Age(ring'[g], LastUnit(marks'[b][i])) - 1,
                             Since(p)' + Len(marks'[b]) - i)
    BY <1>2, <1>5 DEF MarksBounded, LastUnit
  <2>1. Place(b) \in Nat /\ p \in 0 .. CmdBufCount + 1 /\ Place(b) < p
    BY <1>10, CmdBufCountAssumption
  <2>2. CASE b # cur
    <3>1. marks'[b] = marks[b] /\ i \in DOMAIN marks[b]
      BY <1>3, <2>2
    <3>2. p \in 0 .. CmdBufCount
      <4>1. b # cur => Place(b) \in 1 .. CmdBufCount - 1
        BY Places
      <4>2. Place(b)' < Place(w)' /\ Place(w)' < CmdBufCount + 1
        <5>1. Place(b)' = Place(b) /\ Place(w)' = Place(w)
          BY <1>5
        <5>2. Place(w) = CmdBufCount
          BY <1>0, <1>5
        <5> QED
          BY <2>2, <4>1, <5>1, <5>2, CmdBufCountAssumption
      <4>3. p # CmdBufCount + 1
        BY <1>9, <4>2 DEF NoneBetween
      <4> QED
        BY <2>1, <4>3, CmdBufCountAssumption
    <3>3. NoneBetween(b, p)
      BY <1>5, <1>9, <3>2, CmdBufCountAssumption DEF NoneBetween
    <3>4. Within(ring[g], Age(ring[g], LastUnit(marks[b][i])) - 1,
                 Since(p) + Len(marks[b]) - i)
      BY <1>5, <3>1, <3>3 DEF OwnInv, MarksBounded
    <3>5. Len(marks[b]) - i \in Nat
      <4>1. i \in 1 .. Len(marks[b]) /\ Len(marks[b]) \in Nat
        BY <3>1, MarkStretch
      <4> QED
        BY <4>1
    <3>6. Since(p) \in Nat /\ Since(p)' \in Nat /\ Since(p) + 1 <= Since(p)'
      BY <1>5, <3>2
    <3>7. /\ Since(p) + Len(marks[b]) - i \in Nat
          /\ Since(p)' + Len(marks[b]) - i \in Nat
          /\ (Since(p) + Len(marks[b]) - i) + 1 <= Since(p)' + Len(marks[b]) - i
      <4>1. Len(marks[b]) \in Nat /\ i \in Nat
        BY <3>1, MarkStretch
      <4>2. \A x, y, l, j \in Nat : l - j \in Nat /\ x + 1 <= y =>
               x + l - j \in Nat /\ y + l - j \in Nat /\ (x + l - j) + 1 <= y + l - j
        OBVIOUS
      <4> QED
        BY <3>5, <3>6, <4>1, <4>2
    <3> QED
      BY <1>12, <3>1, <3>4, <3>7
  <2>3. CASE b = cur
    <3>1. p = CmdBufCount + 1
      BY <1>5, <2>3, CmdBufCountAssumption
    <3>2. CASE i = n + 1
      <4>1. LastUnit(marks'[b][i]) = ring'[g].free - 1
        BY <1>3, <1>4, <2>3, <3>2 DEF LastUnit
      <4>2. ring'[g] \in Rings /\ ring'[g].free \in Nat
        BY <1>1, <1>2, CopyAges, RingFacts
      <4>3. Age(ring'[g], ring'[g].free - 1) = 1
        BY <4>2 DEF Age
      <4>4. Since(p)' + Len(marks'[b]) - i = 0
        <5>1. Since(p)' = 0 /\ Len(marks'[b]) = n + 1
          BY <1>3, <1>5, <2>3, <3>1
        <5> QED
          BY <1>3, <3>2, <5>1
      <4>5. 0 * UniformSize = 0 /\ Rest \in Nat
        BY UniformSizeAssumption, SlotsFit
      <4>6. Within(ring'[g], 0, 0)
        BY <4>5 DEF Within
      <4> QED
        BY <4>1, <4>3, <4>4, <4>6
    <3>3. CASE i # n + 1
      <4>1. i \in 1 .. n /\ i \in DOMAIN marks[cur] /\ marks'[cur][i] = marks[cur][i]
        BY <1>3, <2>3, <3>3
      <4>2. marks[cur] # <<>> /\ updates = 0
        <5>1. n # 0
          BY <1>3, <4>1
        <5>2. marks[cur] # <<>>
          BY <5>1, <1>1
        <5> QED
          BY <1>5, <5>2
      <4>3. NoneBetween(cur, p)
        BY <1>5, <1>10, <3>1, CmdBufCountAssumption DEF NoneBetween
      <4>4. p \in Place(cur) + 1 .. LastPlace + 1
        BY <1>5, <2>3
      <4>5. Within(ring[g], Age(ring[g], LastUnit(marks[cur][i])) - 1,
                   Since(p) + Len(marks[cur]) - i)
        BY <1>1, <2>3, <4>1, <4>3, <4>4 DEF OwnInv, MarksBounded
      <4>6. /\ Since(p) + Len(marks[cur]) - i = n - i
            /\ Since(p)' + Len(marks'[cur]) - i = n + 1 - i
            /\ n - i \in Nat /\ n + 1 - i \in Nat /\ (n - i) + 1 <= n + 1 - i
        <5>1. Since(p) = 0 /\ Since(p)' = 0 /\ Len(marks'[cur]) = n + 1
          BY <1>3, <1>5, <3>1, <4>2
        <5>2. \A l \in Nat : \A j \in 1 .. l :
                 /\ 0 + l - j = l - j /\ 0 + (l + 1) - j = l + 1 - j
                 /\ l - j \in Nat /\ l + 1 - j \in Nat /\ (l - j) + 1 <= l + 1 - j
          OBVIOUS
        <5>3. n \in Nat /\ i \in 1 .. n
          BY <1>3, <4>1
        <5>4. 0 + n - i = n - i /\ 0 + (n + 1) - i = n + 1 - i
          BY <5>2, <5>3
        <5>5. /\ n - i \in Nat /\ n + 1 - i \in Nat /\ (n - i) + 1 <= n + 1 - i
          BY <5>2, <5>3
        <5> HIDE DEF n
        <5> QED
          BY <5>1, <5>4, <5>5 DEF n
      <4> QED
        BY <1>1, <1>12, <2>3, <4>1, <4>5, <4>6
    <3> QED
      BY <3>2, <3>3
  <2> QED
    BY <2>2, <2>3
<1> QED
  BY <1>2, <1>7, <1>8, <1>11, <1>13 DEF OwnInv

-----------------------------------------------------------------------------
(* Steps that keep the counts, and the end of a frame. *)

(* A ring of the object is never reset, and the free offset of a fresh one *)
(* is aligned.                                                             *)
LEMMA RingsStayAligned ==
  ASSUME RingsAligned, NEW alive
  PROVE  \A h \in Generations : Aligned(OfAlive(ring, alive)[h].free)
<1>1. EmptyRing.free = 0
  BY DEF EmptyRing, Ring
<1>2. \A h \in Generations :
         OfAlive(ring, alive)[h] = IF h \in alive THEN ring[h] ELSE EmptyRing
  BY DEF OfAlive
<1>3. \A h \in Generations : Aligned(ring[h].free)
  BY DEF RingsAligned
<1> QED
  BY <1>1, <1>2, <1>3, EndsAligned

(* Steps after which every frame has its place. *)
LEMMA SamePlaces ==
  ASSUME TypeOK, OwnInv, UNCHANGED <<cur, marks, updates>>, Recorded' <=> Recorded
  PROVE  /\ FramesCarried /\ OrderCarried
         /\ \A p \in 0 .. LastPlace + 1 : Since(p)' = Since(p)
         /\ \A b \in Bufs : Place(b)' = Place(b)
         /\ LastPlace' = LastPlace
<1>1. \A b \in Bufs : Place(b)' = Place(b)
  BY DEF Place, Recorded
<1>2. LastPlace' = LastPlace
  BY DEF LastPlace
<1>3. \A p \in 0 .. LastPlace + 1 : Since(p)' = Since(p)
  BY DEF Since, Current
<1>4. \A p \in 0 .. LastPlace + 1 : Since(p) \in Nat
  BY AreNumbers DEF OwnInv, Numbers
<1>5. OrderCarried
  BY <1>1 DEF OrderCarried
<1>6. FramesCarried
  <2> SUFFICES ASSUME NEW p \in 0 .. LastPlace + 1
               PROVE  \E q \in 0 .. LastPlace + 1 :
                         /\ Since(q) <= Since(p)'
                         /\ \A b \in Bufs : marks[b] # <<>> =>
                               (Place(b) < q <=> Place(b)' < p)
    BY <1>2 DEF FramesCarried
  <2>1. Since(p) <= Since(p)'
    BY <1>3, <1>4
  <2> QED
    BY <1>1, <2>1
<1> QED
  BY <1>1, <1>2, <1>3, <1>5, <1>6

(* Steps that neither allocate nor free, in the same part of a frame. *)
LEMMA QuietCounts ==
  ASSUME TypeOK, TypeOK', OwnInv,
         \/ SetUniform \/ DrawUnchanged \/ Overflow \/ Begin \/ SubmitFrame
         \/ Gpu \/ (OtherDrawStep /\ ~Present /\ ~PresentRecreates)
         \/ UNCHANGED vars
  PROVE  OwnInv'
<1>1. /\ UNCHANGED <<cur, marks, updates, ring>>
      /\ prim'.gen = prim.gen /\ prim'.own = prim.own /\ prim'.offset = prim.offset
      /\ Recorded' <=> Recorded
      /\ step' = "record" => step = "record" /\ drawn' >= drawn
  <2>1. CASE SetUniform \/ DrawUnchanged \/ Overflow \/ UNCHANGED vars
    <3>1. UNCHANGED <<step, cur, marks, updates, ring>>
      BY <2>1 DEF SetUniform, DrawUnchanged, Overflow, vars, frameVars, primVars
    <3>2. prim'.gen = prim.gen /\ prim'.own = prim.own /\ prim'.offset = prim.offset
      <4>1. CASE SetUniform
        BY <4>1 DEF SetUniform, Prim
      <4>2. CASE DrawUnchanged \/ Overflow \/ UNCHANGED vars
        <5>1. UNCHANGED prim
          BY <4>2 DEF DrawUnchanged, Overflow, vars, primVars
        <5> QED
          BY <5>1
      <4> QED
        BY <2>1, <4>1, <4>2
    <3>3. drawn \in Nat
      BY BoundsAssumption DEF TypeOK
    <3>4. drawn' >= drawn
      <4>1. drawn' = drawn + 1 \/ drawn' = drawn
        BY <2>1 DEF SetUniform, DrawUnchanged, CountDraw, Overflow, vars, primVars
      <4> QED
        BY <3>3, <4>1
    <3> QED
      BY <3>1, <3>2, <3>4 DEF Recorded
  <2>2. CASE Begin \/ SubmitFrame \/ Gpu
             \/ (OtherDrawStep /\ ~Present /\ ~PresentRecreates)
    <3>1. UNCHANGED primVars
      BY <2>2 DEF Begin, SubmitFrame, Gpu, OtherDrawStep
    <3>2. UNCHANGED <<prim, marks, updates, ring, drawn>>
      BY <3>1 DEF primVars
    <3>3. UNCHANGED cur /\ (Recorded' <=> Recorded)
          /\ (step' = "record" => step = "record")
      BY <2>2 DEF Begin, SubmitFrame, Gpu, OtherDrawStep, DrawStep, BeginDraw, Submit,
                  GpuDone, WaitFence, AcquireImage, AcquireOutOfDate, AcquireError,
                  PresentComplains, Recorded
    <3>4. drawn \in Nat
      BY BoundsAssumption DEF TypeOK
    <3> QED
      BY <3>2, <3>3, <3>4
  <2> QED
    BY <2>1, <2>2
<1>2. RingsAligned' /\ OwnIsLast'
  BY <1>1 DEF OwnInv, RingsAligned, Aligned, OwnIsLast
<1>3. FramesOfOne'
  BY <1>1 DEF OwnInv, FramesOfOne
<1>4. MarksCounted'
  <2>1. cur \in Bufs /\ marks[cur] \in Seq(Marks) /\ drawn \in Nat /\ drawn' \in Nat
    BY BoundsAssumption DEF TypeOK, FramesTypeOK
  <2>2. Len(marks[cur]) \in Nat
    BY <2>1
  <2> QED
    BY <1>1, <2>1, <2>2 DEF OwnInv, MarksCounted
<1>5. FramesCarried /\ OrderCarried
  BY <1>1, SamePlaces
<1>6. UsedBounded' /\ MarksBounded'
  BY <1>1, <1>4, <1>5, BoundsCarried
<1> QED
  BY <1>2, <1>3, <1>4, <1>6 DEF OwnInv

(* The frame is done: it is one of those before the next. *)
LEMMA PresentCounts ==
  ASSUME TypeOK, TypeOK', OwnInv, OtherDrawStep, Present \/ PresentRecreates
  PROVE  /\ OwnInv'
         /\ Recorded /\ ~Recorded'
         /\ \A b \in Bufs : Place(b)' = Place(b) - 1
         /\ \A p \in 0 .. CmdBufCount : Since(p)' \in Nat
         /\ \A p \in 1 .. CmdBufCount + 1 : Since(p) <= Since(p - 1)'
         /\ Since(CmdBufCount)' = updates
<1>1. /\ step \in {"present", "recreate"} /\ step' = "idle"
      /\ cur \in Bufs /\ cur' = IF cur + 1 = CmdBufCount THEN 0 ELSE cur + 1
  BY NextInTurn DEF Present, PresentRecreates, Advance, TypeOK, FramesTypeOK
<1>2. UNCHANGED <<prim, marks, updates, ring, drawn>>
  BY DEF OtherDrawStep, primVars
<1>3. \A b \in Bufs : Place(b)' = Place(b) - 1
  BY <1>1, CmdBufCountAssumption DEF Place, Bufs
<1>4. Recorded /\ ~Recorded' /\ LastPlace = CmdBufCount /\ LastPlace' = CmdBufCount - 1
  BY <1>1 DEF Recorded, LastPlace
<1>5. \A b \in Bufs : Place(b) \in 0 .. CmdBufCount
  BY Places
<1>6. /\ Current \in 0 .. PerFrame /\ PerFrame \in Nat
      /\ updates \in Nat
      /\ \A p \in 0 .. CmdBufCount :
           /\ Since(p) = (CmdBufCount - p) * PerFrame + updates + Current
           /\ (CmdBufCount - p) * PerFrame \in Nat
      /\ Since(CmdBufCount + 1) = updates
  <2>1. updates \in 0 .. MaxUpdates
    BY SinceFacts DEF OwnInv
  <2> QED
    BY <1>4, <2>1, SinceFacts, FramesTimes, BoundsAssumption DEF OwnInv
<1>7. \A p \in 0 .. CmdBufCount : /\ Since(p)' = (CmdBufCount - p) * PerFrame + updates
                                  /\ Since(p)' \in Nat
  <2> TAKE p \in 0 .. CmdBufCount
  <2>1. Since(p)' = (CmdBufCount - p) * PerFrame + updates + 0
    BY <1>2, <1>4 DEF Since
  <2>2. (CmdBufCount - p) * PerFrame \in Nat /\ updates \in Nat
    BY <1>6
  <2> QED
    BY <2>1, <2>2
<1>8. \A p \in 1 .. CmdBufCount + 1 : Since(p) <= Since(p - 1)'
  <2> TAKE p \in 1 .. CmdBufCount + 1
  <2>0. p - 1 \in 0 .. CmdBufCount /\ p - 1 \in Nat
    BY CmdBufCountAssumption
  <2>1. PICK o \in 0 .. CmdBufCount : o = p - 1
    BY <2>0
  <2>2. Since(o)' = (CmdBufCount - o) * PerFrame + updates
    BY <1>7
  <2>3. CASE p = CmdBufCount + 1
    <3>1. (CmdBufCount - o) * PerFrame \in Nat
      BY <1>6
    <3> QED
      BY <1>6, <2>1, <2>2, <2>3, <3>1
  <2>4. CASE p # CmdBufCount + 1
    <3>1. p \in 0 .. CmdBufCount /\ CmdBufCount - p \in Nat
          /\ CmdBufCount - o = (CmdBufCount - p) + 1
      BY <2>1, <2>4, CmdBufCountAssumption
    <3>2. (CmdBufCount - o) * PerFrame = (CmdBufCount - p) * PerFrame + PerFrame
      BY <3>1, FramesTimes
    <3>3. Since(p) = (CmdBufCount - p) * PerFrame + updates + Current
          /\ (CmdBufCount - p) * PerFrame \in Nat
      BY <1>6, <3>1
    <3>4. \A x, y, f \in Nat : \A c \in 0 .. f : x + y + c <= (x + f) + y
      OBVIOUS
    <3>5. Since(p) <= (CmdBufCount - o) * PerFrame + updates
      BY <1>6, <3>2, <3>3, <3>4
    <3> QED
      BY <2>1, <2>2, <3>5
  <2> QED
    BY <2>3, <2>4
<1>9. RingsAligned' /\ OwnIsLast'
  BY <1>2 DEF OwnInv, RingsAligned, Aligned, OwnIsLast
<1>10. FramesOfOne' /\ MarksCounted'
  BY <1>1, <1>2 DEF OwnInv, FramesOfOne, MarksCounted
<1>11. OrderCarried
  BY <1>3, <1>5, CmdBufCountAssumption DEF OrderCarried
<1>12. FramesCarried
  <2> SUFFICES ASSUME NEW p \in 0 .. CmdBufCount
               PROVE  \E q \in 0 .. CmdBufCount + 1 :
                         /\ Since(q) <= Since(p)'
                         /\ \A b \in Bufs : marks[b] # <<>> =>
                               (Place(b) < q <=> Place(b)' < p)
    <3>1. \A p : p \in 0 .. LastPlace' + 1 <=> p \in 0 .. CmdBufCount
      BY <1>4, CmdBufCountAssumption
    <3> QED
      BY <1>4, <3>1 DEF FramesCarried
  <2>1. PICK q \in 1 .. CmdBufCount + 1 : q = p + 1
    BY CmdBufCountAssumption
  <2>2. q - 1 = p /\ q \in 0 .. CmdBufCount + 1
    BY <2>1, CmdBufCountAssumption
  <2>3. Since(q) <= Since(p)'
    BY <1>8, <2>2
  <2>4. \A b \in Bufs : Place(b) < q <=> Place(b)' < p
    BY <1>3, <1>5, <2>1, CmdBufCountAssumption
  <2> QED
    BY <2>2, <2>3, <2>4
<1>13. UsedBounded' /\ MarksBounded'
  BY <1>2, <1>10, <1>11, <1>12, BoundsCarried
<1>14. Since(CmdBufCount)' = updates
  <2>1. CmdBufCount \in 0 .. CmdBufCount /\ CmdBufCount - CmdBufCount = 0
    BY CmdBufCountAssumption
  <2>2. 0 * PerFrame = 0
    BY FramesTimes
  <2> QED
    BY <1>6, <1>7, <2>1, <2>2
<1> QED
  BY <1>3, <1>4, <1>7, <1>8, <1>9, <1>10, <1>13, <1>14 DEF OwnInv

-----------------------------------------------------------------------------
(* Buffers that are dropped, created and released. *)

(* Without a pipeline there is nothing to count in.                        *)
LEMMA DestroyCounts ==
  ASSUME TypeOK, OwnInv, DestroyPipeline
  PROVE  OwnInv'
<1>1. /\ step = "idle" /\ UNCHANGED <<step, cur, marks, updates, drawn>>
      /\ prim'.gen = NoPipeline /\ ~prim'.own
      /\ ring' = OfAlive(ring, AliveWith(NoPipeline, held))
  BY DEF DestroyPipeline, frameVars, Prim
<1>2. RingsAligned'
  BY <1>1, RingsStayAligned DEF OwnInv, RingsAligned, Aligned
<1>3. OwnIsLast' /\ UsedBounded'
  BY <1>1 DEF OwnIsLast, UsedBounded
<1>4. FramesOfOne' /\ MarksCounted'
  BY <1>1 DEF OwnInv, FramesOfOne, MarksCounted
<1>5. \A b \in Bufs : \A i \in DOMAIN marks[b] : marks[b][i].gen # NoPipeline
  BY MarkFacts DEF Generations, NoPipeline
<1>6. MarksBounded'
  BY <1>1, <1>5 DEF MarksBounded
<1> QED
  BY <1>2, <1>3, <1>4, <1>6 DEF OwnInv

(* Nobody has a mark in the new ring. *)
LEMMA CreateCounts ==
  ASSUME TypeOK, TypeOK', RingInv, OwnInv, UpdateCreates
  PROVE  OwnInv'
<1>1. PICK g \in Generations \ Alive :
         /\ ring' = [ring EXCEPT ![g] = EmptyRing]
         /\ prim' = Prim(g, prim.offset, FALSE, FALSE)
  BY DEF UpdateCreates
<1>2. /\ step = "idle" /\ UNCHANGED <<step, cur, held, marks, updates, drawn>>
      /\ prim'.gen = g /\ ~prim'.own
      /\ ring \in [Generations -> Rings]
      /\ EmptyRing.free = 0 /\ EmptyRing.used = 0
  BY <1>1 DEF UpdateCreates, frameVars, Prim, TypeOK, EmptyRing, Ring
<1>3. ring'[g] = EmptyRing /\ \A h \in Generations : h # g => ring'[h] = ring[h]
  BY <1>1, <1>2
<1>4. RingsAligned'
  <2>1. \A h \in Generations : Aligned(ring'[h].free)
    BY <1>2, <1>3, EndsAligned DEF OwnInv, RingsAligned
  <2> QED
    BY <2>1 DEF RingsAligned, Aligned
<1>5. OwnIsLast'
  BY <1>2 DEF OwnIsLast
<1>6. FramesOfOne' /\ MarksCounted'
  BY <1>2 DEF OwnInv, FramesOfOne, MarksCounted
<1>7. \A b \in Bufs : \A i \in DOMAIN marks[b] : marks[b][i].gen # g
  BY DEF RingInv, GensHeld, Alive, AliveWith
<1>8. MarksBounded'
  BY <1>2, <1>7 DEF MarksBounded
<1>9. UsedBounded'
  <2>1. Numbers'
    BY <1>6, AreNumbers, PTL
  <2> SUFFICES ASSUME NEW p \in 0 .. LastPlace' + 1
               PROVE  Within(EmptyRing, 0, Since(p)')
    BY <1>2, <1>3 DEF UsedBounded
  <2>2. Since(p)' \in Nat
    BY <2>1 DEF Numbers
  <2>3. Since(p)' * UniformSize \in Nat /\ Rest \in Nat
    BY <2>2, Multiples, SlotsFit
  <2> QED
    BY <2>3 DEF Within
<1> QED
  BY <1>4, <1>5, <1>6, <1>8, <1>9 DEF OwnInv

(* The buffer that is begun has no marks left: it goes from the first      *)
(* place to the last.                                                      *)
LEMMA DropPlaces ==
  ASSUME TypeOK, OwnInv, DropReferences
  PROVE  /\ FramesCarried /\ OrderCarried
         /\ ~Recorded /\ Recorded'
         /\ \A b \in Bufs : b # cur => Place(b)' = Place(b)
         /\ \A p \in 0 .. CmdBufCount : Since(p) \in Nat /\ Since(p)' = Since(p)
<1>1. /\ UNCHANGED <<cur, marks, updates>>
      /\ marks[cur] = <<>>
      /\ step = "release" /\ step' = "record"
      /\ cur \in Bufs
  BY DEF DropReferences, BeginCommands, TypeOK, FramesTypeOK
<1>2. ~Recorded /\ Recorded' /\ LastPlace = CmdBufCount - 1 /\ LastPlace' = CmdBufCount
  BY <1>1 DEF Recorded, LastPlace
<1>3. \A b \in Bufs : b # cur => Place(b)' = Place(b)
  BY <1>1 DEF Place
<1>4. \A b \in Bufs : b # cur => Place(b) \in 1 .. CmdBufCount - 1
  BY Places
<1>5. \A b \in Bufs : marks[b] # <<>> => b # cur
  BY <1>1
<1>6. OrderCarried
  BY <1>3, <1>5 DEF OrderCarried
<1>7. updates \in Nat /\ Since(CmdBufCount) = updates
      /\ \A p \in 0 .. CmdBufCount :
           /\ Since(p) = (CmdBufCount - p) * PerFrame + updates
           /\ (CmdBufCount - p) * PerFrame \in Nat
           /\ Since(p) \in Nat
  <2>1. updates \in Nat
    BY BoundsAssumption DEF TypeOK
  <2>2. \A p \in 0 .. CmdBufCount :
           /\ Since(p) = (CmdBufCount - p) * PerFrame + updates + 0
           /\ (CmdBufCount - p) * PerFrame \in Nat
           /\ Since(p) \in Nat
    BY <1>2, SinceFacts DEF OwnInv
  <2>3. Since(LastPlace + 1) = updates /\ LastPlace + 1 = CmdBufCount
    BY <1>2, SinceFacts, CmdBufCountAssumption DEF OwnInv
  <2> QED
    BY <2>1, <2>2, <2>3
<1>8. Current' = 0
  BY <1>1 DEF Current
<1>9. \A p \in 0 .. CmdBufCount : Since(p)' = Since(p)
  <2> TAKE p \in 0 .. CmdBufCount
  <2>1. ~(p > CmdBufCount)
    BY CmdBufCountAssumption
  <2>2. Since(p)' = (CmdBufCount - p) * PerFrame + updates + 0
    BY <1>1, <1>2, <1>8, <2>1 DEF Since
  <2> QED
    BY <1>7, <2>2
<1>10. Since(CmdBufCount + 1)' = updates
  BY <1>1, <1>2, CmdBufCountAssumption DEF Since
<1>11. FramesCarried
  <2> SUFFICES ASSUME NEW p \in 0 .. CmdBufCount + 1
               PROVE  \E q \in 0 .. CmdBufCount :
                         /\ Since(q) <= Since(p)'
                         /\ \A b \in Bufs : marks[b] # <<>> =>
                               (Place(b) < q <=> Place(b)' < p)
    <3>1. \A q : q \in 0 .. LastPlace + 1 <=> q \in 0 .. CmdBufCount
      BY <1>2, CmdBufCountAssumption
    <3> QED
      BY <1>2, <3>1 DEF FramesCarried
  <2>1. CASE p \in 0 .. CmdBufCount
    <3>1. Since(p) <= Since(p)'
      BY <1>7, <1>9, <2>1
    <3> QED
      BY <1>3, <1>5, <2>1, <3>1
  <2>2. CASE p = CmdBufCount + 1
    <3>1. PICK q \in 0 .. CmdBufCount : q = CmdBufCount
      BY CmdBufCountAssumption
    <3>2. Since(q) <= Since(p)'
      BY <1>7, <1>10, <2>2, <3>1
    <3>3. \A b \in Bufs : marks[b] # <<>> => (Place(b) < q <=> Place(b)' < p)
      BY <1>3, <1>4, <1>5, <2>2, <3>1, CmdBufCountAssumption
    <3> QED
      BY <3>2, <3>3
  <2> QED
    BY <2>1, <2>2, CmdBufCountAssumption
<1> QED
  BY <1>2, <1>3, <1>6, <1>7, <1>9, <1>11

\* so the counts are kept
LEMMA DropCounts ==
  ASSUME TypeOK, TypeOK', OwnInv, DropReferences
  PROVE  OwnInv'
<1>1. /\ UNCHANGED <<cur, marks, updates, prim>>
      /\ marks[cur] = <<>>
      /\ cur \in Bufs
      /\ drawn' = 0
      /\ step' = "record"
      /\ ring' = OfAlive(ring, AliveWith(prim.gen, held'))
      /\ prim.gen # NoPipeline => prim.gen \in Generations
  BY DEF DropReferences, BeginCommands, TypeOK, FramesTypeOK, Prims
<1>2. RingsAligned'
  BY <1>1, RingsStayAligned DEF OwnInv, RingsAligned, Aligned
<1>3. prim.gen # NoPipeline => ring'[prim.gen] = ring[prim.gen]
  BY <1>1 DEF OfAlive, AliveWith
<1>4. OwnIsLast'
  BY <1>1, <1>3 DEF OwnInv, OwnIsLast
<1>5. DOMAIN marks[cur] = {} /\ Len(marks[cur]) = 0
  BY <1>1
<1>6. FramesOfOne' /\ MarksCounted'
  BY <1>1, <1>5 DEF OwnInv, FramesOfOne, MarksCounted
<1>7. UsedBounded' /\ MarksBounded'
  BY <1>1, <1>3, <1>6, DropPlaces, BoundsCarried
<1> QED
  BY <1>2, <1>4, <1>6, <1>7 DEF OwnInv

(* What remains used was allocated after the mark that is freed. *)
LEMMA FreeMarkCounts ==
  ASSUME TypeOK, RingInv, OwnInv, FreeMark
  PROVE  OwnInv'
<1> DEFINE m == Head(marks[cur])
           h == m.gen
           g == prim.gen
<1>0. PICK w \in Bufs : w = cur
  BY DEF TypeOK, FramesTypeOK
<1>1. /\ step = "release" /\ UNCHANGED <<step, cur, prim, updates, drawn>>
      /\ marks \in [Bufs -> Seq(Marks)]
      /\ ring \in [Generations -> Rings]
      /\ marks[w] \in Seq(Marks) /\ marks[w] # <<>>
      /\ ring' = [ring EXCEPT ![h] = FreedToMark(ring[h], m.offset)]
      /\ marks' = [marks EXCEPT ![w] = Tail(marks[w])]
      /\ g # NoPipeline => g \in Generations
  BY <1>0 DEF TypeOK, FreeMark, frameVars, Prims
<1>2. /\ \A b \in Bufs : b # w => marks'[b] = marks[b]
      /\ DOMAIN marks[w] = 1 .. Len(marks[w])
      /\ Len(marks[w]) \in Nat \ {0}
      /\ m = marks[w][1]
      /\ Len(marks'[w]) = Len(marks[w]) - 1
      /\ DOMAIN marks'[w] = 1 .. Len(marks[w]) - 1
      /\ \A i \in 1 .. Len(marks[w]) - 1 : marks'[w][i] = marks[w][i + 1]
  BY <1>0, <1>1
<1>3. 1 \in DOMAIN marks[w]
  BY <1>2
<1>4. /\ h \in Generations
      /\ m.offset \in 1 .. RingSize
      /\ LastUnit(m) \in Units
      /\ Age(ring[h], m.offset - 1) <= ring[h].used
      /\ ring[h] \in Rings
  BY <1>2, <1>3, MarkFacts DEF RingInv, MarksUsed, LastUnit
<1>5. /\ ring'[h] = FreedToMark(ring[h], m.offset)
      /\ ring'[h].used = Age(ring[h], LastUnit(m)) - 1
      /\ ring'[h].free = ring[h].free
      /\ ring'[h] \in Rings
      /\ \A x \in Units : Age(ring'[h], x) = Age(ring[h], x)
  <2>1. ring'[h] = FreedToMark(ring[h], m.offset)
    BY <1>1, <1>4
  <2>2. FreedToMark(ring[h], m.offset).free = ring[h].free
    BY DEF FreedToMark, Ring
  <2> QED
    BY <1>4, <2>1, <2>2, FreedRing DEF LastUnit
<1>6. \A k \in Generations : k # h => ring'[k] = ring[k]
  BY <1>1
<1>7. \A k \in Generations : /\ ring'[k].free = ring[k].free
                             /\ \A x \in Units : Age(ring'[k], x) = Age(ring[k], x)
  BY <1>5, <1>6
<1>8. /\ \A b \in Bufs : Place(b)' = Place(b)
      /\ Place(w) = 0
      /\ LastPlace = CmdBufCount - 1 /\ LastPlace' = CmdBufCount - 1
      /\ ~Recorded /\ ~Recorded'
  BY <1>0, <1>1 DEF Place, LastPlace, Recorded
<1>9. \A p \in 0 .. CmdBufCount : Since(p) \in Nat /\ Since(p)' = Since(p)
  <2> TAKE p \in 0 .. CmdBufCount
  <2>1. Since(p)' = Since(p)
    BY <1>1, <1>8 DEF Since
  <2>2. Since(p) \in Nat
    BY SinceFacts DEF OwnInv
  <2> QED
    BY <2>1, <2>2
<1>10. RingsAligned' /\ OwnIsLast'
  <2>1. OwnIsLast'
    BY <1>1, <1>7 DEF OwnInv, OwnIsLast
  <2> QED
    BY <1>7, <2>1 DEF OwnInv, RingsAligned, Aligned
<1>11. \A b \in Bufs : \A i \in DOMAIN marks'[b] :
          IF b = w THEN /\ i + 1 \in DOMAIN marks[b]
                        /\ marks'[b][i] = marks[b][i + 1]
                        /\ Len(marks'[b]) - i = Len(marks[b]) - (i + 1)
                   ELSE /\ i \in DOMAIN marks[b]
                        /\ marks'[b] = marks[b]
  <2> TAKE b \in Bufs
  <2> TAKE i \in DOMAIN marks'[b]
  <2>1. CASE b = w
    <3> DEFINE n == Len(marks[w])
    <3>1. n \in Nat \ {0} /\ i \in 1 .. n - 1
      BY <1>2, <2>1
    <3>2. i + 1 \in 1 .. n /\ (n - 1) - i = n - (i + 1)
      <4> HIDE DEF n
      <4> QED
        BY <3>1
    <3>3. marks'[w][i] = marks[w][i + 1]
      BY <1>2, <3>1
    <3> QED
      BY <1>2, <2>1, <3>2, <3>3
  <2>2. CASE b # w
    BY <1>2, <2>2
  <2> QED
    BY <2>1, <2>2
<1>12. \A b \in Bufs : \A i \in DOMAIN marks'[b] :
          \E k \in DOMAIN marks[b] : /\ marks'[b][i] = marks[b][k]
                                     /\ Len(marks'[b]) - i = Len(marks[b]) - k
  <2> TAKE b \in Bufs
  <2> TAKE i \in DOMAIN marks'[b]
  <2>1. CASE b = w
    BY <1>11, <2>1
  <2>2. CASE b # w
    BY <1>11, <2>2
  <2> QED
    BY <2>1, <2>2
<1>13. FramesOfOne' /\ MarksCounted'
  <2>1. \A b \in Bufs : Len(marks'[b]) <= MaxDraws
    <3>1. Len(marks[w]) <= MaxDraws
      BY DEF OwnInv, MarksCounted
    <3>2. Len(marks'[w]) <= MaxDraws
      BY <1>2, <3>1, BoundsAssumption
    <3> QED
      BY <1>2, <3>2 DEF OwnInv, MarksCounted
  <2>2. \A b \in Bufs : \A i, j \in DOMAIN marks'[b] :
           marks'[b][i].gen = marks'[b][j].gen
    BY <1>12 DEF OwnInv, FramesOfOne
  <2> QED
    BY <1>1, <2>1, <2>2 DEF FramesOfOne, MarksCounted
<1>14. \A b \in Bufs : b # w => (Mine(b)' <=> Mine(b))
  BY <1>1, <1>2 DEF Mine
<1>15. ASSUME NEW a, NEW k, g \in Generations
       PROVE  Within(ring'[g], a, k) <=> Within(ring[g], a, k)
  BY <1>7, <1>15 DEF Within
<1>16. \A b \in Bufs : b # w => Place(b) \in 1 .. CmdBufCount - 1
  BY <1>0, Places
<1>17. MarksBounded'
  <2> SUFFICES ASSUME NEW b \in Bufs, NEW i \in DOMAIN marks'[b],
                      marks'[b][i].gen = g,
                      NEW p \in Place(b) + 1 .. LastPlace + 1,
                      NoneBetween(b, p)'
               PROVE  Within(ring'[g], Age(ring'[g], LastUnit(marks'[b][i])) - 1,
                             Since(p)' + Len(marks'[b]) - i)
    BY <1>1, <1>8 DEF MarksBounded, LastUnit
  <2>1. PICK k \in DOMAIN marks[b] : /\ marks'[b][i] = marks[b][k]
                                     /\ Len(marks'[b]) - i = Len(marks[b]) - k
    BY <1>12
  <2>2. NoneBetween(b, p)
    <3> SUFFICES ASSUME NEW c \in Bufs, Place(b) < Place(c), Place(c) < p
                 PROVE  ~Mine(c)
      BY DEF NoneBetween
    <3>1. Place(b) \in Nat /\ Place(c) \in Nat
      BY Places, CmdBufCountAssumption
    <3>2. c # w
      BY <1>8, <3>1
    <3>3. ~Mine(c)'
      BY <1>8 DEF NoneBetween
    <3> QED
      BY <1>14, <3>2, <3>3
  <2>3. Within(ring[g], Age(ring[g], LastUnit(marks[b][k])) - 1,
               Since(p) + Len(marks[b]) - k)
    BY <2>1, <2>2 DEF OwnInv, MarksBounded
  <2>4. g \in Generations /\ LastUnit(marks[b][k]) \in Units
    BY <2>1, MarkFacts
  <2>5. Since(p)' + Len(marks'[b]) - i = Since(p) + Len(marks[b]) - k
    <3>1. Place(b) \in Nat
      BY Places, CmdBufCountAssumption
    <3>2. p \in 0 .. CmdBufCount
      BY <1>8, <3>1, CmdBufCountAssumption
    <3>3. Since(p)' = Since(p) /\ Since(p) \in Nat
      BY <1>9, <3>2
    <3>4. Len(marks[b]) \in Nat /\ k \in Nat /\ Len(marks'[b]) \in Nat /\ i \in Nat
      <4>1. marks[b] \in Seq(Marks) /\ marks'[b] \in Seq(Marks)
        BY <1>1
      <4> QED
        BY <4>1
    <3>5. \A s, l, j, n, q \in Nat : l - j = n - q => s + l - j = s + n - q
      OBVIOUS
    <3> QED
      BY <2>1, <3>3, <3>4, <3>5
  <2> QED
    BY <1>7, <1>15, <2>1, <2>3, <2>4, <2>5
<1>18. UsedBounded'
  <2> SUFFICES ASSUME g # NoPipeline, NEW p \in 0 .. CmdBufCount,
                      \A c \in Bufs : Place(c) < p => ~Mine(c)'
               PROVE  Within(ring[g], ring'[g].used, Since(p))
    <3>1. \A p : p \in 0 .. LastPlace' + 1 <=> p \in 0 .. CmdBufCount
      BY <1>8, CmdBufCountAssumption
    <3> QED
      BY <1>1, <1>8, <1>9, <1>15, <3>1 DEF UsedBounded
  <2>1. CASE h # g
    <3>1. Mine(w) => Mine(w)'
      <4> SUFFICES ASSUME Mine(w)
                   PROVE  Mine(w)'
        OBVIOUS
      <4>1. PICK i \in DOMAIN marks[w] : marks[w][i].gen = g
        BY DEF Mine
      <4>2. h = g
        BY <1>2, <1>3, <4>1 DEF OwnInv, FramesOfOne
      <4> QED
        BY <2>1, <4>2
    <3>2. \A c \in Bufs : Place(c) < p => ~Mine(c)
      BY <1>14, <3>1
    <3>3. p \in 0 .. LastPlace + 1
      BY <1>8, CmdBufCountAssumption
    <3>4. Within(ring[g], ring[g].used, Since(p))
      BY <3>2, <3>3 DEF OwnInv, UsedBounded
    <3>5. ring'[g] = ring[g]
      BY <1>1, <1>6, <2>1
    <3> QED
      BY <3>4, <3>5
  <2>2. CASE h = g
    <3>1. \A p1 \in 1 .. CmdBufCount : NoneBetween(w, p1) =>
             Within(ring[g], ring'[g].used, Since(p1) + Len(marks[w]) - 1)
      <4> TAKE p1 \in 1 .. CmdBufCount
      <4>1. p1 \in Place(w) + 1 .. LastPlace + 1
        BY <1>8, CmdBufCountAssumption
      <4> QED
        BY <1>2, <1>3, <1>5, <2>2, <4>1 DEF OwnInv, MarksBounded
    <3>2. CASE p = 0
      <4>1. PICK p1 \in 1 .. CmdBufCount : p1 = 1
        BY CmdBufCountAssumption
      <4>2. NoneBetween(w, p1)
        BY <1>8, <1>16, <4>1, CmdBufCountAssumption DEF NoneBetween
      <4>3. Within(ring[g], ring'[g].used, Since(p1) + Len(marks[w]) - 1)
        BY <3>1, <4>2
      <4>4. Since(p1) + Len(marks[w]) - 1 <= Since(p)
            /\ Since(p1) + Len(marks[w]) - 1 \in Nat /\ Since(p) \in Nat
        <5>1. /\ Since(0) = CmdBufCount * PerFrame + updates
              /\ Since(1) = (CmdBufCount - 1) * PerFrame + updates
              /\ updates \in Nat
          <6>1. 0 \in 0 .. CmdBufCount /\ 1 \in 0 .. CmdBufCount
                /\ CmdBufCount - 0 = CmdBufCount
            BY CmdBufCountAssumption
          <6>2. /\ Since(0) = (CmdBufCount - 0) * PerFrame + updates + 0
                /\ Since(1) = (CmdBufCount - 1) * PerFrame + updates + 0
                /\ (CmdBufCount - 0) * PerFrame \in Nat
                /\ (CmdBufCount - 1) * PerFrame \in Nat
                /\ updates \in 0 .. MaxUpdates
            BY <1>8, <6>1, SinceFacts DEF OwnInv
          <6> QED
            BY <6>1, <6>2, BoundsAssumption
        <5>2. /\ CmdBufCount * PerFrame = (CmdBufCount - 1) * PerFrame + PerFrame
              /\ (CmdBufCount - 1) * PerFrame \in Nat
          <6>1. CmdBufCount - 1 \in Nat /\ (CmdBufCount - 1) + 1 = CmdBufCount
            BY CmdBufCountAssumption
          <6> QED
            BY <6>1, FramesTimes
        <5>3. Len(marks[w]) \in Nat \ {0} /\ Len(marks[w]) <= MaxDraws
          BY <1>2 DEF OwnInv, MarksCounted
        <5>4. PerFrame \in Nat /\ MaxDraws <= PerFrame /\ MaxDraws \in Nat
          BY BoundsAssumption DEF PerFrame
        <5>5. \A x, u, l, d, f \in Nat : 0 < l /\ l <= d /\ d <= f =>
                 /\ (x + u) + l - 1 <= (x + f) + u
                 /\ (x + u) + l - 1 \in Nat /\ (x + f) + u \in Nat
          OBVIOUS
        <5> QED
          BY <3>2, <4>1, <5>1, <5>2, <5>3, <5>4, <5>5
      <4>5. ring'[g].used \in Nat /\ ring[g] \in Rings
        BY <1>4, <1>5, <2>2, RingFacts
      <4> QED
        BY <4>3, <4>4, <4>5, WithinMore
    <3>3. CASE p # 0
      <4>1. p \in 1 .. CmdBufCount
        BY <3>3
      <4>2. ~Mine(w)'
        BY <1>8, <4>1
      <4>3. Len(marks[w]) = 1
        <5> SUFFICES ASSUME Len(marks[w]) # 1
                     PROVE  Mine(w)'
          BY <4>2
        <5>1. 1 \in DOMAIN marks'[w] /\ marks'[w][1] = marks[w][2] /\ 2 \in DOMAIN marks[w]
          <6> DEFINE n == Len(marks[w])
          <6>1. n \in Nat \ {0} /\ n # 1
            BY <1>2
          <6>2. 1 \in 1 .. n - 1 /\ 2 \in 1 .. n /\ 1 + 1 = 2
            <7> HIDE DEF n
            <7> QED
              BY <6>1
          <6>3. marks'[w][1] = marks[w][1 + 1]
            BY <1>2, <6>2
          <6> QED
            BY <1>2, <6>2, <6>3
        <5>2. marks[w][2].gen = g
          BY <1>2, <1>3, <2>2, <5>1 DEF OwnInv, FramesOfOne
        <5> QED
          BY <1>1, <5>1, <5>2 DEF Mine
      <4>4. NoneBetween(w, p)
        <5> SUFFICES ASSUME NEW c \in Bufs, Place(w) < Place(c), Place(c) < p
                     PROVE  ~Mine(c)
          BY DEF NoneBetween
        <5>1. c # w
          BY <1>8
        <5> QED
          BY <1>14, <5>1
      <4>5. Since(p) + Len(marks[w]) - 1 = Since(p)
        BY <1>9, <4>3
      <4> QED
        BY <3>1, <4>1, <4>4, <4>5
    <3> QED
      BY <3>2, <3>3
  <2> QED
    BY <2>1, <2>2
<1> QED
  BY <1>10, <1>13, <1>17, <1>18 DEF OwnInv

-----------------------------------------------------------------------------
(* The draws of a uniform as it was: kept by every step. *)

(* The frames a pending frame has behind it. *)
LEMMA DrawnSinceFacts ==
  ASSUME TypeOK, OwnInv, NEW b \in Bufs
  PROVE  /\ b = cur /\ Recorded => DrawnSince(b) = drawn - 1
         /\ ~(b = cur /\ Recorded) =>
               /\ Place(b) + 1 \in 1 .. CmdBufCount
               /\ Since(Place(b) + 1) \in Nat
               /\ DrawnSince(b) = Since(Place(b) + 1) + MaxDraws - 1
<1>1. ASSUME ~(b = cur /\ Recorded)
      PROVE  /\ Place(b) + 1 \in 1 .. CmdBufCount
             /\ Since(Place(b) + 1) \in Nat
  <2>1. Place(b) \in 0 .. CmdBufCount - 1
    <3>1. CASE b # cur
      <4>1. Place(b) \in 1 .. CmdBufCount - 1
        BY <3>1, Places
      <4> QED
        BY <4>1, CmdBufCountAssumption
    <3>2. CASE b = cur
      <4>1. Place(b) = 0
        BY <1>1, <3>2 DEF Recorded, Place
      <4> QED
        BY <4>1, CmdBufCountAssumption
    <3> QED
      BY <3>1, <3>2
  <2>2. Place(b) + 1 \in 1 .. CmdBufCount /\ Place(b) + 1 \in 0 .. CmdBufCount
    BY <2>1, CmdBufCountAssumption
  <2> QED
    BY <2>2, SinceFacts DEF OwnInv
<1> QED
  BY <1>1 DEF DrawnSince

LEMMA DrawnSinceNat ==
  ASSUME TypeOK, OwnInv, NEW b \in Bufs, NEW d \in draws[b], OwnDraw(b, d)
  PROVE  DrawnSince(b) \in Nat
<1>1. MaxDraws \in Nat \ {0} /\ drawn \in Nat
  BY BoundsAssumption DEF TypeOK, OwnDraw
<1>2. b = cur /\ Recorded => drawn > 0
  BY DEF OwnDraw
<1>3. CASE b = cur /\ Recorded
  BY <1>1, <1>2, <1>3, DrawnSinceFacts
<1>4. CASE ~(b = cur /\ Recorded)
  <2>1. DrawnSince(b) = Since(Place(b) + 1) + MaxDraws - 1
        /\ Since(Place(b) + 1) \in Nat
    BY <1>4, DrawnSinceFacts
  <2> QED
    BY <1>1, <2>1
<1> QED
  BY <1>3, <1>4

(* A draw stays as it is when nothing is allocated. *)
LEMMA OwnDrawKept ==
  ASSUME TypeOK, OwnInv, NEW b \in Bufs, NEW e \in draws[b], OwnDraw(b, e),
         NEW d, d.gen = e.gen, d.offset = e.offset, d.torn => e.torn,
         prim'.gen = e.gen =>
            /\ prim.gen = e.gen
            /\ ring'[e.gen].free = ring[e.gen].free,
         b = cur' /\ Recorded' => b = cur /\ Recorded /\ drawn' >= drawn,
         drawn' \in Nat, DrawnSince(b)' \in Nat, DrawnSince(b) <= DrawnSince(b)'
  PROVE  OwnDraw(b, d)'
<1>1. /\ ~e.torn /\ MaxDraws > 0 /\ Aligned(e.offset)
      /\ e.offset + UniformSize <= RingSize
  BY DEF OwnDraw
<1>2. b = cur' /\ Recorded' => drawn' > 0
  <2>1. drawn \in Nat
    BY BoundsAssumption DEF TypeOK
  <2> QED
    BY <2>1 DEF OwnDraw
<1>3. ASSUME e.gen = prim'.gen
      PROVE  Within(ring'[e.gen], Behind(ring'[e.gen], e.offset + UniformSize),
                    DrawnSince(b)')
  <2>1. Within(ring[e.gen], Behind(ring[e.gen], e.offset + UniformSize), DrawnSince(b))
    BY <1>3 DEF OwnDraw
  <2>2. Behind(ring'[e.gen], e.offset + UniformSize)
          = Behind(ring[e.gen], e.offset + UniformSize)
    BY <1>3 DEF Behind, Age
  <2>3. ring[e.gen] \in Rings
    BY DrawFacts
  <2>4. Behind(ring[e.gen], e.offset + UniformSize) \in Nat
    <3>1. e.offset \in Nat
      BY DrawFacts DEF Units
    <3>2. (e.offset + UniformSize) - 1 \in Units
      BY <1>1, <3>1, RingSizeAssumption, UniformSizeAssumption DEF Units
    <3>3. Age(ring[e.gen], (e.offset + UniformSize) - 1) \in 1 .. RingSize
      BY <2>3, <3>2, AgeRange
    <3> QED
      BY <3>3, RingSizeAssumption DEF Behind
  <2>5. DrawnSince(b) \in Nat
    BY DrawnSinceNat
  <2>6. Within(ring[e.gen], Behind(ring[e.gen], e.offset + UniformSize), DrawnSince(b)')
    BY <2>1, <2>3, <2>4, <2>5, WithinMore
  <2> QED
    BY <1>3, <2>2, <2>6 DEF Within
<1> QED
  BY <1>1, <1>2, <1>3 DEF OwnDraw, Aligned

(* A draw that is pending when the uniform is allocated anew: the block    *)
(* it is bound to is not the next.                                         *)
LEMMA OwnDrawCopied ==
  ASSUME TypeOK, OwnInv, NEW u, CopyUpdated(u),
         NEW b \in Bufs, NEW e \in draws[b], e.own, OwnDraw(b, e),
         DrawnSince(b) + 2 <= Slots,
         NEW d, d = TornBy(e, prim.gen, prim'.offset),
         b = cur' /\ Recorded' => drawn' > 0,
         DrawnSince(b)' \in Nat, DrawnSince(b) + 1 <= DrawnSince(b)'
  PROVE  OwnDraw(b, d)'
<1>1. /\ d.gen = e.gen /\ d.offset = e.offset
      /\ d.torn => e.torn \/ (e.gen = prim.gen /\ Overlap(e.offset, prim'.offset))
  BY DEF TornBy, Draw
<1>2. /\ ~e.torn /\ MaxDraws > 0 /\ Aligned(e.offset)
      /\ e.offset + UniformSize <= RingSize
  BY DEF OwnDraw
<1>3. DrawnSince(b) \in Nat
  BY DrawnSinceNat
<1>4. prim'.gen = prim.gen /\ prim.gen \in Generations
  BY CopyCounts DEF OwnInv
<1>5. ASSUME e.gen = prim.gen
      PROVE  /\ ~Overlap(e.offset, prim'.offset)
             /\ Within(ring'[prim.gen], Behind(ring'[prim.gen], e.offset + UniformSize),
                       DrawnSince(b)')
  <2>1. Within(ring[prim.gen], Behind(ring[prim.gen], e.offset + UniformSize),
               DrawnSince(b))
    BY <1>5 DEF OwnDraw
  <2>2. /\ ~Overlap(e.offset, prim'.offset)
        /\ Within(ring'[prim.gen], Behind(ring'[prim.gen], e.offset + UniformSize),
                  DrawnSince(b) + 1)
    BY <1>2, <1>3, <2>1, CopyCounts DEF OwnInv
  <2>3. ring'[prim.gen] \in Rings
    BY <1>4, CopyAges
  <2>4. Behind(ring'[prim.gen], e.offset + UniformSize) \in Nat
    <3>1. e.offset \in Nat
      BY DrawFacts DEF Units
    <3>2. (e.offset + UniformSize) - 1 \in Units
      BY <1>2, <3>1, RingSizeAssumption, UniformSizeAssumption DEF Units
    <3>3. Age(ring'[prim.gen], (e.offset + UniformSize) - 1) \in 1 .. RingSize
      BY <2>3, <3>2, AgeRange
    <3> QED
      BY <3>3, RingSizeAssumption DEF Behind
  <2> QED
    BY <1>3, <2>2, <2>3, <2>4, WithinMore
<1> QED
  BY <1>1, <1>2, <1>4, <1>5 DEF OwnDraw, Aligned

(* What the room is, in the forms that are used below.                     *)
LEMMA RoomFacts ==
  ASSUME RoomForFrames
  PROVE  /\ CmdBufCount * PerFrame + MaxUpdates <= Slots
         /\ Slots \in Nat
         /\ CmdBufCount * PerFrame \in Nat
         /\ (CmdBufCount - 1) * PerFrame \in Nat
         /\ CmdBufCount * PerFrame = (CmdBufCount - 1) * PerFrame + PerFrame
         /\ PerFrame = MaxDraws + MaxUpdates
         /\ \A p \in 1 .. CmdBufCount :
               /\ (CmdBufCount - p) * PerFrame \in Nat
               /\ (CmdBufCount - p) * PerFrame <= (CmdBufCount - 1) * PerFrame
         /\ \A p \in 2 .. CmdBufCount :
               (CmdBufCount - p) * PerFrame + PerFrame <= (CmdBufCount - 1) * PerFrame
<1>1. CmdBufCount \in Nat \ {0} /\ CmdBufCount - 1 \in Nat
      /\ (CmdBufCount - 1) + 1 = CmdBufCount
  BY CmdBufCountAssumption
<1>2. /\ (CmdBufCount - 1) * PerFrame \in Nat
      /\ CmdBufCount * PerFrame = (CmdBufCount - 1) * PerFrame + PerFrame
      /\ CmdBufCount * PerFrame \in Nat
  BY <1>1, FramesTimes
<1>3. \A p \in 1 .. CmdBufCount :
               /\ (CmdBufCount - p) * PerFrame \in Nat
               /\ (CmdBufCount - p) * PerFrame <= (CmdBufCount - 1) * PerFrame
  <2> TAKE p \in 1 .. CmdBufCount
  <2>1. CmdBufCount - p \in Nat /\ CmdBufCount - p <= CmdBufCount - 1
    BY <1>1
  <2> QED
    BY <1>1, <2>1, FramesTimes
<1>4. \A p \in 2 .. CmdBufCount :
               (CmdBufCount - p) * PerFrame + PerFrame <= (CmdBufCount - 1) * PerFrame
  <2> TAKE p \in 2 .. CmdBufCount
  <2>1. CmdBufCount - p \in Nat /\ (CmdBufCount - p) + 1 \in Nat
        /\ (CmdBufCount - p) + 1 <= CmdBufCount - 1
    BY <1>1
  <2>2. ((CmdBufCount - p) + 1) * PerFrame = (CmdBufCount - p) * PerFrame + PerFrame
    BY <2>1, FramesTimes
  <2>3. ((CmdBufCount - p) + 1) * PerFrame <= (CmdBufCount - 1) * PerFrame
    BY <1>1, <2>1, FramesTimes
  <2> QED
    BY <2>2, <2>3
<1> QED
  BY <1>2, <1>3, <1>4, SlotsFit DEF RoomForFrames, PerFrame

\* the counts after an update
LEMMA UpdatePlaces ==
  ASSUME TypeOK, OwnInv, Update
  PROVE  /\ ~Recorded /\ ~Recorded'
         /\ \A b \in Bufs : Place(b)' = Place(b)
         /\ updates \in Nat /\ updates + 1 <= MaxUpdates
         /\ \A p \in 0 .. CmdBufCount :
               /\ Since(p) = (CmdBufCount - p) * PerFrame + updates
               /\ Since(p) \in Nat
               /\ Since(p)' = Since(p) + 1
<1>1. /\ step = "idle" /\ UNCHANGED <<step, cur>>
      /\ updates' = updates + 1 /\ updates < MaxUpdates
  BY DEF Update, frameVars
<1>2. ~Recorded /\ ~Recorded' /\ \A b \in Bufs : Place(b)' = Place(b)
  BY <1>1 DEF Recorded, Place
<1>3. updates \in Nat /\ updates + 1 <= MaxUpdates
  BY <1>1, BoundsAssumption DEF TypeOK
<1>4. ASSUME NEW p \in 0 .. CmdBufCount
      PROVE  /\ Since(p) = (CmdBufCount - p) * PerFrame + updates
             /\ Since(p) \in Nat
             /\ Since(p)' = Since(p) + 1
  <2>1. /\ Since(p) = (CmdBufCount - p) * PerFrame + updates + 0
        /\ (CmdBufCount - p) * PerFrame \in Nat
    BY <1>2, SinceFacts DEF OwnInv
  <2>2. Since(p)' = (CmdBufCount - p) * PerFrame + updates' + 0
    BY <1>2 DEF Since
  <2>3. \A x, y \in Nat : x + y + 0 \in Nat /\ x + y + 0 = x + y
                          /\ x + (y + 1) + 0 = (x + y) + 1
    OBVIOUS
  <2> QED
    BY <1>1, <1>3, <2>1, <2>2, <2>3
<1> QED
  BY <1>2, <1>3, <1>4

(* An update while frames are pending. *)
LEMMA UpdateDraws ==
  ASSUME TypeOK, OwnInv, OwnDraws, RoomForFrames, Update
  PROVE  OwnDraws'
<1>1. /\ CopyUpdated(TRUE) /\ step = "idle"
      /\ draws' = Written(prim.gen, prim'.offset)
  BY DEF Update
<1>2. SUFFICES ASSUME NEW b \in Bufs, NEW d \in draws'[b], d.own, ~d.fresh
               PROVE  OwnDraw(b, d)'
  BY DEF OwnDraws
<1>3. PICK e \in draws[b] : d = TornBy(e, prim.gen, prim'.offset)
  BY <1>1 DEF Written
<1>4. e.own /\ ~e.fresh /\ Live(b)
  BY <1>1, <1>2, <1>3 DEF TornBy, Draw, Live
<1>5. OwnDraw(b, e)
  BY <1>4 DEF OwnDraws
<1>6. ~Recorded'
  BY UpdatePlaces
<1>7. PICK p \in 1 .. CmdBufCount : p = Place(b) + 1
  BY UpdatePlaces, DrawnSinceFacts
<1>8. DrawnSince(b) = Since(p) + MaxDraws - 1 /\ MaxDraws \in Nat \ {0}
  BY <1>5, <1>7, UpdatePlaces, DrawnSinceFacts, BoundsAssumption DEF OwnDraw
<1>9. DrawnSince(b)' = Since(p)' + MaxDraws - 1
  <2>1. Place(b)' + 1 = p
    BY <1>7, UpdatePlaces
  <2> QED
    BY <1>6, <2>1 DEF DrawnSince, Since
<1>10. p \in 0 .. CmdBufCount
  BY CmdBufCountAssumption
<1>11. /\ Since(p) = (CmdBufCount - p) * PerFrame + updates
       /\ Since(p) \in Nat
       /\ Since(p)' = Since(p) + 1
       /\ updates \in Nat /\ updates + 1 <= MaxUpdates /\ MaxUpdates \in Nat
  BY <1>10, UpdatePlaces, BoundsAssumption
<1>12. DrawnSince(b)' \in Nat /\ DrawnSince(b) + 1 <= DrawnSince(b)'
  BY <1>8, <1>9, <1>11
<1>13. DrawnSince(b) + 2 <= Slots
  <2>1. /\ CmdBufCount * PerFrame + MaxUpdates <= Slots
        /\ CmdBufCount * PerFrame = (CmdBufCount - 1) * PerFrame + PerFrame
        /\ (CmdBufCount - 1) * PerFrame \in Nat
        /\ (CmdBufCount - p) * PerFrame \in Nat
        /\ (CmdBufCount - p) * PerFrame <= (CmdBufCount - 1) * PerFrame
        /\ PerFrame = MaxDraws + MaxUpdates /\ Slots \in Nat
    BY RoomFacts
  <2>2. \A x, y, q, k, m, u, s \in Nat :
           x <= y /\ q + 1 <= u /\ k = y + (m + u) /\ k + u <= s
              => ((x + q) + m - 1) + 2 <= s
    OBVIOUS
  <2>3. CmdBufCount * PerFrame \in Nat
    BY RoomFacts
  <2> QED
    BY <1>8, <1>11, <2>1, <2>2, <2>3
<1> QED
  BY <1>1, <1>3, <1>4, <1>5, <1>6, <1>12, <1>13, OwnDrawCopied

(* A draw that allocates, while older frames are pending. *)
LEMMA DrawUpdatedDraws ==
  ASSUME TypeOK, OwnInv, OwnDraws, RoomForFrames, DrawUpdated
  PROVE  OwnDraws'
<1> DEFINE new == Draw(prim.gen, prim'.offset, TRUE, TRUE, FALSE)
<1>1. /\ CopyUpdated(FALSE) /\ step = "record" /\ UNCHANGED <<step, cur>>
      /\ drawn' = drawn + 1 /\ drawn < MaxDraws
      /\ drawn \in Nat /\ MaxDraws \in Nat /\ MaxUpdates \in Nat
      /\ cur \in Bufs
      /\ draws' = [Written(prim.gen, prim'.offset) EXCEPT ![cur] =
                     Written(prim.gen, prim'.offset)[cur] \cup {new}]
  <2>1. drawn \in Nat /\ MaxDraws \in Nat /\ MaxUpdates \in Nat /\ cur \in Bufs
    BY BoundsAssumption DEF TypeOK, FramesTypeOK
  <2> QED
    BY <2>1 DEF DrawUpdated, CountDraw, frameVars
<1>2. SUFFICES ASSUME NEW b \in Bufs, NEW d \in draws'[b], d.own, ~d.fresh
               PROVE  OwnDraw(b, d)'
  BY DEF OwnDraws
<1>3. d \in Written(prim.gen, prim'.offset)[b]
  <2>1. new.fresh
    BY DEF Draw
  <2>2. d # new
    BY <1>2, <2>1
  <2> QED
    BY <1>1, <2>2 DEF Written
<1>4. PICK e \in draws[b] : d = TornBy(e, prim.gen, prim'.offset)
  BY <1>3 DEF Written
<1>5. e.own /\ ~e.fresh /\ Live(b)
  BY <1>1, <1>2, <1>4 DEF TornBy, Draw, Live
<1>6. OwnDraw(b, e)
  BY <1>5 DEF OwnDraws
<1>7. Recorded /\ Recorded' /\ Place(b)' = Place(b)
  BY DrawCounts
<1>8. MaxDraws > 0 /\ DrawnSince(b) \in Nat
  BY <1>6, DrawnSinceNat DEF OwnDraw
<1>9. b = cur' /\ Recorded' => drawn' > 0
  BY <1>1
<1>10. /\ CmdBufCount * PerFrame + MaxUpdates <= Slots
       /\ CmdBufCount * PerFrame = (CmdBufCount - 1) * PerFrame + PerFrame
       /\ (CmdBufCount - 1) * PerFrame \in Nat /\ CmdBufCount * PerFrame \in Nat
       /\ PerFrame = MaxDraws + MaxUpdates /\ Slots \in Nat
  BY RoomFacts
<1>11. CASE b = cur
  <2>1. DrawnSince(b) = drawn - 1
    BY <1>7, <1>11, DrawnSinceFacts
  <2>2. DrawnSince(b)' = drawn' - 1
    BY <1>1, <1>7, <1>11 DEF DrawnSince
  <2>3. DrawnSince(b)' \in Nat /\ DrawnSince(b) + 1 <= DrawnSince(b)'
    BY <1>1, <2>1, <2>2
  <2>4. DrawnSince(b) + 2 <= Slots
    BY <1>1, <1>10, <2>1
  <2> QED
    BY <1>1, <1>4, <1>5, <1>6, <1>9, <2>3, <2>4, OwnDrawCopied
<1>12. CASE b # cur
  <2>1. Place(b) \in 1 .. CmdBufCount - 1
    BY <1>12, Places
  <2>2. PICK p \in 2 .. CmdBufCount : p = Place(b) + 1
    BY <2>1, CmdBufCountAssumption
  <2>3. DrawnSince(b) = Since(p) + MaxDraws - 1
    BY <1>12, <2>2, DrawnSinceFacts
  <2>4. DrawnSince(b)' = Since(p)' + MaxDraws - 1
    <3>1. Place(b)' + 1 = p /\ b # cur'
      BY <1>1, <1>7, <1>12, <2>2
    <3> QED
      BY <3>1 DEF DrawnSince, Since, Current
  <2>5. p \in 0 .. CmdBufCount /\ p \in 1 .. CmdBufCount
    BY CmdBufCountAssumption
  <2>6. Since(p) \in Nat /\ Since(p)' \in Nat /\ Since(p) + 1 <= Since(p)'
    BY <2>5, DrawCounts
  <2>7. DrawnSince(b)' \in Nat /\ DrawnSince(b) + 1 <= DrawnSince(b)'
    BY <1>1, <1>8, <2>3, <2>4, <2>6
  <2>8. DrawnSince(b) + 2 <= Slots
    <3>1. /\ Since(p) = (CmdBufCount - p) * PerFrame + updates + Current
          /\ updates + Current <= MaxUpdates + Len(marks[cur])
          /\ Len(marks[cur]) <= drawn
          /\ Len(marks[cur]) \in Nat /\ updates \in Nat
          /\ (CmdBufCount - p) * PerFrame \in Nat
      BY <1>1, <2>5, RecordedNow
    <3>2. (CmdBufCount - p) * PerFrame + PerFrame <= (CmdBufCount - 1) * PerFrame
      BY RoomFacts
    <3>3. Current \in Nat
      BY SinceFacts, FramesTimes DEF OwnInv
    <3>4. (CmdBufCount - p) * PerFrame + (MaxDraws + MaxUpdates)
            <= (CmdBufCount - 1) * PerFrame
      BY <1>10, <3>2
    <3>5. CmdBufCount * PerFrame = (CmdBufCount - 1) * PerFrame + (MaxDraws + MaxUpdates)
      BY <1>10
    <3>6. (((CmdBufCount - p) * PerFrame + updates + Current) + MaxDraws - 1) + 2 <= Slots
      <4> DEFINE x == (CmdBufCount - p) * PerFrame
                 y == (CmdBufCount - 1) * PerFrame
                 k == CmdBufCount * PerFrame
                 l == Len(marks[cur])
      <4>1. /\ x \in Nat /\ y \in Nat /\ k \in Nat /\ l \in Nat
            /\ x + (MaxDraws + MaxUpdates) <= y
            /\ k = y + (MaxDraws + MaxUpdates) /\ k + MaxUpdates <= Slots
            /\ updates + Current <= MaxUpdates + l /\ l <= drawn
        BY <1>10, <3>1, <3>4, <3>5
      <4> HIDE DEF x, y, k, l
      <4>2. ((x + updates + Current) + MaxDraws - 1) + 2 <= Slots
        BY <1>1, <1>10, <3>1, <3>3, <4>1
      <4> QED
        BY <4>2 DEF x
    <3> QED
      BY <2>3, <3>1, <3>6
  <2> QED
    BY <1>1, <1>4, <1>5, <1>6, <1>9, <2>7, <2>8, OwnDrawCopied
<1> QED
  BY <1>11, <1>12

(* allocate_dynamic_uniform never throws. *)
LEMMA NeverOverflow ==
  ASSUME TypeOK, OwnInv, RoomForFrames
  PROVE  ~Overflow
<1> SUFFICES ASSUME Overflow
             PROVE  FALSE
  OBVIOUS
<1>1. /\ \/ step = "idle" /\ updates < MaxUpdates
         \/ step = "record" /\ drawn < MaxDraws
      /\ prim.gen # NoPipeline
      /\ ~Fits(ring[prim.gen], UniformSize)
      /\ prim.gen \in Generations /\ ring[prim.gen] \in Rings
      /\ Aligned(ring[prim.gen].free)
  BY DEF Overflow, TypeOK, Prims, OwnInv, RingsAligned
<1>2. \A k \in Nat : k + 1 <= Slots => ~Within(ring[prim.gen], ring[prim.gen].used, k)
  BY <1>1, OneMoreFits
<1>3. /\ CmdBufCount * PerFrame + MaxUpdates <= Slots
      /\ CmdBufCount * PerFrame = (CmdBufCount - 1) * PerFrame + PerFrame
      /\ (CmdBufCount - 1) * PerFrame \in Nat /\ CmdBufCount * PerFrame \in Nat
      /\ PerFrame = MaxDraws + MaxUpdates /\ Slots \in Nat
      /\ MaxDraws \in Nat /\ MaxUpdates \in Nat /\ CmdBufCount \in Nat \ {0}
  BY RoomFacts, BoundsAssumption, CmdBufCountAssumption
<1>4. updates \in Nat /\ drawn \in Nat
  BY BoundsAssumption DEF TypeOK
<1>5. \A b \in Bufs : Place(b) \in Nat
  BY Places, CmdBufCountAssumption
<1>6. CASE step = "idle" /\ updates < MaxUpdates
  <2>1. ~Recorded /\ LastPlace = CmdBufCount - 1
    BY <1>6 DEF Recorded, LastPlace
  <2>2. 0 \in 0 .. LastPlace + 1 /\ 0 \in 0 .. CmdBufCount
        /\ CmdBufCount - 0 = CmdBufCount
    BY <1>3, <2>1
  <2>3. Since(0) = CmdBufCount * PerFrame + updates
    <3>1. Since(0) = (CmdBufCount - 0) * PerFrame + updates + 0
      BY <2>1, <2>2, SinceFacts DEF OwnInv
    <3> QED
      BY <1>3, <1>4, <2>2, <3>1
  <2>4. Within(ring[prim.gen], ring[prim.gen].used, Since(0))
    <3>1. \A c \in Bufs : ~(Place(c) < 0)
      BY <1>5
    <3> QED
      BY <1>1, <2>2, <3>1 DEF OwnInv, UsedBounded
  <2>5. Since(0) \in Nat /\ Since(0) + 1 <= Slots
    BY <1>3, <1>4, <1>6, <2>3
  <2> QED
    BY <1>2, <2>4, <2>5
<1>7. CASE step = "record" /\ drawn < MaxDraws
  <2>1. Recorded /\ LastPlace = CmdBufCount /\ Place(cur) = CmdBufCount
        /\ updates + Current <= MaxUpdates + Len(marks[cur])
        /\ Len(marks[cur]) <= drawn
        /\ Len(marks[cur]) \in Nat
    BY <1>7, RecordedNow
  <2>2. 1 \in 0 .. LastPlace + 1 /\ 1 \in 0 .. CmdBufCount
    BY <1>3, <2>1
  <2>3. Since(1) = (CmdBufCount - 1) * PerFrame + updates + Current
        /\ Current \in Nat
    <3>1. Since(1) = (CmdBufCount - 1) * PerFrame + updates + Current
      BY <1>7, <2>2, RecordedNow
    <3>2. Current \in Nat
      BY SinceFacts, FramesTimes DEF OwnInv
    <3> QED
      BY <3>1, <3>2
  <2>4. Within(ring[prim.gen], ring[prim.gen].used, Since(1))
    <3>1. \A c \in Bufs : ~(Place(c) < 1)
      <4>1. \A c \in Bufs : c # cur => Place(c) \in 1 .. CmdBufCount - 1
        BY Places
      <4> QED
        BY <1>3, <2>1, <4>1
    <3> QED
      BY <1>1, <2>2, <3>1 DEF OwnInv, UsedBounded
  <2>5. Since(1) \in Nat /\ Since(1) + 1 <= Slots
    <3>1. \A y, q, c, l, w, k, m, u, s \in Nat :
             /\ q + c <= u + l /\ l <= w /\ w < m
             /\ k = y + (m + u) /\ k + u <= s
             => y + q + c \in Nat /\ (y + q + c) + 1 <= s
      OBVIOUS
    <3> QED
      BY <1>3, <1>4, <1>7, <2>1, <2>3, <3>1
  <2> QED
    BY <1>2, <2>4, <2>5
<1> QED
  BY <1>1, <1>6, <1>7

(* Steps after which every frame has as many draws behind it. *)
LEMMA SameSince ==
  ASSUME TypeOK, OwnInv, UNCHANGED <<cur, updates, drawn>>,
         Recorded' <=> Recorded, Recorded => marks'[cur] = marks[cur],
         NEW b \in Bufs
  PROVE  DrawnSince(b)' = DrawnSince(b)
<1>1. Place(b)' = Place(b)
  BY DEF Place, Recorded
<1>2. CASE b = cur /\ Recorded
  BY <1>2 DEF DrawnSince
<1>3. CASE ~(b = cur /\ Recorded)
  <2>1. PICK p \in 1 .. CmdBufCount : p = Place(b) + 1
    BY <1>3, DrawnSinceFacts
  <2>2. DrawnSince(b) = Since(p) + MaxDraws - 1
    BY <1>3, <2>1, DrawnSinceFacts
  <2>3. DrawnSince(b)' = Since(p)' + MaxDraws - 1
    <3>1. Place(b)' + 1 = p
      BY <1>1, <2>1
    <3> QED
      BY <1>3, <3>1 DEF DrawnSince, Since, Current
  <2>4. Since(p)' = Since(p)
    BY DEF Since, Current
  <2> QED
    BY <2>2, <2>3, <2>4
<1> QED
  BY <1>2, <1>3

(* Steps that draw nothing, in the same part of a frame. *)
LEMMA QuietDraws ==
  ASSUME TypeOK, OwnInv, OwnDraws,
         \/ SetUniform \/ Overflow \/ Begin \/ SubmitFrame
         \/ Gpu \/ (OtherDrawStep /\ ~Present /\ ~PresentRecreates)
         \/ UNCHANGED vars
  PROVE  OwnDraws'
<1>1. /\ UNCHANGED <<cur, marks, updates, ring, draws, drawn>>
      /\ prim'.gen = prim.gen
      /\ Recorded' <=> Recorded
      /\ step = "release" => step' = "release"
  <2>1. CASE SetUniform
    BY <2>1 DEF SetUniform, Prim, frameVars, Recorded
  <2>2. CASE Overflow
    BY <2>2 DEF Overflow, frameVars, Recorded
  <2>3. CASE UNCHANGED vars
    BY <2>3 DEF vars, primVars, frameVars, Recorded
  <2>4. CASE Begin \/ SubmitFrame \/ Gpu
             \/ (OtherDrawStep /\ ~Present /\ ~PresentRecreates)
    <3>1. UNCHANGED primVars
      BY <2>4 DEF Begin, SubmitFrame, Gpu, OtherDrawStep
    <3>2. UNCHANGED <<prim, marks, updates, ring, draws, drawn>>
      BY <3>1 DEF primVars
    <3>3. UNCHANGED cur /\ (Recorded' <=> Recorded)
          /\ (step = "release" => step' = "release")
      BY <2>4 DEF Begin, SubmitFrame, Gpu, OtherDrawStep, DrawStep, BeginDraw, Submit,
                  GpuDone, WaitFence, AcquireImage, AcquireOutOfDate, AcquireError,
                  PresentComplains, Recorded
    <3> QED
      BY <3>2, <3>3
  <2> QED
    BY <2>1, <2>2, <2>3, <2>4
<1>2. SUFFICES ASSUME NEW b \in Bufs, Live(b)', NEW d \in draws[b], d.own, ~d.fresh
               PROVE  OwnDraw(b, d)'
  BY <1>1 DEF OwnDraws
<1>3. OwnDraw(b, d)
  BY <1>1, <1>2 DEF OwnDraws, Live
<1>4. DrawnSince(b)' = DrawnSince(b)
  BY <1>1, SameSince
<1>5. DrawnSince(b) \in Nat
  BY <1>3, DrawnSinceNat
<1>6. drawn \in Nat
  BY BoundsAssumption DEF TypeOK
<1> QED
  BY <1>1, <1>3, <1>4, <1>5, <1>6, OwnDrawKept

(* Without a pipeline there is no ring to be bound to. *)
LEMMA DestroyDraws ==
  ASSUME TypeOK, OwnInv, OwnDraws, DestroyPipeline
  PROVE  OwnDraws'
<1>1. /\ UNCHANGED <<step, cur, marks, updates, draws, drawn>>
      /\ prim'.gen = NoPipeline
  BY DEF DestroyPipeline, Prim, frameVars
<1>2. SUFFICES ASSUME NEW b \in Bufs, Live(b)', NEW d \in draws[b], d.own, ~d.fresh
               PROVE  OwnDraw(b, d)'
  BY <1>1 DEF OwnDraws
<1>3. OwnDraw(b, d)
  BY <1>1, <1>2 DEF OwnDraws, Live
<1>4. Recorded' <=> Recorded
  BY <1>1 DEF Recorded
<1>5. DrawnSince(b)' = DrawnSince(b)
  BY <1>1, <1>4, SameSince
<1>6. DrawnSince(b) \in Nat
  BY <1>3, DrawnSinceNat
<1>7. drawn \in Nat
  BY BoundsAssumption DEF TypeOK
<1>8. d.gen # NoPipeline
  BY DrawFacts DEF Generations, NoPipeline
<1> QED
  BY <1>1, <1>3, <1>4, <1>5, <1>6, <1>7, <1>8, OwnDrawKept

(* Nobody is bound to the ring of a generation that is created.            *)
LEMMA CreateDraws ==
  ASSUME TypeOK, RingInv, OwnInv, OwnDraws, UpdateCreates
  PROVE  OwnDraws'
<1>1. PICK g \in Generations \ Alive :
         /\ draws' = Written(g, prim.offset)
         /\ prim' = Prim(g, prim.offset, FALSE, FALSE)
  BY DEF UpdateCreates
<1>2. /\ UNCHANGED <<step, cur, marks, updates, drawn>>
      /\ prim'.gen = g
  BY <1>1 DEF UpdateCreates, Prim, frameVars
<1>3. SUFFICES ASSUME NEW b \in Bufs, Live(b)', NEW d \in draws'[b], d.own, ~d.fresh
               PROVE  OwnDraw(b, d)'
  BY DEF OwnDraws
<1>4. PICK e \in draws[b] : d = TornBy(e, g, prim.offset)
  BY <1>1 DEF Written
<1>5. e.gen # g
  BY DEF RingInv, GensHeld, Alive, AliveWith
<1>6. /\ d.gen = e.gen /\ d.offset = e.offset /\ e.own /\ ~e.fresh
      /\ d.torn => e.torn
  BY <1>3, <1>4, <1>5 DEF TornBy, Draw
<1>7. OwnDraw(b, e)
  BY <1>2, <1>3, <1>6 DEF OwnDraws, Live
<1>8. Recorded' <=> Recorded
  BY <1>2 DEF Recorded
<1>9. DrawnSince(b)' = DrawnSince(b)
  BY <1>2, <1>8, SameSince
<1>10. DrawnSince(b) \in Nat
  BY <1>7, DrawnSinceNat
<1>11. drawn \in Nat
  BY BoundsAssumption DEF TypeOK
<1> QED
  BY <1>2, <1>5, <1>6, <1>7, <1>8, <1>9, <1>10, <1>11, OwnDrawKept

(* The object's own block is the last of the ring. *)
LEMMA OwnBlock ==
  ASSUME TypeOK, OwnInv, prim.own
  PROVE  /\ prim.gen \in Generations /\ ring[prim.gen] \in Rings
         /\ Aligned(prim.offset)
         /\ prim.offset + UniformSize <= RingSize
         /\ Behind(ring[prim.gen], prim.offset + UniformSize) = 0
<1> DEFINE r == ring[prim.gen]
<1>1. /\ prim.gen \in Generations /\ r \in Rings
      /\ prim.offset \in Nat
      /\ prim.offset + UniformSize = r.free
  BY DEF TypeOK, Prims, OwnInv, OwnIsLast, Units
<1>2. r.free \in 0 .. RingSize
  BY <1>1 DEF Rings
<1>3. PICK n \in 0 .. Slots : r.free = n * UniformSize
  BY <1>1 DEF OwnInv, RingsAligned, Aligned
<1>4. n # 0
  <2>1. 0 * UniformSize = 0
    BY UniformSizeAssumption
  <2> QED
    BY <1>1, <1>3, <2>1, UniformSizeAssumption
<1>5. n - 1 \in 0 .. Slots /\ n - 1 \in Nat /\ (n - 1) + 1 = n
  BY <1>4, SlotsFit
<1>6. n * UniformSize = (n - 1) * UniformSize + UniformSize
      /\ (n - 1) * UniformSize \in Nat
  BY <1>5, Multiples
<1>7. prim.offset = (n - 1) * UniformSize
  BY <1>1, <1>3, <1>6, UniformSizeAssumption
<1>8. Aligned(prim.offset)
  BY <1>5, <1>7 DEF Aligned
<1>9. Behind(r, prim.offset + UniformSize) = 0
  BY <1>1, <1>2, RingSizeAssumption, UniformSizeAssumption DEF Behind, Age
<1>10. prim.offset + UniformSize <= RingSize
  BY <1>1, <1>2, RingSizeAssumption
<1> QED
  BY <1>1, <1>8, <1>9, <1>10

(* A draw of the uniform as it is: nothing was allocated since. *)
LEMMA DrawUnchangedDraws ==
  ASSUME TypeOK, OwnInv, OwnDraws, DrawUnchanged
  PROVE  OwnDraws'
<1> DEFINE new == Draw(prim.gen, prim.offset, prim.own, FALSE, FALSE)
<1>1. /\ step = "record" /\ UNCHANGED <<step, cur, prim, ring, marks, updates>>
      /\ drawn' = drawn + 1 /\ drawn < MaxDraws
      /\ drawn \in Nat /\ MaxDraws \in Nat
      /\ cur \in Bufs
      /\ draws' = [draws EXCEPT ![cur] = draws[cur] \cup {new}]
      /\ draws \in [Bufs -> SUBSET Draws]
  <2>1. drawn \in Nat /\ MaxDraws \in Nat /\ cur \in Bufs
        /\ draws \in [Bufs -> SUBSET Draws]
    BY BoundsAssumption DEF TypeOK, FramesTypeOK
  <2> QED
    BY <2>1 DEF DrawUnchanged, CountDraw, frameVars
<1>2. Recorded /\ Recorded'
  BY <1>1 DEF Recorded
<1>3. SUFFICES ASSUME NEW b \in Bufs, NEW d \in draws'[b], d.own, ~d.fresh
               PROVE  OwnDraw(b, d)'
  BY DEF OwnDraws
<1>4. CASE d \in draws[b]
  <2>1. OwnDraw(b, d)
    BY <1>1, <1>3, <1>4 DEF OwnDraws, Live
  <2>2. DrawnSince(b) \in Nat
    BY <1>4, <2>1, DrawnSinceNat
  <2>3. DrawnSince(b)' \in Nat /\ DrawnSince(b) <= DrawnSince(b)'
    <3>1. CASE b = cur
      <4>1. DrawnSince(b) = drawn - 1 /\ DrawnSince(b)' = drawn' - 1
        BY <1>1, <1>2, <3>1 DEF DrawnSince
      <4> QED
        BY <1>1, <2>2, <4>1
    <3>2. CASE b # cur
      <4>1. PICK p \in 1 .. CmdBufCount : p = Place(b) + 1
        BY <3>2, DrawnSinceFacts
      <4>2. DrawnSince(b) = Since(p) + MaxDraws - 1
        BY <3>2, <4>1, DrawnSinceFacts
      <4>3. DrawnSince(b)' = Since(p)' + MaxDraws - 1
        <5>1. Place(b)' + 1 = p
          BY <1>1, <4>1 DEF Place
        <5> QED
          BY <1>1, <3>2, <5>1 DEF DrawnSince, Since, Current
      <4>4. Since(p)' = Since(p)
        BY <1>1, <1>2 DEF Since, Current
      <4>5. DrawnSince(b)' = DrawnSince(b)
        BY <4>2, <4>3, <4>4
      <4> QED
        BY <2>2, <4>5
    <3> QED
      BY <3>1, <3>2
  <2>4. drawn' >= drawn /\ drawn' \in Nat
    BY <1>1
  <2> QED
    BY <1>1, <1>2, <1>4, <2>1, <2>3, <2>4, OwnDrawKept
<1>5. CASE d \notin draws[b]
  <2>1. b = cur /\ d = new
    BY <1>1, <1>5
  <2>2. d.gen = prim.gen /\ d.offset = prim.offset /\ d.own = prim.own /\ ~d.torn
    BY <2>1 DEF Draw
  <2>3. /\ ring[prim.gen] \in Rings
        /\ Aligned(d.offset) /\ d.offset + UniformSize <= RingSize
        /\ Behind(ring[prim.gen], d.offset + UniformSize) = 0
    BY <1>3, <2>2, OwnBlock
  <2>4. DrawnSince(b)' = drawn
    <3>1. DrawnSince(b)' = drawn' - 1
      BY <1>1, <1>2, <2>1 DEF DrawnSince
    <3> QED
      BY <1>1, <3>1
  <2>5. Within(ring[prim.gen], 0, drawn)
    <3>1. drawn * UniformSize \in Nat
      BY <1>1, Multiples
    <3> QED
      BY <3>1, SlotsFit DEF Within
  <2>6. MaxDraws > 0 /\ drawn' > 0
    BY <1>1
  <2> QED
    BY <1>1, <2>2, <2>3, <2>4, <2>5, <2>6 DEF OwnDraw, Aligned, Behind
<1> QED
  BY <1>4, <1>5

(* The frame is done, and counts as a whole. *)
LEMMA PresentDraws ==
  ASSUME TypeOK, TypeOK', OwnInv, OwnDraws, OtherDrawStep, Present \/ PresentRecreates
  PROVE  OwnDraws'
<1>1. /\ UNCHANGED <<prim, ring, draws, drawn, updates>>
      /\ Recorded /\ ~Recorded'
      /\ step # "release"
  <2>1. step # "release"
    BY DEF Present, PresentRecreates
  <2> QED
    BY <2>1, PresentCounts DEF OtherDrawStep, primVars
<1>2. SUFFICES ASSUME NEW b \in Bufs, NEW d \in draws[b], d.own, ~d.fresh
               PROVE  OwnDraw(b, d)'
  BY <1>1 DEF OwnDraws
<1>3. OwnDraw(b, d)
  BY <1>1, <1>2 DEF OwnDraws, Live
<1>4. DrawnSince(b) \in Nat
  BY <1>3, DrawnSinceNat
<1>5. drawn \in 0 .. MaxDraws /\ drawn \in Nat /\ MaxDraws \in Nat /\ MaxDraws > 0
      /\ updates \in Nat
  BY <1>3, BoundsAssumption DEF TypeOK, OwnDraw
<1>6. PICK q \in 1 .. CmdBufCount :
         /\ q = Place(b)' + 1
         /\ b = cur => q = CmdBufCount
         /\ b # cur => q = Place(b)
  <2>1. Place(b)' = Place(b) - 1
    BY PresentCounts
  <2>2. CASE b = cur
    <3>1. Place(b) = CmdBufCount
      BY <1>1, <2>2 DEF Place, Recorded
    <3> QED
      BY <2>1, <2>2, <3>1, CmdBufCountAssumption
  <2>3. CASE b # cur
    <3>1. Place(b) \in 1 .. CmdBufCount - 1
      BY <2>3, Places
    <3> QED
      BY <2>1, <2>3, <3>1, CmdBufCountAssumption
  <2> QED
    BY <2>2, <2>3
<1>7. DrawnSince(b)' = Since(q)' + MaxDraws - 1
  BY <1>1, <1>6 DEF DrawnSince, Since, Current
<1>8. Since(q)' \in Nat
  <2>1. q \in 0 .. CmdBufCount
    BY CmdBufCountAssumption
  <2> QED
    BY <2>1, PresentCounts
<1>9. DrawnSince(b) <= Since(q)' + MaxDraws - 1
  <2>1. CASE b = cur
    <3>1. DrawnSince(b) = drawn - 1
      BY <1>1, <2>1, DrawnSinceFacts
    <3> QED
      BY <1>5, <1>8, <3>1
  <2>2. CASE b # cur
    <3>1. DrawnSince(b) = Since(q + 1) + MaxDraws - 1 /\ Since(q + 1) \in Nat
      BY <1>6, <2>2, DrawnSinceFacts
    <3>2. q + 1 \in 1 .. CmdBufCount + 1 /\ (q + 1) - 1 = q
      BY CmdBufCountAssumption
    <3>3. PICK p \in 1 .. CmdBufCount + 1 : p = q + 1 /\ p - 1 = q
      BY <3>2
    <3>4. Since(p) <= Since(p - 1)'
      BY PresentCounts
    <3>5. Since(p) <= Since(q)'
      BY <3>3, <3>4
    <3> QED
      BY <1>5, <1>8, <3>1, <3>3, <3>5
  <2> QED
    BY <2>1, <2>2
<1>10. DrawnSince(b)' \in Nat /\ DrawnSince(b) <= DrawnSince(b)'
  BY <1>5, <1>7, <1>8, <1>9
<1> QED
  BY <1>1, <1>3, <1>5, <1>10, OwnDrawKept

(* The draws of the buffer that is begun are forgotten. *)
LEMMA DropDraws ==
  ASSUME TypeOK, OwnInv, OwnDraws, DropReferences
  PROVE  OwnDraws'
<1>1. /\ UNCHANGED <<cur, marks, updates, prim>>
      /\ drawn' = 0
      /\ draws' = [draws EXCEPT ![cur] = {}]
      /\ ring' = OfAlive(ring, AliveWith(prim.gen, held'))
      /\ draws \in [Bufs -> SUBSET Draws]
  BY DEF DropReferences, BeginCommands, TypeOK
<1>2. SUFFICES ASSUME NEW b \in Bufs, b # cur, NEW d \in draws[b], d.own, ~d.fresh
               PROVE  OwnDraw(b, d)'
  BY <1>1 DEF OwnDraws
<1>3. OwnDraw(b, d)
  BY <1>2 DEF OwnDraws, Live
<1>4. DrawnSince(b) \in Nat
  BY <1>3, DrawnSinceNat
<1>5. d.gen = prim.gen => ring'[d.gen] = ring[d.gen]
  BY <1>1, DrawFacts DEF OfAlive, AliveWith
<1>6. PICK p \in 1 .. CmdBufCount : p = Place(b) + 1
  BY <1>2, DrawnSinceFacts
<1>7. DrawnSince(b) = Since(p) + MaxDraws - 1
  BY <1>2, <1>6, DrawnSinceFacts
<1>8. DrawnSince(b)' = Since(p)' + MaxDraws - 1
  <2>1. Place(b)' + 1 = p
    BY <1>2, <1>6, DropPlaces
  <2> QED
    BY <1>1, <1>2, <2>1 DEF DrawnSince, Since, Current
<1>9. Since(p)' = Since(p)
  <2>1. p \in 0 .. CmdBufCount
    BY CmdBufCountAssumption
  <2> QED
    BY <2>1, DropPlaces
<1>10. DrawnSince(b)' = DrawnSince(b)
  BY <1>7, <1>8, <1>9
<1>11. drawn' \in Nat
  BY <1>1
<1> QED
  BY <1>1, <1>2, <1>3, <1>4, <1>5, <1>10, <1>11, OwnDrawKept

(* A mark that is freed moves no free offset. *)
LEMMA FreeMarkDraws ==
  ASSUME TypeOK, OwnInv, OwnDraws, FreeMark
  PROVE  OwnDraws'
<1>1. /\ step = "release" /\ UNCHANGED <<step, cur, prim, draws, updates, drawn>>
      /\ ring \in [Generations -> Rings]
      /\ ring' = [ring EXCEPT ![Head(marks[cur]).gen] =
                    FreedToMark(ring[Head(marks[cur]).gen], Head(marks[cur]).offset)]
  BY DEF TypeOK, FreeMark, frameVars
<1>2. ~Recorded /\ ~Recorded'
  BY <1>1 DEF Recorded
<1>3. \A g \in Generations : ring'[g].free = ring[g].free
  <2>1. \A r, m : FreedToMark(r, m).free = r.free
    BY DEF FreedToMark, Ring
  <2> QED
    BY <1>1, <2>1
<1>4. SUFFICES ASSUME NEW b \in Bufs, b # cur, NEW d \in draws[b], d.own, ~d.fresh
               PROVE  OwnDraw(b, d)'
  BY <1>1 DEF OwnDraws, Live
<1>5. OwnDraw(b, d)
  BY <1>4 DEF OwnDraws, Live
<1>6. DrawnSince(b)' = DrawnSince(b)
  BY <1>1, <1>2, SameSince
<1>7. DrawnSince(b) \in Nat
  BY <1>5, DrawnSinceNat
<1>8. drawn \in Nat /\ d.gen \in Generations
  BY BoundsAssumption, DrawFacts DEF TypeOK
<1> QED
  BY <1>1, <1>2, <1>3, <1>5, <1>6, <1>7, <1>8, OwnDrawKept

-----------------------------------------------------------------------------
(* The theorems about the object's own block. *)

(* What holds if the ring has room.                                        *)
OwnSafe == OwnInv /\ OwnDraws /\ ~failed

LEMMA OwnInitially == Init => OwnSafe
<1> SUFFICES ASSUME Init
             PROVE  OwnSafe
  OBVIOUS
<1>1. /\ \A b \in Bufs : marks[b] = <<>> /\ draws[b] = {}
      /\ \A g \in Generations : ring[g].free = 0
      /\ prim.gen = NoPipeline /\ ~prim.own
      /\ failed = FALSE /\ step = "idle"
  BY DEF Init, FramesInit, EmptyRing, Ring, Prim
<1>2. \A b \in Bufs : DOMAIN marks[b] = {} /\ Len(marks[b]) = 0
  BY <1>1
<1>3. FramesOfOne /\ MarksCounted /\ MarksBounded
  BY <1>1, <1>2, BoundsAssumption DEF FramesOfOne, MarksCounted, MarksBounded
<1>4. RingsAligned /\ OwnIsLast /\ UsedBounded /\ OwnDraws
  BY <1>1, EndsAligned DEF RingsAligned, OwnIsLast, UsedBounded, OwnDraws
<1> QED
  BY <1>1, <1>3, <1>4 DEF OwnSafe, OwnInv

LEMMA OwnPreserved ==
  ASSUME RoomForFrames, IInv, IInv', OwnSafe, [Next]_vars
  PROVE  OwnSafe'
<1>1. TypeOK /\ TypeOK' /\ RingInv /\ OwnInv /\ OwnDraws /\ ~failed
  BY DEF IInv, OwnSafe
<1>2. ~Overflow
  BY <1>1, NeverOverflow
<1>3. ~failed'
  <2>1. CASE Begin \/ OtherDrawStep \/ SubmitFrame \/ Gpu
    BY <1>1, <2>1 DEF Begin, OtherDrawStep, SubmitFrame, Gpu, primVars
  <2>2. CASE SetUniform \/ DestroyPipeline \/ UpdateCreates \/ Update \/ UNCHANGED vars
    BY <1>1, <2>2 DEF SetUniform, DestroyPipeline, UpdateCreates, Update, vars, primVars
  <2>3. CASE DrawUpdated \/ DrawUnchanged \/ FreeMark \/ DropReferences
    BY <1>1, <2>3 DEF DrawUpdated, DrawUnchanged, FreeMark, DropReferences
  <2> QED
    BY <1>2, <2>1, <2>2, <2>3 DEF Next
<1>4. OwnInv' /\ OwnDraws'
  <2>1. CASE SetUniform \/ Begin \/ SubmitFrame \/ Gpu
             \/ (OtherDrawStep /\ ~Present /\ ~PresentRecreates) \/ UNCHANGED vars
    BY <1>1, <2>1, QuietCounts, QuietDraws
  <2>2. CASE DestroyPipeline
    BY <1>1, <2>2, DestroyCounts, DestroyDraws
  <2>3. CASE UpdateCreates
    BY <1>1, <2>3, CreateCounts, CreateDraws
  <2>4. CASE Update
    BY <1>1, <2>4, UpdateCounts, UpdateDraws
  <2>5. CASE DrawUpdated
    BY <1>1, <2>5, DrawUpdatedCounts, DrawUpdatedDraws
  <2>6. CASE DrawUnchanged
    BY <1>1, <2>6, QuietCounts, DrawUnchangedDraws
  <2>7. CASE OtherDrawStep /\ (Present \/ PresentRecreates)
    BY <1>1, <2>7, PresentCounts, PresentDraws
  <2>8. CASE DropReferences
    BY <1>1, <2>8, DropCounts, DropDraws
  <2>9. CASE FreeMark
    BY <1>1, <2>9, FreeMarkCounts, FreeMarkDraws
  <2> QED
    BY <1>2, <2>1, <2>2, <2>3, <2>4, <2>5, <2>6, <2>7, <2>8, <2>9 DEF Next
<1> QED
  BY <1>3, <1>4 DEF OwnSafe

LEMMA OwnAlways ==
  ASSUME RoomForFrames
  PROVE  Spec => [](IInv /\ OwnSafe)
<1>1. Init => OwnSafe
  BY OwnInitially
<1>2. IInv /\ IInv' /\ OwnSafe /\ [Next]_vars => OwnSafe'
  BY OwnPreserved
<1> QED
  BY <1>1, <1>2, InvAlways, PTL DEF Spec

(* If the ring has room for what the frames in flight allocate, a draw of  *)
(* a uniform that did not change, whose block was given back when an older *)
(* frame was released, sees the uniform as it was recorded: no allocation  *)
(* comes round to the block before the GPU is done with the draw.          *)
THEOREM OwnUntorn ==
  ASSUME RoomForFrames
  PROVE  Spec => []UntornIfOwn
<1>1. IInv /\ OwnSafe => UntornIfOwn
  <2> SUFFICES ASSUME IInv, OwnSafe, NEW b \in Bufs, Pending(b),
                      NEW d \in draws[b], d.own
               PROVE  ~d.torn
    BY DEF UntornIfOwn
  <2>1. Live(b)
    BY PendingLive
  <2>2. CASE d.fresh
    BY <2>1, <2>2 DEF IInv, RingInv, DrawsUsed
  <2>3. CASE ~d.fresh
    BY <2>1, <2>3 DEF OwnSafe, OwnDraws, OwnDraw
  <2> QED
    BY <2>2, <2>3
<1> QED
  BY <1>1, OwnAlways, PTL

(* In such a ring UniformBuffers::allocate_dynamic_uniform never throws,   *)
(* although it only learns what is free from the marks that the frames     *)
(* leave.                                                                  *)
THEOREM NoOverflow ==
  ASSUME RoomForFrames
  PROVE  Spec => []NeverOverflows
<1>1. IInv /\ OwnSafe => NeverOverflows
  BY DEF OwnSafe, NeverOverflows
<1> QED
  BY <1>1, OwnAlways, PTL
=============================================================================
