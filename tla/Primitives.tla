----------------------------- MODULE Primitives -----------------------------
(***************************************************************************)
(* What a frame draws (graphics/Primitives.cpp): one Primitives object     *)
(* with a dynamic uniform, the buffers it shares with the command buffers  *)
(* that draw it, and the frames of the module Frames, which the GPU        *)
(* executes while the next ones are updated and recorded.                  *)
(*                                                                         *)
(* update_pipeline() creates a generation of buffers, destroy_pipeline()   *)
(* drops the object's reference to it, and the command buffers keep it     *)
(* until their resources are released.  The data of the uniform is         *)
(* abstracted to the units of the ring they are written to: a draw is torn *)
(* when a unit it is bound to is written before the GPU is done with it.   *)
(* Non-dynamic uniforms, which are documented to change at once, vertices, *)
(* textures and storage are left out, as is a surface that changes.        *)
(***************************************************************************)
EXTENDS Frames, UniformRing

CONSTANTS
  UniformSize,    \* the aligned size of the dynamic uniform
  MaxGenerations, \* bound: generations of buffers that exist at a time
  MaxUpdates,     \* bound: calls of update() with changes before a draw
  MaxDraws        \* bound: calls of draw() in a frame

ASSUME UniformSizeAssumption == UniformSize \in Nat \ {0}
ASSUME BoundsAssumption ==
  MaxGenerations \in Nat /\ MaxUpdates \in Nat /\ MaxDraws \in Nat

VARIABLES
  prim,     \* the Primitives object
  ring,     \* the dynamic area of each generation of its buffers
  draws,    \* per command buffer: the draws of its frame,
  held,     \* the generations it keeps,
  marks,    \* and the marks it will free, in the order of the draws
  updates,  \* how many updates wrote the uniform since the last draw
  drawn,    \* how many draws the frame has
  failed    \* allocate_dynamic_uniform threw

primVars == <<prim, ring, draws, held, marks, updates, drawn, failed>>
vars == <<frameVars, primVars>>

Generations == 1 .. MaxGenerations
NoPipeline == 0

(* The object: its generation of buffers, the dynamic offset of the        *)
(* uniform, m_dynamic_uniforms_updated and, as history, whether the offset *)
(* was allocated in the ring of this generation.                           *)
Prim(gen, offset, updated, own) ==
  [gen |-> gen, offset |-> offset, updated |-> updated, own |-> own]

Prims == [gen : Generations \cup {NoPipeline}, offset : Units,
          updated : BOOLEAN, own : BOOLEAN]

(* A draw command: what it is bound to.  As history, whether the offset is *)
(* the object's own, whether this draw allocated it, and whether that      *)
(* memory was written later.                                               *)
Draw(gen, offset, own, fresh, torn) ==
  [gen |-> gen, offset |-> offset, own |-> own, fresh |-> fresh, torn |-> torn]

Draws == [gen : Generations, offset : Units, own : BOOLEAN, fresh : BOOLEAN,
          torn : BOOLEAN]

Mark(gen, offset) == [gen |-> gen, offset |-> offset]

Marks == [gen : Generations, offset : 1 .. RingSize]

TypeOK ==
  /\ FramesTypeOK
  /\ prim \in Prims
  /\ ring \in [Generations -> Rings]
  /\ draws \in [Bufs -> SUBSET Draws]
  /\ held \in [Bufs -> SUBSET Generations]
  /\ marks \in [Bufs -> Seq(Marks)]
  /\ updates \in 0 .. MaxUpdates
  /\ drawn \in 0 .. MaxDraws
  /\ failed \in BOOLEAN

Init ==
  /\ FramesInit
  /\ prim = Prim(NoPipeline, 0, FALSE, FALSE)
  /\ ring = [g \in Generations |-> EmptyRing]
  /\ draws = [b \in Bufs |-> {}]
  /\ held = [b \in Bufs |-> {}]
  /\ marks = [b \in Bufs |-> <<>>]
  /\ updates = 0
  /\ drawn = 0
  /\ failed = FALSE

(* The references to the generations: the object's and the command         *)
(* buffers'.  The last one destroys the buffers.                           *)
AliveWith(gen, holds) == {gen} \cup UNION {holds[b] : b \in Bufs}

Alive == AliveWith(prim.gen, held)

OfAlive(rings, alive) ==
  [g \in Generations |-> IF g \in alive THEN rings[g] ELSE EmptyRing]

(* A block of a generation is written: who is bound to it is torn. *)
Overlap(offset1, offset2) ==
  offset1 < offset2 + UniformSize /\ offset2 < offset1 + UniformSize

TornBy(d, gen, offset) ==
  Draw(d.gen, d.offset, d.own, d.fresh,
       d.torn \/ (d.gen = gen /\ Overlap(d.offset, offset)))

Written(gen, offset) ==
  [b \in Bufs |-> {TornBy(d, gen, offset) : d \in draws[b]}]

-----------------------------------------------------------------------------
(* The application, between frames and in the draw callback. *)

(* set_dynamic_uniform() with other data than the last time. *)
SetUniform ==
  /\ step \in {"idle", "record"}
  /\ ~prim.updated
  /\ prim' = Prim(prim.gen, prim.offset, TRUE, prim.own)
  /\ UNCHANGED <<frameVars, ring, draws, held, marks, updates, drawn, failed>>

(* clear(), set_texture() and the like: destroy_pipeline(). *)
DestroyPipeline ==
  /\ step = "idle"
  /\ prim.gen # NoPipeline
  /\ prim' = Prim(NoPipeline, prim.offset, prim.updated, FALSE)
  /\ ring' = OfAlive(ring, AliveWith(NoPipeline, held))
  /\ UNCHANGED <<frameVars, draws, held, marks, updates, drawn, failed>>

(* update() without a pipeline creates the buffers.  copy_all_uniforms     *)
(* writes the data at the offset the uniform had before, which is not      *)
(* allocated in the new ring, and the uniform does not count as updated.   *)
UpdateCreates ==
  /\ step = "idle"
  /\ prim.gen = NoPipeline
  /\ \E g \in Generations \ Alive :
        /\ \A h \in Generations \ Alive : g <= h
        /\ ring' = [ring EXCEPT ![g] = EmptyRing]
        /\ draws' = Written(g, prim.offset)
        /\ prim' = Prim(g, prim.offset, FALSE, FALSE)
  /\ UNCHANGED <<frameVars, held, marks, updates, drawn, failed>>

(* copy_updated_uniforms with an update: the uniform is allocated and      *)
(* written.  m_dynamic_uniforms_updated is reset by the draw only.         *)
CopyUpdated(updatedAfter) ==
  LET old == ring[prim.gen] IN
  /\ prim.gen # NoPipeline
  /\ prim.updated
  /\ Fits(old, UniformSize)
  /\ prim' = Prim(prim.gen, OffsetOf(old, UniformSize), updatedAfter, TRUE)
  /\ ring' = [ring EXCEPT ![prim.gen] = Allocated(old, UniformSize)]

(* update() of what changed. *)
Update ==
  /\ step = "idle"
  /\ updates < MaxUpdates
  /\ updates' = updates + 1
  /\ CopyUpdated(TRUE)
  /\ draws' = Written(prim.gen, prim'.offset)
  /\ UNCHANGED <<frameVars, held, marks, drawn, failed>>

(* add_resource of the buffers *)
Keep(gen) == held' = [held EXCEPT ![cur] = held[cur] \cup {gen}]

\* Mutant: nothing frees what a draw allocates.
ForgetMark(gen, offset) == marks' = marks

(* add_cleanup with the mark after the allocation *)
WillFree(gen, offset) ==
  marks' = [marks EXCEPT ![cur] = Append(marks[cur], Mark(gen, offset))]

CountDraw ==
  /\ step = "record"
  /\ drawn < MaxDraws
  /\ drawn' = drawn + 1

(* draw() of a uniform that changed: it is copied (again, when update()    *)
(* did it), and m_dynamic_uniforms_updated is reset.                       *)
DrawUpdated ==
  /\ CountDraw
  /\ CopyUpdated(FALSE)
  /\ draws' = [Written(prim.gen, prim'.offset) EXCEPT ![cur] =
                 Written(prim.gen, prim'.offset)[cur]
                   \cup {Draw(prim.gen, prim'.offset, TRUE, TRUE, FALSE)}]
  /\ Keep(prim.gen)
  /\ WillFree(prim.gen, ring'[prim.gen].free)
  /\ updates' = 0
  /\ UNCHANGED <<frameVars, failed>>

(* draw() of the uniform as it is. *)
DrawUnchanged ==
  /\ CountDraw
  /\ prim.gen # NoPipeline
  /\ ~prim.updated
  /\ draws' = [draws EXCEPT ![cur] =
                 draws[cur] \cup {Draw(prim.gen, prim.offset, prim.own, FALSE, FALSE)}]
  /\ Keep(prim.gen)
  /\ UNCHANGED <<frameVars, prim, ring, marks, updates, failed>>

(* allocate_dynamic_uniform throws, in update() or draw(). *)
Overflow ==
  /\ \/ step = "idle" /\ updates < MaxUpdates
     \/ step = "record" /\ drawn < MaxDraws
  /\ prim.gen # NoPipeline
  /\ prim.updated
  /\ ~Fits(ring[prim.gen], UniformSize)
  /\ failed' = TRUE
  /\ UNCHANGED <<frameVars, prim, ring, draws, held, marks, updates, drawn>>

-----------------------------------------------------------------------------
(* The frame. *)

Begin ==
  /\ BeginDraw
  /\ UNCHANGED primVars

OtherDrawStep ==
  /\ DrawStep
  /\ UNCHANGED primVars

(* release_resources of the command buffer that is begun: the cleanups of  *)
(* its last frame are called in the order of the draws ...                 *)
FreeMark ==
  /\ step = "release"
  /\ marks[cur] # <<>>
  /\ LET m == Head(marks[cur]) IN
       ring' = [ring EXCEPT ![m.gen] = FreedToMark(ring[m.gen], m.offset)]
  /\ marks' = [marks EXCEPT ![cur] = Tail(marks[cur])]
  /\ UNCHANGED <<frameVars, prim, draws, held, updates, drawn, failed>>

(* ... and then the references are dropped. *)
DropReferences ==
  /\ BeginCommands
  /\ marks[cur] = <<>>
  /\ draws' = [draws EXCEPT ![cur] = {}]
  /\ held' = [held EXCEPT ![cur] = {}]
  /\ ring' = OfAlive(ring, AliveWith(prim.gen, held'))
  /\ drawn' = 0
  /\ UNCHANGED <<prim, marks, updates, failed>>

SubmitFrame ==
  /\ Submit
  /\ UNCHANGED primVars

Gpu ==
  /\ GpuDone
  /\ UNCHANGED primVars

Next ==
  /\ ~failed
  /\ \/ SetUniform \/ DestroyPipeline \/ UpdateCreates \/ Update
     \/ DrawUpdated \/ DrawUnchanged \/ Overflow
     \/ Begin \/ OtherDrawStep \/ FreeMark \/ DropReferences \/ SubmitFrame
     \/ Gpu

Spec == Init /\ [][Next]_vars

-----------------------------------------------------------------------------
(* Properties. *)

(* The command buffers that are recorded or executed. *)
Pending(b) == InFlight(b) \/ (b = cur /\ step = "record")

(* The buffers a command reads exist until the GPU is done with it, also   *)
(* when the object was cleared, changed or destroyed meanwhile.            *)
HeldWhilePending ==
  \A b \in Bufs : Pending(b) => \A d \in draws[b] : d.gen \in Alive

(* What a pending draw allocated is in the used part of its ring, although *)
(* the marks of older frames were freed after it, in any order of wrapping *)
(* around: no allocation can return it.                                    *)
ReservedWhilePending ==
  \A b \in Bufs : Pending(b) =>
     \A d \in draws[b] :
        d.fresh => Block(d.offset, UniformSize) \subseteq UsedUnits(ring[d.gen])

(* Such a draw sees the uniform as it was when it was recorded, whatever   *)
(* is updated and drawn while the GPU has not executed it.                 *)
UntornIfFresh ==
  \A b \in Bufs : Pending(b) => \A d \in draws[b] : d.fresh => ~d.torn

(* So does a draw of a uniform that did not change since an earlier frame  *)
(* allocated it (and gave it back): the ring is too long for anyone to     *)
(* come back to the block within two frames.                               *)
UntornIfOwn ==
  \A b \in Bufs : Pending(b) => \A d \in draws[b] : d.own => ~d.torn

(* A ring of two frames' allocations and an update never overflows: what a *)
(* frame uses is given back when the frame after the next is recorded.     *)
NeverOverflows == ~failed
=============================================================================
