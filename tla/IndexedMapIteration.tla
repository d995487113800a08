------------------------ MODULE IndexedMapIteration ------------------------
(***************************************************************************)
(* An iterator of an IndexedMap which is used while elements are added and *)
(* removed. clear() ends its life.                                         *)
(***************************************************************************)
EXTENDS IndexedMap

VARIABLES
    it,     \* m_chunk_idx and m_slot_idx
    ahead   \* the positions that held an element when the iteration began, and
            \* ever since, and were not reached yet

iteration == <<it, ahead>>
allVars == <<vars, iteration>>

End == <<NoIndex, NoIndex>>

Elements == {p \in Position : p[1] \in Chunks /\ p[2] \in m_chunk[p[1]].taken}

\* Mutant: the slot is not set back to 0 for the next chunk.
FollowingKeepsSlot(p) == IF p[2] + 1 = ChunkSize THEN <<p[1] + 1, p[2]>> ELSE <<p[1], p[2] + 1>>

\* The slot after p, in the next chunk when p is the last slot of its chunk.
Following(p) == IF p[2] + 1 = ChunkSize THEN <<p[1] + 1, 0>> ELSE <<p[1], p[2] + 1>>

\* jump_to_next(): skip free slots up to the end of the last chunk.
JumpToNext(start) ==
    LET seek[p \in (0 .. MaxChunks) \X Slots] ==
            IF p[1] \notin Chunks THEN End
            ELSE IF p[2] \in m_chunk[p[1]].taken THEN p
            ELSE seek[Following(p)]
    IN  seek[start]

IterationInit ==
    /\ Init
    /\ it = End
    /\ ahead = {}

Begin ==
    /\ it' = JumpToNext(<<0, 0>>)
    /\ ahead' = Elements \ {it'}
    /\ UNCHANGED vars

\* operator++, also when the element at the iterator was removed meanwhile
Advance ==
    /\ it # End
    /\ it' = JumpToNext(Following(it))
    /\ ahead' = ahead \ {it'}
    /\ UNCHANGED vars

AddMeanwhile ==
    /\ \E v \in Value : Add(v)
    /\ UNCHANGED iteration

RemoveMeanwhile ==
    /\ (\E h \in Handle : Remove(h)) \/ (\E p \in Position : RemoveAt(p))
    /\ ahead' = {p \in ahead : p[2] \in m_chunk'[p[1]].taken}
    /\ it' = it

ClearAll ==
    /\ Clear
    /\ it' = End
    /\ ahead' = {}

IterationNext == Begin \/ Advance \/ AddMeanwhile \/ RemoveMeanwhile \/ ClearAll

IterationSpec == IterationInit /\ [][IterationNext]_allVars

----------------------------------------------------------------------------

\* The iterator never passes an element that was there from the beginning: what
\* it has not reached yet is behind it in the order of positions, and at the end
\* of the iteration there is no such element.
NoneSkipped ==
    \A p \in ahead :
        /\ it # End
        /\ \/ it[1] < p[1]
           \/ it[1] = p[1] /\ it[2] < p[2]
=============================================================================
