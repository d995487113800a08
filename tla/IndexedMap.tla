----------------------------- MODULE IndexedMap -----------------------------
(***************************************************************************)
(* The container core/container/IndexedMap.h: a vector of chunks with a    *)
(* fixed number of slots, a bitmap of occupied slots in each, and a list   *)
(* of the chunks that have free slots, linked through the chunks.          *)
(*                                                                         *)
(* An Index is chunk * chunk_size + slot; every operation takes it apart   *)
(* again, and here it is the pair <<chunk, slot>>.                         *)
(***************************************************************************)
EXTENDS Integers

CONSTANTS
    Value,      \* the elements
    Nothing,    \* no element: get() returns nullptr, no object in a slot
    ChunkSize,  \* chunk_size, 64 in the code
    MaxChunks,  \* bound: an Index has 32 bits
    MaxTenant   \* bound: a Tenant has 32 bits

ASSUME ValueAssumption == Nothing \notin Value /\ "unused" \notin Value /\ "gone" \notin Value
ASSUME SizeAssumption == ChunkSize \in Nat \ {0} /\ MaxChunks \in Nat /\ MaxTenant \in Nat

VARIABLES
    m_chunk,        \* the chunks, numbered from 0
    m_size,         \* what size() returns
    m_free_chunk,   \* head of the list of chunks with free slots
    lost            \* the chunks with free slots which were not put on the list

vars == <<m_chunk, m_size, m_free_chunk, lost>>

NoIndex == -1
Slots == 0 .. ChunkSize - 1
Position == (0 .. MaxChunks - 1) \X Slots
Handle == Position \X (0 .. MaxTenant)

\* taken is the bitmap free_map, in which a set bit means an occupied slot.
Chunk == [taken : SUBSET Slots, tenant : [Slots -> 0 .. MaxTenant],
          elem : [Slots -> Value \cup {Nothing}],
          next_free : NoIndex .. MaxChunks - 1]

Chunks == DOMAIN m_chunk

Full(c) == m_chunk[c].taken = Slots

\* The slots of a new chunk are filled with zeros.
NewChunk == [taken |-> {}, tenant |-> [s \in Slots |-> 0],
             elem |-> [s \in Slots |-> Nothing], next_free |-> NoIndex]

Get(h) ==
    LET c == h[1][1]
        s == h[1][2]
    IN  IF c \in Chunks /\ s \in m_chunk[c].taken /\ m_chunk[c].tenant[s] = h[2]
        THEN m_chunk[c].elem[s]
        ELSE Nothing

Init ==
    /\ m_chunk = [c \in {} |-> NewChunk]
    /\ m_size = 0
    /\ m_free_chunk = NoIndex
    /\ lost = {}

----------------------------------------------------------------------------

\* chunk with v constructed in slot s
Occupied(chunk, s, v) ==
    [chunk EXCEPT !.taken = @ \cup {s}, !.elem = [chunk.elem EXCEPT ![s] = v]]

\* chunk with the element in slot s destroyed
Released(chunk, s, next) ==
    [chunk EXCEPT !.taken = @ \ {s}, !.elem = [chunk.elem EXCEPT ![s] = Nothing],
                  !.tenant = [chunk.tenant EXCEPT ![s] = chunk.tenant[s] + 1],
                  !.next_free = next]

\* Mutant: the list ends with the chunk that gets full.
FillUnlinks(chunks, c, v) ==
    \E s \in Slots \ chunks[c].taken :
        /\ \A r \in Slots : r < s => r \in chunks[c].taken
        /\ m_chunk' = [chunks EXCEPT ![c] = Occupied(chunks[c], s, v)]
        /\ m_free_chunk' = IF chunks[c].taken \cup {s} = Slots THEN NoIndex ELSE c

\* add() and emplace(): the first free slot of the first chunk on the list, or
\* of a new chunk. A chunk that gets full leaves the list.
Fill(chunks, c, v) ==
    \E s \in Slots \ chunks[c].taken :
        /\ \A r \in Slots : r < s => r \in chunks[c].taken
        /\ m_chunk' = [chunks EXCEPT ![c] = Occupied(chunks[c], s, v)]
        /\ m_free_chunk' = IF chunks[c].taken \cup {s} = Slots THEN chunks[c].next_free ELSE c

Add(v) ==
    /\ \/ /\ m_free_chunk # NoIndex
          /\ Fill(m_chunk, m_free_chunk, v)
       \/ \E n \in 0 .. MaxChunks - 1 :
              /\ m_free_chunk = NoIndex
              /\ Chunks = 0 .. n - 1
              /\ Fill([c \in 0 .. n |-> IF c = n THEN NewChunk ELSE m_chunk[c]], n, v)
    /\ m_size' = m_size + 1
    /\ lost' = lost

\* Mutant: the slot keeps its generation.
VacateSameTenant(c, s, relink) ==
    /\ m_chunk' = [m_chunk EXCEPT ![c] =
           [Released(m_chunk[c], s, IF relink THEN m_free_chunk ELSE m_chunk[c].next_free)
               EXCEPT !.tenant = m_chunk[c].tenant]]
    /\ m_free_chunk' = IF relink THEN c ELSE m_free_chunk
    /\ m_size' = m_size

\* The part the two remove() have in common. m_size stays.
Vacate(c, s, relink) ==
    /\ m_chunk[c].tenant[s] < MaxTenant
    /\ m_chunk' = [m_chunk EXCEPT ![c] =
           Released(m_chunk[c], s, IF relink THEN m_free_chunk ELSE m_chunk[c].next_free)]
    /\ m_free_chunk' = IF relink THEN c ELSE m_free_chunk
    /\ m_size' = m_size

\* remove(WeakIndex). For any other handle it returns false and changes nothing.
Remove(h) ==
    LET c == h[1][1]
        s == h[1][2]
    IN  /\ c \in Chunks
        /\ s \in m_chunk[c].taken
        /\ m_chunk[c].tenant[s] = h[2]
        /\ Vacate(c, s, Full(c))
        /\ lost' = lost

\* remove(Index), which may be called for occupied slots only. Its test for a
\* full chunk compares the bitmap with 0.
RemoveAt(p) ==
    LET c == p[1]
        s == p[2]
    IN  /\ c \in Chunks
        /\ s \in m_chunk[c].taken
        /\ Vacate(c, s, m_chunk[c].taken = {})
        /\ lost' = IF Full(c) THEN lost \cup {c} ELSE lost

\* Mutant: the list is not reset.
ClearKeepsList ==
    /\ m_chunk' = [c \in {} |-> NewChunk]
    /\ m_size' = 0
    /\ m_free_chunk' = m_free_chunk
    /\ lost' = {}

Clear ==
    /\ m_chunk' = [c \in {} |-> NewChunk]
    /\ m_size' = 0
    /\ m_free_chunk' = NoIndex
    /\ lost' = {}

Next ==
    \/ \E v \in Value : Add(v)
    \/ \E h \in Handle : Remove(h)
    \/ \E p \in Position : RemoveAt(p)
    \/ Clear

Spec == Init /\ [][Next]_vars

----------------------------------------------------------------------------

TypeOK ==
    /\ \E n \in 0 .. MaxChunks : m_chunk \in [0 .. n - 1 -> Chunk]
    /\ m_size \in Nat
    /\ m_free_chunk \in Chunks \cup {NoIndex}
    /\ lost \in SUBSET Chunks

\* list, of length n, is the chain of chunks which starts at m_free_chunk, and
\* it has every chunk with a free slot, once, but for those in missing.
IsFreeList(n, list, missing) ==
    /\ \A i, j \in 1 .. n : list[i] = list[j] => i = j
    /\ \A c \in Chunks : (\E i \in 1 .. n : list[i] = c) <=> ~Full(c) /\ c \notin missing
    /\ m_free_chunk = IF n = 0 THEN NoIndex ELSE list[1]
    /\ \A i \in 1 .. n :
           m_chunk[list[i]].next_free = IF i = n THEN NoIndex ELSE list[i + 1]

FreeList(missing) ==
    \E n \in 0 .. MaxChunks : \E list \in [1 .. n -> Chunks] : IsFreeList(n, list, missing)

\* The links, which stay in chunks that left the list and are set again when
\* they return, lead through exactly the chunks with free slots, once each.
\* Chunks in which remove(Index) freed the first slot are not among them.
FreeListExact == FreeList(lost)

\* What a handle stands for: the element that get() finds, or one that was
\* removed from its slot, or one that was not added yet.
Status(h) ==
    LET c == h[1][1]
        s == h[1][2]
    IN  CASE Get(h) # Nothing -> Get(h)
          [] Get(h) = Nothing /\ c \in Chunks /\ h[2] < m_chunk[c].tenant[s] -> "gone"
          [] OTHER -> "unused"

Held == [h \in Handle |-> Status(h)]

Contents == INSTANCE WeakMap WITH holds <- Held

\* The container is a WeakMap: removal, reuse of slots and growth never lead a
\* handle given out earlier to another element, and never lose one.
WeakMapSpec == Contents!Spec
=============================================================================
