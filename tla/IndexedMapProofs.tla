-------------------------- MODULE IndexedMapProofs --------------------------
(***************************************************************************)
(* Theorems about IndexedMap and its iterators, for any size and number of *)
(* chunks.                                                                 *)
(***************************************************************************)
EXTENDS IndexedMapIteration, FiniteSetTheorems, WellFoundedInduction, TLAPS

\* There is an element in exactly the slots that the bitmaps call occupied.
ElementsExact ==
    \A c \in Chunks, s \in Slots : m_chunk[c].elem[s] \in Value <=> s \in m_chunk[c].taken

\* A chunk which was left out of the list is never filled again.
LostHasRoom == \A c \in lost : ~Full(c)

\* The inductive invariant
Sound == TypeOK /\ ElementsExact /\ FreeListExact /\ LostHasRoom

----------------------------------------------------------------------------
\* What the steps do to the chunks

LEMMA NewChunkType ==
    /\ NewChunk \in Chunk
    /\ NewChunk.taken = {}
    /\ NewChunk.next_free = NoIndex
    /\ NewChunk.tenant = [s \in Slots |-> 0]
    /\ NewChunk.elem = [s \in Slots |-> Nothing]
<1>1. NoIndex \in NoIndex .. MaxChunks - 1
  BY SizeAssumption DEF NoIndex
<1>2. 0 \in 0 .. MaxTenant
  BY SizeAssumption
<1>3. QED
  BY <1>1, <1>2 DEF NewChunk, Chunk

LEMMA OccupiedChunk ==
    ASSUME NEW chunk \in Chunk, NEW s \in Slots, NEW v \in Value
    PROVE  /\ Occupied(chunk, s, v) \in Chunk
           /\ Occupied(chunk, s, v).taken = chunk.taken \cup {s}
           /\ Occupied(chunk, s, v).tenant = chunk.tenant
           /\ Occupied(chunk, s, v).elem = [chunk.elem EXCEPT ![s] = v]
           /\ Occupied(chunk, s, v).next_free = chunk.next_free
BY DEF Chunk, Occupied

LEMMA ReleasedChunk ==
    ASSUME NEW chunk \in Chunk, NEW s \in Slots, chunk.tenant[s] < MaxTenant,
           NEW next \in NoIndex .. MaxChunks - 1
    PROVE  /\ Released(chunk, s, next) \in Chunk
           /\ Released(chunk, s, next).taken = chunk.taken \ {s}
           /\ Released(chunk, s, next).tenant = [chunk.tenant EXCEPT ![s] = chunk.tenant[s] + 1]
           /\ Released(chunk, s, next).elem = [chunk.elem EXCEPT ![s] = Nothing]
           /\ Released(chunk, s, next).next_free = next
<1>1. chunk.tenant[s] + 1 \in 0 .. MaxTenant
  BY SizeAssumption DEF Chunk
<1>2. QED
  BY <1>1 DEF Chunk, Released

LEMMA VacateStep ==
    ASSUME NEW n \in 0 .. MaxChunks, m_chunk \in [0 .. n - 1 -> Chunk],
           m_free_chunk \in NoIndex .. MaxChunks - 1,
           NEW c \in 0 .. n - 1, NEW s \in Slots, NEW relink \in BOOLEAN,
           Vacate(c, s, relink)
    PROVE  LET next == IF relink THEN m_free_chunk ELSE m_chunk[c].next_free
           IN  /\ next \in NoIndex .. MaxChunks - 1
               /\ m_chunk[c].tenant[s] < MaxTenant
               /\ m_chunk' \in [0 .. n - 1 -> Chunk]
               /\ \A d \in 0 .. n - 1 : d # c => m_chunk'[d] = m_chunk[d]
               /\ m_chunk'[c] = Released(m_chunk[c], s, next)
<1> DEFINE next == IF relink THEN m_free_chunk ELSE m_chunk[c].next_free
<1>1. next \in NoIndex .. MaxChunks - 1
  BY DEF Chunk
<1>2. /\ m_chunk[c].tenant[s] < MaxTenant
      /\ m_chunk' = [m_chunk EXCEPT ![c] = Released(m_chunk[c], s, next)]
  BY DEF Vacate
<1> HIDE DEF next
<1>3. Released(m_chunk[c], s, next) \in Chunk
  BY <1>1, <1>2, ReleasedChunk
<1>4. QED
  BY <1>1, <1>2, <1>3 DEF next

----------------------------------------------------------------------------
\* The list of chunks with free slots

\* FreeListExact for any chunks, numbered 0 .. n - 1
Chain(n, chunks, head, len, list, missing) ==
    /\ \A i, j \in 1 .. len : list[i] = list[j] => i = j
    /\ \A c \in 0 .. n - 1 :
           (\E i \in 1 .. len : list[i] = c) <=> chunks[c].taken # Slots /\ c \notin missing
    /\ head = IF len = 0 THEN NoIndex ELSE list[1]
    /\ \A i \in 1 .. len :
           chunks[list[i]].next_free = IF i = len THEN NoIndex ELSE list[i + 1]

\* A list without repetition is not longer than there are chunks.
LEMMA ListFits ==
    ASSUME NEW n \in Nat, NEW len \in Nat, NEW list \in [1 .. len -> 0 .. n - 1],
           \A i, j \in 1 .. len : list[i] = list[j] => i = j
    PROVE  len <= n
<1>1. IsFiniteSet(1 .. len) /\ Cardinality(1 .. len) = len
  BY FS_Interval
<1>2. IsFiniteSet(0 .. n - 1) /\ Cardinality(0 .. n - 1) = n
  BY FS_Interval
<1>3. CASE len > n
  <2>1. \E i, j \in 1 .. len : i # j /\ list[i] = list[j]
    BY <1>1, <1>2, <1>3, FS_PigeonHole
  <2>2. QED
    BY <2>1
<1>4. QED
  BY <1>3

\* The chunk at the head gets an element, and may leave the list.
LEMMA FillChain ==
    ASSUME NEW n \in Nat, NEW chunks, NEW new, NEW c \in 0 .. n - 1, NEW missing,
           NEW len \in Nat, NEW list \in [1 .. len -> 0 .. n - 1],
           Chain(n, chunks, c, len, list, missing),
           c # NoIndex,
           \A d \in 0 .. n - 1 : d # c => new[d] = chunks[d],
           new[c].next_free = chunks[c].next_free
    PROVE  \E m \in 0 .. len : \E rest \in [1 .. m -> 0 .. n - 1] :
               Chain(n, new, IF new[c].taken = Slots THEN chunks[c].next_free ELSE c,
                     m, rest, missing)
<1>1. len >= 1 /\ list[1] = c
  BY DEF Chain
<1>2. c \notin missing
  BY <1>1 DEF Chain
<1>3. CASE new[c].taken # Slots
  <2>1. ASSUME NEW d \in 0 .. n - 1
        PROVE  (\E i \in 1 .. len : list[i] = d) <=> new[d].taken # Slots /\ d \notin missing
    <3>1. CASE d = c
      <4>1. 1 \in 1 .. len /\ list[1] = d
        BY <1>1, <3>1
      <4>2. QED
        BY <1>2, <1>3, <3>1, <4>1
    <3>2. CASE d # c
      BY <3>2 DEF Chain
    <3>3. QED
      BY <3>1, <3>2
  <2>2. \A i \in 1 .. len : new[list[i]].next_free = IF i = len THEN NoIndex ELSE list[i + 1]
    BY DEF Chain
  <2>3. Chain(n, new, c, len, list, missing)
    BY <2>1, <2>2 DEF Chain
  <2>4. QED
    BY <1>3, <2>3
<1>4. CASE new[c].taken = Slots
  <2> DEFINE rest == [i \in 1 .. len - 1 |-> list[i + 1]]
  <2>1. rest \in [1 .. len - 1 -> 0 .. n - 1] /\ len - 1 \in 0 .. len
    BY <1>1
  <2>2. \A i, j \in 1 .. len - 1 : rest[i] = rest[j] => i = j
    BY <1>1 DEF Chain
  <2>3. \A d \in 0 .. n - 1 : (\E i \in 1 .. len - 1 : rest[i] = d) <=> d # c /\ (\E i \in 1 .. len : list[i] = d)
    <3>1. SUFFICES ASSUME NEW d \in 0 .. n - 1
                   PROVE  (\E i \in 1 .. len - 1 : rest[i] = d) <=> d # c /\ (\E i \in 1 .. len : list[i] = d)
      OBVIOUS
    <3>2. ASSUME NEW i \in 1 .. len - 1, rest[i] = d
          PROVE  d # c /\ \E j \in 1 .. len : list[j] = d
      <4>1. i + 1 \in 1 .. len /\ list[i + 1] = d /\ i + 1 # 1 /\ 1 \in 1 .. len
        BY <1>1, <3>2
      <4>2. QED
        BY <1>1, <4>1 DEF Chain
    <3>3. ASSUME d # c, NEW i \in 1 .. len, list[i] = d
          PROVE  \E j \in 1 .. len - 1 : rest[j] = d
      <4>1. i - 1 \in 1 .. len - 1
        BY <1>1, <3>3
      <4>2. rest[i - 1] = d
        BY <3>3, <4>1
      <4>3. QED
        BY <4>1, <4>2
    <3>4. QED
      BY <3>2, <3>3
  <2>4. \A d \in 0 .. n - 1 : (\E i \in 1 .. len - 1 : rest[i] = d) <=> new[d].taken # Slots /\ d \notin missing
    BY <1>4, <2>3 DEF Chain
  <2>5. chunks[c].next_free = IF len - 1 = 0 THEN NoIndex ELSE rest[1]
    BY <1>1 DEF Chain
  <2>6. ASSUME NEW i \in 1 .. len - 1
        PROVE  new[rest[i]].next_free = IF i = len - 1 THEN NoIndex ELSE rest[i + 1]
    <3>1. i + 1 \in 1 .. len /\ rest[i] = list[i + 1] /\ rest[i] \in 0 .. n - 1
      BY <1>1
    <3>2. rest[i] # c
      BY <2>3
    <3>3. new[rest[i]].next_free = IF i + 1 = len THEN NoIndex ELSE list[i + 2]
      BY <3>1, <3>2 DEF Chain
    <3>4. QED
      BY <1>1, <3>3
  <2> HIDE DEF rest
  <2>7. Chain(n, new, chunks[c].next_free, len - 1, rest, missing)
    BY <2>2, <2>4, <2>5, <2>6 DEF Chain
  <2>8. QED
    BY <1>4, <2>1, <2>7
<1>5. QED
  BY <1>3, <1>4

\* A full chunk loses an element and is put in front.
LEMMA RelinkChain ==
    ASSUME NEW n \in Nat, NEW chunks, NEW new, NEW c \in 0 .. n - 1, NEW missing, NEW head,
           NEW len \in Nat, NEW list \in [1 .. len -> 0 .. n - 1],
           Chain(n, chunks, head, len, list, missing),
           \A d \in 0 .. n - 1 : d # c => new[d] = chunks[d],
           chunks[c].taken = Slots, c \notin missing,
           new[c].taken # Slots, new[c].next_free = head
    PROVE  \E m \in Nat : \E more \in [1 .. m -> 0 .. n - 1] : Chain(n, new, c, m, more, missing)
<1> DEFINE more == [i \in 1 .. len + 1 |-> IF i = 1 THEN c ELSE list[i - 1]]
<1>1. /\ more \in [1 .. len + 1 -> 0 .. n - 1]
      /\ len + 1 \in Nat
      /\ more[1] = c
      /\ \A i \in 1 .. len : more[i + 1] = list[i]
  OBVIOUS
<1>2. \A i \in 1 .. len : list[i] # c /\ list[i] \in 0 .. n - 1
  BY DEF Chain
<1> HIDE DEF more
<1>3. \A i \in 2 .. len + 1 : i - 1 \in 1 .. len /\ more[i] = list[i - 1]
  BY <1>1
<1>4. \A i, j \in 1 .. len + 1 : more[i] = more[j] => i = j
  <2>1. SUFFICES ASSUME NEW i \in 1 .. len + 1, NEW j \in 1 .. len + 1, more[i] = more[j]
                 PROVE  i = j
    OBVIOUS
  <2>2. CASE i = 1 \/ j = 1
    BY <1>1, <1>2, <1>3, <2>1, <2>2
  <2>3. CASE i # 1 /\ j # 1
    <3>1. i - 1 \in 1 .. len /\ j - 1 \in 1 .. len /\ list[i - 1] = list[j - 1]
      BY <1>3, <2>1, <2>3
    <3>2. i - 1 = j - 1
      BY <3>1 DEF Chain
    <3>3. QED
      BY <3>2
  <2>4. QED
    BY <2>2, <2>3
<1>5. ASSUME NEW d \in 0 .. n - 1
      PROVE  (\E i \in 1 .. len + 1 : more[i] = d) <=> new[d].taken # Slots /\ d \notin missing
  <2>1. CASE d = c
    BY <1>1, <2>1
  <2>2. CASE d # c
    <3>1. (\E i \in 1 .. len + 1 : more[i] = d) <=> (\E i \in 1 .. len : list[i] = d)
      <4>1. ASSUME NEW i \in 1 .. len + 1, more[i] = d
            PROVE  \E j \in 1 .. len : list[j] = d
        <5>1. i \in 2 .. len + 1
          BY <1>1, <2>2, <4>1
        <5>2. QED
          BY <1>3, <4>1, <5>1
      <4>2. ASSUME NEW i \in 1 .. len, list[i] = d
            PROVE  \E j \in 1 .. len + 1 : more[j] = d
        <5>1. i + 1 \in 1 .. len + 1 /\ more[i + 1] = d
          BY <1>1, <4>2
        <5>2. QED
          BY <5>1
      <4>3. QED
        BY <4>1, <4>2
    <3>2. QED
      BY <2>2, <3>1 DEF Chain
  <2>3. QED
    BY <2>1, <2>2
<1>6. ASSUME NEW i \in 1 .. len + 1
      PROVE  new[more[i]].next_free = IF i = len + 1 THEN NoIndex ELSE more[i + 1]
  <2>1. CASE i = 1
    BY <1>1, <2>1 DEF Chain
  <2>2. CASE i # 1
    <3>1. i \in 2 .. len + 1 /\ i - 1 \in 1 .. len /\ more[i] = list[i - 1]
      BY <1>3, <2>2
    <3>2. new[more[i]].next_free = IF i - 1 = len THEN NoIndex ELSE list[i]
      <4>1. chunks[list[i - 1]].next_free = IF i - 1 = len THEN NoIndex ELSE list[(i - 1) + 1]
        BY <3>1 DEF Chain
      <4>2. (i - 1) + 1 = i /\ new[list[i - 1]] = chunks[list[i - 1]]
        BY <1>2, <3>1
      <4>3. QED
        BY <3>1, <4>1, <4>2
    <3>3. QED
      BY <1>1, <3>1, <3>2
  <2>3. QED
    BY <2>1, <2>2
<1>7. Chain(n, new, c, len + 1, more, missing)
  BY <1>1, <1>4, <1>5, <1>6 DEF Chain
<1>8. QED
  BY <1>1, <1>7
----------------------------------------------------------------------------
\* The invariant

\* The parts of Sound which do not speak of the list, with a number of chunks
Shape(n) ==
    /\ n \in 0 .. MaxChunks
    /\ m_chunk \in [0 .. n - 1 -> Chunk]
    /\ Chunks = 0 .. n - 1
    /\ m_size \in Nat
    /\ m_free_chunk \in Chunks \cup {NoIndex}
    /\ m_free_chunk \in NoIndex .. MaxChunks - 1
    /\ lost \in SUBSET Chunks

LEMMA TypeShape == TypeOK <=> \E n \in Nat : Shape(n)
<1>1. ASSUME TypeOK PROVE \E n \in Nat : Shape(n)
  <2>1. PICK n \in 0 .. MaxChunks : m_chunk \in [0 .. n - 1 -> Chunk]
    BY <1>1 DEF TypeOK
  <2>2. Chunks = 0 .. n - 1
    BY <2>1 DEF Chunks
  <2>3. m_free_chunk \in NoIndex .. MaxChunks - 1
    BY <1>1, <2>2, SizeAssumption DEF TypeOK, NoIndex
  <2>4. QED
    BY <1>1, <2>1, <2>2, <2>3 DEF TypeOK, Shape
<1>2. ASSUME NEW n \in Nat, Shape(n) PROVE TypeOK
  BY <1>2 DEF Shape, TypeOK
<1>3. QED
  BY <1>1, <1>2

LEMMA ListChain ==
    ASSUME NEW n \in Nat, Shape(n), NEW len, NEW list, NEW missing
    PROVE  IsFreeList(len, list, missing)
           <=> Chain(n, m_chunk, m_free_chunk, len, list, missing)
BY DEF Shape, IsFreeList, Chain, Full

\* FreeListExact without the limit on the length, which holds anyway
LEMMA ListExact ==
    ASSUME NEW n \in Nat, Shape(n)
    PROVE  FreeListExact <=>
               \E len \in Nat : \E list \in [1 .. len -> 0 .. n - 1] :
                   Chain(n, m_chunk, m_free_chunk, len, list, lost)
<1>1. ASSUME FreeListExact
      PROVE  \E len \in Nat : \E list \in [1 .. len -> 0 .. n - 1] :
                 Chain(n, m_chunk, m_free_chunk, len, list, lost)
  <2>1. PICK len \in 0 .. MaxChunks : \E list \in [1 .. len -> Chunks] : IsFreeList(len, list, lost)
    BY <1>1 DEF FreeListExact, FreeList
  <2>2. PICK list \in [1 .. len -> 0 .. n - 1] : IsFreeList(len, list, lost)
    BY <2>1 DEF Shape
  <2>3. len \in Nat /\ Chain(n, m_chunk, m_free_chunk, len, list, lost)
    BY <2>2, ListChain
  <2>4. QED
    BY <2>3
<1>2. ASSUME NEW len \in Nat, NEW list \in [1 .. len -> 0 .. n - 1],
             Chain(n, m_chunk, m_free_chunk, len, list, lost)
      PROVE  FreeListExact
  <2>1. len <= n
    BY <1>2, ListFits DEF Chain
  <2>2. len \in 0 .. MaxChunks
    BY <2>1, SizeAssumption DEF Shape
  <2>3. list \in [1 .. len -> Chunks] /\ IsFreeList(len, list, lost)
    BY <1>2, ListChain DEF Shape
  <2>4. QED
    BY <2>2, <2>3 DEF FreeListExact, FreeList
<1>3. QED
  BY <1>1, <1>2
\* What is left to show for a step
LEMMA SoundNext ==
    ASSUME NEW n \in 0 .. MaxChunks,
           m_chunk' \in [0 .. n - 1 -> Chunk],
           m_size' \in Nat,
           lost' \in SUBSET (0 .. n - 1),
           \A c \in 0 .. n - 1, s \in Slots :
               m_chunk'[c].elem[s] \in Value <=> s \in m_chunk'[c].taken,
           \A c \in lost' : m_chunk'[c].taken # Slots,
           NEW len \in Nat, NEW list \in [1 .. len -> 0 .. n - 1],
           Chain(n, m_chunk', m_free_chunk', len, list, lost')
    PROVE  Sound'
<1>1. Chunks' = 0 .. n - 1
  BY DEF Chunks
<1>2. m_free_chunk' \in Chunks' \cup {NoIndex}
  BY <1>1 DEF Chain
<1>3. TypeOK'
  BY <1>1, <1>2 DEF TypeOK
<1>4. ElementsExact' /\ LostHasRoom'
  BY <1>1 DEF ElementsExact, LostHasRoom, Full
<1>5. len \in 0 .. MaxChunks
  <2>1. n \in Nat
    BY SizeAssumption
  <2>2. len <= n
    BY <2>1, ListFits DEF Chain
  <2>3. QED
    BY <2>2, SizeAssumption
<1>6. list \in [1 .. len -> Chunks'] /\ IsFreeList(len, list, lost)'
  BY <1>1 DEF IsFreeList, Chain, Full
<1>7. FreeListExact'
  BY <1>5, <1>6 DEF FreeListExact, FreeList
<1>8. QED
  BY <1>3, <1>4, <1>7 DEF Sound

LEMMA SoundShape ==
    ASSUME Sound
    PROVE  \E n \in Nat : /\ Shape(n)
                          /\ \A c \in 0 .. n - 1, s \in Slots :
                                 m_chunk[c].elem[s] \in Value <=> s \in m_chunk[c].taken
                          /\ \A c \in lost : m_chunk[c].taken # Slots
                          /\ \E len \in Nat : \E list \in [1 .. len -> 0 .. n - 1] :
                                 Chain(n, m_chunk, m_free_chunk, len, list, lost)
<1>1. PICK n \in Nat : Shape(n)
  BY TypeShape DEF Sound
<1>2. \A c \in 0 .. n - 1, s \in Slots : m_chunk[c].elem[s] \in Value <=> s \in m_chunk[c].taken
  BY <1>1 DEF Sound, ElementsExact, Shape
<1>3. \A c \in lost : m_chunk[c].taken # Slots
  BY DEF Sound, LostHasRoom, Full
<1>4. \E len \in Nat : \E list \in [1 .. len -> 0 .. n - 1] :
          Chain(n, m_chunk, m_free_chunk, len, list, lost)
  BY <1>1, ListExact DEF Sound
<1>5. QED
  BY <1>1, <1>2, <1>3, <1>4

\* An element is added to the chunk at the head of the list, which may be new.
LEMMA FillSound ==
    ASSUME NEW n \in 0 .. MaxChunks, NEW STATE chunks, chunks \in [0 .. n - 1 -> Chunk],
           NEW STATE c, c \in 0 .. n - 1, NEW v \in Value, Fill(chunks, c, v),
           m_size' \in Nat, lost' = lost, lost \in SUBSET (0 .. n - 1),
           \A d \in 0 .. n - 1, s \in Slots : chunks[d].elem[s] \in Value <=> s \in chunks[d].taken,
           \A d \in lost : chunks[d].taken # Slots,
           NEW len \in Nat, NEW list \in [1 .. len -> 0 .. n - 1],
           Chain(n, chunks, c, len, list, lost)
    PROVE  Sound'
<1>1. PICK s \in Slots \ chunks[c].taken :
          /\ m_chunk' \in [0 .. n - 1 -> Chunk]
          /\ \A d \in 0 .. n - 1 : d # c => m_chunk'[d] = chunks[d]
          /\ m_chunk'[c] = Occupied(chunks[c], s, v)
          /\ m_free_chunk' = IF chunks[c].taken \cup {s} = Slots THEN chunks[c].next_free ELSE c
  <2>1. PICK s \in Slots \ chunks[c].taken :
            /\ m_chunk' = [chunks EXCEPT ![c] = Occupied(chunks[c], s, v)]
            /\ m_free_chunk' = IF chunks[c].taken \cup {s} = Slots THEN chunks[c].next_free ELSE c
    BY DEF Fill
  <2>2. Occupied(chunks[c], s, v) \in Chunk
    BY OccupiedChunk
  <2>3. QED
    BY <2>1, <2>2
<1>2. /\ m_chunk'[c].taken = chunks[c].taken \cup {s}
      /\ m_chunk'[c].elem = [chunks[c].elem EXCEPT ![s] = v]
      /\ m_chunk'[c].next_free = chunks[c].next_free
  BY <1>1, OccupiedChunk
<1>3. c # NoIndex
  BY DEF NoIndex
<1>4. c \notin lost
  <2>1. len # 0
    BY <1>3 DEF Chain
  <2>2. 1 \in 1 .. len /\ list[1] = c
    BY <2>1 DEF Chain
  <2>3. QED
    BY <2>2 DEF Chain
<1>5. n \in Nat
  BY SizeAssumption
<1>6. \E m \in 0 .. len : \E rest \in [1 .. m -> 0 .. n - 1] :
          Chain(n, m_chunk', m_free_chunk', m, rest, lost')
  <2>1. \E m \in 0 .. len : \E rest \in [1 .. m -> 0 .. n - 1] :
            Chain(n, m_chunk', IF m_chunk'[c].taken = Slots THEN chunks[c].next_free ELSE c,
                  m, rest, lost)
    BY <1>1, <1>2, <1>3, <1>5, FillChain
  <2>2. QED
    BY <1>1, <1>2, <2>1
<1>7. \A d \in 0 .. n - 1, r \in Slots : m_chunk'[d].elem[r] \in Value <=> r \in m_chunk'[d].taken
  <2>1. ASSUME NEW r \in Slots PROVE m_chunk'[c].elem[r] \in Value <=> r \in m_chunk'[c].taken
    <3>1. chunks[c].elem \in [Slots -> Value \cup {Nothing}]
      BY DEF Chunk
    <3>2. QED
      BY <1>2, <3>1
  <2>2. QED
    BY <1>1, <2>1
<1>8. \A d \in lost' : m_chunk'[d].taken # Slots
  BY <1>1, <1>4
<1>9. PICK m \in 0 .. len : \E rest \in [1 .. m -> 0 .. n - 1] :
          Chain(n, m_chunk', m_free_chunk', m, rest, lost')
  BY <1>6
<1>10. m \in Nat /\ m_chunk' \in [0 .. n - 1 -> Chunk] /\ lost' \in SUBSET (0 .. n - 1)
  BY <1>1
<1>11. QED
  BY <1>7, <1>8, <1>9, <1>10, SoundNext

LEMMA AddSound ==
    ASSUME Sound, NEW v \in Value, Add(v)
    PROVE  Sound'
<1>1. PICK n \in Nat :
          /\ Shape(n)
          /\ \A c \in 0 .. n - 1, s \in Slots :
                 m_chunk[c].elem[s] \in Value <=> s \in m_chunk[c].taken
          /\ \A c \in lost : m_chunk[c].taken # Slots
          /\ \E len \in Nat : \E list \in [1 .. len -> 0 .. n - 1] :
                 Chain(n, m_chunk, m_free_chunk, len, list, lost)
  BY SoundShape
<1>2. PICK len \in Nat : \E list \in [1 .. len -> 0 .. n - 1] :
          Chain(n, m_chunk, m_free_chunk, len, list, lost)
  BY <1>1
<1>3. PICK list \in [1 .. len -> 0 .. n - 1] :
          Chain(n, m_chunk, m_free_chunk, len, list, lost)
  BY <1>2
<1>4. m_size' \in Nat /\ lost' = lost
  BY <1>1 DEF Add, Shape
<1>5. CASE m_free_chunk # NoIndex /\ Fill(m_chunk, m_free_chunk, v)
  <2>1. n \in 0 .. MaxChunks /\ m_free_chunk \in 0 .. n - 1 /\ lost \in SUBSET (0 .. n - 1)
    BY <1>1, <1>5 DEF Shape
  <2>2. m_chunk \in [0 .. n - 1 -> Chunk]
    BY <1>1 DEF Shape
  <2>3. QED
    BY <1>1, <1>3, <1>4, <1>5, <2>1, <2>2, FillSound
<1>6. ASSUME m_free_chunk = NoIndex, NEW k \in 0 .. MaxChunks - 1, Chunks = 0 .. k - 1,
             Fill([c \in 0 .. k |-> IF c = k THEN NewChunk ELSE m_chunk[c]], k, v)
      PROVE  Sound'
  <2> DEFINE chunks == [c \in 0 .. k |-> IF c = k THEN NewChunk ELSE m_chunk[c]]
             single == [i \in 1 .. 1 |-> k]
  <2>1. k = n
    <3>1. 0 .. k - 1 = 0 .. n - 1 /\ k \in Nat
      BY <1>1, <1>6, SizeAssumption DEF Shape
    <3>2. CASE k < n
      <4>1. k \in 0 .. n - 1 /\ k \notin 0 .. k - 1
        BY <3>1, <3>2
      <4>2. QED
        BY <3>1, <4>1
    <3>3. CASE n < k
      <4>1. n \in 0 .. k - 1 /\ n \notin 0 .. n - 1
        BY <3>1, <3>3
      <4>2. QED
        BY <3>1, <4>1
    <3>4. QED
      BY <3>1, <3>2, <3>3
  <2>2. /\ k + 1 \in 0 .. MaxChunks
        /\ k \in 0 .. (k + 1) - 1
        /\ 0 .. (k + 1) - 1 = 0 .. k
    BY SizeAssumption
  <2>3. \A c \in 0 .. k - 1 : c # k /\ c \in 0 .. k /\ m_chunk[c] \in Chunk
    BY <1>1, <2>1 DEF Shape
  <2>4. \A c \in 0 .. k : c # k => c \in 0 .. k - 1
    BY SizeAssumption
  <2>5. chunks \in [0 .. k -> Chunk]
    BY <2>3, <2>4, NewChunkType
  <2>6. chunks[k] = NewChunk /\ \A c \in 0 .. k - 1 : chunks[c] = m_chunk[c]
    BY <2>2, <2>3
  <2>7. single \in [1 .. 1 -> 0 .. k] /\ single[1] = k
    BY <2>2
  <2>8. \A c \in 0 .. k, s \in Slots : chunks[c].elem[s] \in Value <=> s \in chunks[c].taken
    <3>1. \A s \in Slots : NewChunk.elem[s] = Nothing /\ s \notin NewChunk.taken
      BY NewChunkType
    <3>2. QED
      BY <1>1, <2>1, <2>4, <2>6, <3>1, ValueAssumption
  <2>9. lost \in SUBSET (0 .. k) /\ k \notin lost /\ \A c \in lost : chunks[c].taken # Slots
    BY <1>1, <2>1, <2>3, <2>6 DEF Shape
  <2>10. Chain(k + 1, chunks, k, 1, single, lost)
    <3>1. len = 0
      <4>1. CASE len # 0
        <5>1. 1 \in 1 .. len /\ list[1] = NoIndex
          BY <1>3, <1>6, <4>1 DEF Chain
        <5>2. QED
          BY <5>1 DEF NoIndex
      <4>2. QED
        BY <4>1
    <3>2. \A c \in 0 .. k - 1 : ~(m_chunk[c].taken # Slots /\ c \notin lost)
      <4>1. 1 .. len = {}
        BY <3>1
      <4>2. QED
        BY <1>3, <2>1, <4>1 DEF Chain
    <3>3. 0 \in Slots
      BY SizeAssumption DEF Slots
    <3>4. chunks[k].taken # Slots /\ chunks[k].next_free = NoIndex
      BY <2>6, <3>3, NewChunkType
    <3> HIDE DEF chunks, single
    <3>5. \A c \in 0 .. k : (\E i \in 1 .. 1 : single[i] = c) <=> chunks[c].taken # Slots /\ c \notin lost
      BY <2>4, <2>6, <2>7, <2>9, <3>2, <3>4
    <3>6. \A i \in 1 .. 1 : i = 1
      OBVIOUS
    <3>7. QED
      BY <2>2, <2>7, <3>4, <3>5, <3>6 DEF Chain
  <2> HIDE DEF chunks, single
  <2>11. QED
    <3>1. Fill(chunks, k, v)
      BY <1>6 DEF chunks
    <3>2. QED
      BY <1>4, <2>2, <2>5, <2>7, <2>8, <2>9, <2>10, <3>1, FillSound
<1>7. QED
  BY <1>5, <1>6 DEF Add
\* An element is removed. A chunk that was full is put on the list or is lost.
LEMMA VacateSound ==
    ASSUME Sound, NEW c \in Chunks, NEW s \in m_chunk[c].taken, NEW relink \in BOOLEAN,
           Vacate(c, s, relink), relink => Full(c),
           lost' = IF Full(c) /\ ~relink THEN lost \cup {c} ELSE lost
    PROVE  Sound'
<1>1. PICK n \in Nat :
          /\ Shape(n)
          /\ \A d \in 0 .. n - 1, r \in Slots :
                 m_chunk[d].elem[r] \in Value <=> r \in m_chunk[d].taken
          /\ \A d \in lost : m_chunk[d].taken # Slots
          /\ \E len \in Nat : \E list \in [1 .. len -> 0 .. n - 1] :
                 Chain(n, m_chunk, m_free_chunk, len, list, lost)
  BY SoundShape
<1>2. PICK len \in Nat : \E list \in [1 .. len -> 0 .. n - 1] :
          Chain(n, m_chunk, m_free_chunk, len, list, lost)
  BY <1>1
<1>3. PICK list \in [1 .. len -> 0 .. n - 1] :
          Chain(n, m_chunk, m_free_chunk, len, list, lost)
  BY <1>2
<1>4. /\ n \in 0 .. MaxChunks
      /\ m_chunk \in [0 .. n - 1 -> Chunk]
      /\ m_free_chunk \in NoIndex .. MaxChunks - 1
      /\ c \in 0 .. n - 1
      /\ lost \in SUBSET (0 .. n - 1)
      /\ m_size' \in Nat
  BY <1>1 DEF Shape, Vacate
<1>5. s \in Slots
  BY <1>4 DEF Chunk
<1> DEFINE next == IF relink THEN m_free_chunk ELSE m_chunk[c].next_free
<1>6. /\ next \in NoIndex .. MaxChunks - 1
      /\ m_chunk[c].tenant[s] < MaxTenant
      /\ m_chunk' \in [0 .. n - 1 -> Chunk]
      /\ \A d \in 0 .. n - 1 : d # c => m_chunk'[d] = m_chunk[d]
      /\ m_chunk'[c] = Released(m_chunk[c], s, next)
  BY <1>4, <1>5, VacateStep
<1>7. m_free_chunk' = IF relink THEN c ELSE m_free_chunk
  BY DEF Vacate
<1>8. /\ m_chunk'[c].taken = m_chunk[c].taken \ {s}
      /\ m_chunk'[c].elem = [m_chunk[c].elem EXCEPT ![s] = Nothing]
      /\ m_chunk'[c].next_free = next
      /\ m_chunk'[c].taken # Slots
  <2> HIDE DEF next
  <2>1. m_chunk[c] \in Chunk
    BY <1>4
  <2>2. /\ Released(m_chunk[c], s, next).taken = m_chunk[c].taken \ {s}
        /\ Released(m_chunk[c], s, next).elem = [m_chunk[c].elem EXCEPT ![s] = Nothing]
        /\ Released(m_chunk[c], s, next).next_free = next
    BY <1>5, <2>1 DEF Released, Chunk
  <2>3. s \notin m_chunk[c].taken \ {s}
    OBVIOUS
  <2>4. QED
    BY <1>5, <1>6, <2>2, <2>3
<1>9. \A d \in 0 .. n - 1, r \in Slots : m_chunk'[d].elem[r] \in Value <=> r \in m_chunk'[d].taken
  <2>1. ASSUME NEW r \in Slots PROVE m_chunk'[c].elem[r] \in Value <=> r \in m_chunk'[c].taken
    <3>1. m_chunk[c].elem \in [Slots -> Value \cup {Nothing}]
      BY <1>4 DEF Chunk
    <3>2. QED
      BY <1>1, <1>4, <1>8, <3>1, ValueAssumption
  <2>2. QED
    BY <1>1, <1>6, <2>1
<1>10. lost' \in SUBSET (0 .. n - 1) /\ \A d \in lost' : m_chunk'[d].taken # Slots
  BY <1>1, <1>4, <1>6, <1>8
<1>11. \E m \in Nat : \E new \in [1 .. m -> 0 .. n - 1] :
           Chain(n, m_chunk', m_free_chunk', m, new, lost')
  <2>1. CASE relink
    <3>1. lost' = lost /\ m_free_chunk' = c /\ next = m_free_chunk
      BY <1>7, <2>1
    <3>2. m_chunk[c].taken = Slots /\ c \notin lost
      BY <1>1, <2>1 DEF Full
    <3>3. m_chunk'[c].next_free = m_free_chunk /\ m_chunk'[c].taken # Slots
      BY <1>8, <3>1
    <3>4. \A d \in 0 .. n - 1 : d # c => m_chunk'[d] = m_chunk[d]
      BY <1>6
    <3> HIDE DEF next
    <3>5. \E m \in Nat : \E new \in [1 .. m -> 0 .. n - 1] : Chain(n, m_chunk', c, m, new, lost)
      BY <1>3, <1>4, <3>2, <3>3, <3>4, RelinkChain
    <3>6. QED
      BY <3>1, <3>5
  <2>2. CASE ~relink
    <3>1. m_free_chunk' = m_free_chunk /\ m_chunk'[c].next_free = m_chunk[c].next_free
      BY <1>7, <1>8, <2>2
    <3>2. \A d \in 0 .. n - 1 : (m_chunk'[d].taken # Slots /\ d \notin lost')
                                <=> (m_chunk[d].taken # Slots /\ d \notin lost)
      BY <1>6, <1>8, <2>2 DEF Full
    <3>3. Chain(n, m_chunk', m_free_chunk', len, list, lost')
      <4>1. \A d \in 0 .. n - 1 : (\E i \in 1 .. len : list[i] = d) <=> m_chunk'[d].taken # Slots /\ d \notin lost'
        BY <1>3, <3>2 DEF Chain
      <4>2. \A d \in 0 .. n - 1 : m_chunk'[d].next_free = m_chunk[d].next_free
        BY <1>6, <3>1
      <4>3. \A i \in 1 .. len : m_chunk'[list[i]].next_free = IF i = len THEN NoIndex ELSE list[i + 1]
        BY <1>3, <4>2 DEF Chain
      <4>4. QED
        BY <1>3, <3>1, <4>1, <4>3 DEF Chain
    <3>4. QED
      BY <3>3
  <2>3. QED
    BY <2>1, <2>2
<1>12. PICK m \in Nat : \E new \in [1 .. m -> 0 .. n - 1] :
           Chain(n, m_chunk', m_free_chunk', m, new, lost')
  BY <1>11
<1>13. QED
  BY <1>4, <1>6, <1>9, <1>10, <1>12, SoundNext

LEMMA EmptySound ==
    ASSUME m_chunk' = [c \in {} |-> NewChunk], m_size' = 0, m_free_chunk' = NoIndex, lost' = {}
    PROVE  Sound'
<1> DEFINE list == [i \in 1 .. 0 |-> 0]
<1>1. 0 .. 0 - 1 = {} /\ 1 .. 0 = {} /\ 0 \in 0 .. MaxChunks /\ 0 \in Nat
  BY SizeAssumption
<1>2. m_chunk' \in [0 .. 0 - 1 -> Chunk] /\ list \in [1 .. 0 -> 0 .. 0 - 1]
  BY <1>1
<1>3. Chain(0, m_chunk', m_free_chunk', 0, list, lost')
  BY <1>1 DEF Chain
<1> HIDE DEF list
<1>4. QED
  BY <1>1, <1>2, <1>3, SoundNext
\* A step of the container preserves the invariant.
LEMMA SoundStep == Sound /\ [Next]_vars => Sound'
<1> SUFFICES ASSUME Sound, [Next]_vars PROVE Sound'
  OBVIOUS
<1>1. ASSUME NEW v \in Value, Add(v) PROVE Sound'
  BY <1>1, AddSound
<1>2. ASSUME NEW h \in Handle, Remove(h) PROVE Sound'
  <2> DEFINE c == h[1][1]
             s == h[1][2]
  <2>1. c \in Chunks /\ s \in m_chunk[c].taken /\ lost' = lost /\ Vacate(c, s, Full(c))
    BY <1>2 DEF Remove
  <2> HIDE DEF c, s
  <2>2. CASE Full(c)
    <3>1. Vacate(c, s, TRUE)
      BY <2>1, <2>2 DEF Vacate
    <3>2. QED
      BY <2>1, <2>2, <3>1, VacateSound
  <2>3. CASE ~Full(c)
    <3>1. Vacate(c, s, FALSE)
      BY <2>1, <2>3 DEF Vacate
    <3>2. QED
      BY <2>1, <2>3, <3>1, VacateSound
  <2>4. QED
    BY <2>2, <2>3
<1>3. ASSUME NEW p \in Position, RemoveAt(p) PROVE Sound'
  <2> DEFINE c == p[1]
             s == p[2]
  <2>1. /\ c \in Chunks /\ s \in m_chunk[c].taken
        /\ lost' = IF Full(c) THEN lost \cup {c} ELSE lost
        /\ Vacate(c, s, m_chunk[c].taken = {})
    BY <1>3 DEF RemoveAt
  <2> HIDE DEF c, s
  <2>2. Vacate(c, s, FALSE)
    BY <2>1 DEF Vacate
  <2>3. QED
    BY <2>1, <2>2, VacateSound
<1>4. CASE Clear
  BY <1>4, EmptySound DEF Clear
<1>5. CASE UNCHANGED vars
  <2>1. m_chunk' = m_chunk /\ m_size' = m_size /\ m_free_chunk' = m_free_chunk /\ lost' = lost
    BY <1>5 DEF vars
  <2>2. TypeOK'
    BY <2>1 DEF Sound, TypeOK, Chunks
  <2>3. ElementsExact' /\ LostHasRoom'
    BY <2>1 DEF Sound, ElementsExact, LostHasRoom, Full, Chunks
  <2>4. Chunks' = Chunks
    BY <2>1 DEF Chunks
  <2>5. \A n, list : IsFreeList(n, list, lost) => IsFreeList(n, list, lost)'
    BY <2>1, <2>4 DEF IsFreeList, Full
  <2>6. FreeListExact'
    BY <2>4, <2>5 DEF Sound, FreeListExact, FreeList
  <2>7. QED
    BY <2>2, <2>3, <2>6 DEF Sound
<1>6. QED
  BY <1>1, <1>2, <1>3, <1>4, <1>5 DEF Next

LEMMA SoundInit == Init => Sound
<1> SUFFICES ASSUME Init PROVE Sound
  OBVIOUS
<1> DEFINE list == [i \in 1 .. 0 |-> 0]
<1>1. 0 .. 0 - 1 = {} /\ 1 .. 0 = {} /\ 0 \in 0 .. MaxChunks /\ 0 \in Nat
  BY SizeAssumption
<1>2. Chunks = {} /\ m_chunk \in [0 .. 0 - 1 -> Chunk]
  BY <1>1 DEF Init, Chunks
<1>3. TypeOK
  BY <1>1, <1>2 DEF Init, TypeOK
<1>4. list \in [1 .. 0 -> Chunks] /\ IsFreeList(0, list, lost)
  BY <1>1, <1>2 DEF Init, IsFreeList
<1> HIDE DEF list
<1>5. FreeListExact
  BY <1>1, <1>4 DEF FreeListExact, FreeList
<1>6. QED
  BY <1>2, <1>3, <1>5 DEF Init, Sound, ElementsExact, LostHasRoom

\* The types of the container: every chunk has its bitmap, generations, elements
\* and link, and m_free_chunk is one of the chunks or none.
THEOREM TypeCorrect == Spec => []TypeOK
<1>1. Sound => TypeOK
  BY DEF Sound
<1>2. QED
  BY <1>1, SoundInit, SoundStep, PTL DEF Spec

\* The links through the chunks lead through exactly those with free slots, in
\* some order and without repetition, except where remove(Index) lost one.
THEOREM ListCorrect == Spec => []FreeListExact
<1>1. Sound => FreeListExact
  BY DEF Sound
<1>2. QED
  BY <1>1, SoundInit, SoundStep, PTL DEF Spec

\* Elements are constructed and destroyed exactly where the bitmaps say so: no
\* element leaks, and none is destroyed twice.
THEOREM ElementsCorrect == Spec => []ElementsExact
<1>1. Sound => ElementsExact
  BY DEF Sound
<1>2. QED
  BY <1>1, SoundInit, SoundStep, PTL DEF Spec
----------------------------------------------------------------------------
\* The container implements WeakMap

\* What generation t of slot s stands for, in one chunk
StatusIn(chunk, s, t) ==
    IF s \in chunk.taken /\ chunk.tenant[s] = t THEN chunk.elem[s]
    ELSE IF t < chunk.tenant[s] THEN "gone"
    ELSE "unused"

StatusAt(chunks, c, s, t) ==
    IF c \in DOMAIN chunks THEN StatusIn(chunks[c], s, t) ELSE "unused"

AtHandle(chunks) == [h \in Handle |-> StatusAt(chunks, h[1][1], h[1][2], h[2])]

LEMMA StatusIs == Sound => Held = AtHandle(m_chunk)
<1> SUFFICES ASSUME Sound, NEW h \in Handle
             PROVE  Status(h) = StatusAt(m_chunk, h[1][1], h[1][2], h[2])
  BY DEF AtHandle, Held
<1> DEFINE c == h[1][1]
           s == h[1][2]
<1>1. s \in Slots /\ h[2] \in 0 .. MaxTenant
  BY DEF Handle, Position
<1>2. CASE c \in Chunks /\ s \in m_chunk[c].taken /\ m_chunk[c].tenant[s] = h[2]
  <2>1. m_chunk[c].elem[s] \in Value
    BY <1>1, <1>2 DEF Sound, ElementsExact
  <2>2. Get(h) = m_chunk[c].elem[s] /\ Get(h) # Nothing
    BY <1>2, <2>1, ValueAssumption DEF Get
  <2>3. QED
    BY <1>2, <2>2 DEF Status, StatusAt, StatusIn, Chunks
<1>3. CASE ~(c \in Chunks /\ s \in m_chunk[c].taken /\ m_chunk[c].tenant[s] = h[2])
  <2>1. Get(h) = Nothing
    BY <1>3 DEF Get
  <2>2. QED
    BY <1>3, <2>1 DEF Status, StatusAt, StatusIn, Chunks
<1>4. QED
  BY <1>2, <1>3

LEMMA StatusNext == Sound' => Held' = AtHandle(m_chunk')
<1>1. (Sound => Held = AtHandle(m_chunk))'
  BY StatusIs, PTL
<1>2. AtHandle(m_chunk)' = AtHandle(m_chunk')
  BY DEF AtHandle
<1>3. QED
  BY <1>1, <1>2

\* A handle is its three numbers.
LEMMA HandleParts ==
    ASSUME NEW c \in 0 .. MaxChunks - 1, NEW s \in Slots, NEW t \in 0 .. MaxTenant
    PROVE  /\ <<<<c, s>>, t>> \in Handle
           /\ \A h \in Handle : h[1][1] = c /\ h[1][2] = s /\ h[2] = t => h = <<<<c, s>>, t>>
           /\ \A h \in Handle : /\ h[1][1] \in 0 .. MaxChunks - 1
                                /\ h[1][2] \in Slots
                                /\ h[2] \in 0 .. MaxTenant
BY DEF Handle, Position

\* An element is added: one handle, unused before, now stands for it.
LEMMA OccupiedStatus ==
    ASSUME NEW chunk \in Chunk, NEW s \in Slots \ chunk.taken, NEW v \in Value,
           NEW r \in Slots, NEW t \in 0 .. MaxTenant
    PROVE  StatusIn(Occupied(chunk, s, v), r, t) =
               IF r = s /\ t = chunk.tenant[s] THEN v ELSE StatusIn(chunk, r, t)
<1>1. /\ Occupied(chunk, s, v).taken = chunk.taken \cup {s}
      /\ Occupied(chunk, s, v).tenant = chunk.tenant
      /\ Occupied(chunk, s, v).elem = [chunk.elem EXCEPT ![s] = v]
  BY OccupiedChunk
<1>2. chunk.elem \in [Slots -> Value \cup {Nothing}] /\ chunk.tenant[r] \in 0 .. MaxTenant
  BY DEF Chunk
<1>3. QED
  BY <1>1, <1>2 DEF StatusIn

\* An element is removed: its handle is gone, no other changes.
LEMMA ReleasedStatus ==
    ASSUME NEW chunk \in Chunk, NEW s \in chunk.taken, NEW next,
           NEW r \in Slots, NEW t \in 0 .. MaxTenant
    PROVE  StatusIn(Released(chunk, s, next), r, t) =
               IF r = s /\ t = chunk.tenant[s] THEN "gone" ELSE StatusIn(chunk, r, t)
<1>1. /\ Released(chunk, s, next).taken = chunk.taken \ {s}
      /\ Released(chunk, s, next).tenant = [chunk.tenant EXCEPT ![s] = chunk.tenant[s] + 1]
      /\ Released(chunk, s, next).elem = [chunk.elem EXCEPT ![s] = Nothing]
  BY DEF Released, Chunk
<1>2. /\ chunk.elem \in [Slots -> Value \cup {Nothing}]
      /\ chunk.tenant \in [Slots -> 0 .. MaxTenant]
      /\ s \in Slots
  BY DEF Chunk
<1>3. chunk.tenant[r] \in 0 .. MaxTenant /\ chunk.tenant[s] \in 0 .. MaxTenant
  BY <1>2
<1>4. CASE r = s
  <2>1. r \notin Released(chunk, s, next).taken /\ Released(chunk, s, next).tenant[r] = chunk.tenant[s] + 1
    BY <1>1, <1>2, <1>4
  <2>2. QED
    BY <1>3, <1>4, <2>1, SizeAssumption DEF StatusIn
<1>5. CASE r # s
  BY <1>1, <1>2, <1>5 DEF StatusIn
<1>6. QED
  BY <1>4, <1>5
\* Chunk c changes, in what generation u of slot s stands for: now x.
OneChange(n, old, new, c, s, u, x) ==
    /\ old \in [0 .. n - 1 -> Chunk]
    /\ new \in [0 .. n - 1 -> Chunk]
    /\ \A d \in 0 .. n - 1 : d # c => new[d] = old[d]
    /\ \A r \in Slots, t \in 0 .. MaxTenant :
           StatusIn(new[c], r, t) = IF r = s /\ t = u THEN x ELSE StatusIn(old[c], r, t)

\* Then a single handle stands for something else.
LEMMA OneHandle ==
    \A n \in 0 .. MaxChunks : \A c \in 0 .. n - 1, s \in Slots, u \in 0 .. MaxTenant : \A old, new, x :
        OneChange(n, old, new, c, s, u, x) =>
            \E g \in Handle : /\ AtHandle(old)[g] = StatusIn(old[c], s, u)
                              /\ AtHandle(new) = [AtHandle(old) EXCEPT ![g] = x]
<1> SUFFICES ASSUME NEW n \in 0 .. MaxChunks, NEW c \in 0 .. n - 1, NEW s \in Slots,
                    NEW u \in 0 .. MaxTenant, NEW old, NEW new, NEW x,
                    OneChange(n, old, new, c, s, u, x)
             PROVE  \E g \in Handle : /\ AtHandle(old)[g] = StatusIn(old[c], s, u)
                                      /\ AtHandle(new) = [AtHandle(old) EXCEPT ![g] = x]
  OBVIOUS
<1> DEFINE g == <<<<c, s>>, u>>
<1>1. c \in 0 .. MaxChunks - 1
  BY SizeAssumption
<1>2. g \in Handle
  BY <1>1, HandleParts
<1>0. /\ old \in [0 .. n - 1 -> Chunk]
      /\ new \in [0 .. n - 1 -> Chunk]
      /\ \A d \in 0 .. n - 1 : d # c => new[d] = old[d]
      /\ \A r \in Slots, t \in 0 .. MaxTenant :
             StatusIn(new[c], r, t) = IF r = s /\ t = u THEN x ELSE StatusIn(old[c], r, t)
  BY DEF OneChange
<1>3. AtHandle(old)[g] = StatusIn(old[c], s, u)
  BY <1>0, <1>2 DEF AtHandle, StatusAt
<1>4. ASSUME NEW h \in Handle
      PROVE  AtHandle(new)[h] = IF h = g THEN x ELSE AtHandle(old)[h]
  <2>1. h[1][2] \in Slots /\ h[2] \in 0 .. MaxTenant
    BY <1>1, HandleParts
  <2>2. /\ AtHandle(new)[h] = StatusAt(new, h[1][1], h[1][2], h[2])
        /\ AtHandle(old)[h] = StatusAt(old, h[1][1], h[1][2], h[2])
    BY DEF AtHandle
  <2>3. CASE h[1][1] # c
    <3>1. StatusAt(new, h[1][1], h[1][2], h[2]) = StatusAt(old, h[1][1], h[1][2], h[2])
      BY <1>0, <2>3 DEF StatusAt
    <3>2. h # g
      BY <2>3
    <3>3. QED
      BY <2>2, <3>1, <3>2
  <2>4. CASE h[1][1] = c
    <3>1. /\ StatusAt(new, h[1][1], h[1][2], h[2]) = StatusIn(new[c], h[1][2], h[2])
          /\ StatusAt(old, h[1][1], h[1][2], h[2]) = StatusIn(old[c], h[1][2], h[2])
      BY <1>0, <2>4 DEF StatusAt
    <3>2. h = g <=> h[1][2] = s /\ h[2] = u
      <4>1. g[1][2] = s /\ g[2] = u
        OBVIOUS
      <4>2. h = <<<<h[1][1], h[1][2]>>, h[2]>>
        BY DEF Handle, Position
      <4>3. QED
        BY <2>4, <4>1, <4>2
    <3>3. QED
      BY <1>0, <2>1, <2>2, <3>1, <3>2
  <2>5. QED
    BY <2>3, <2>4
<1>5. AtHandle(new) = [h \in Handle |-> AtHandle(new)[h]] /\ AtHandle(old) = [h \in Handle |-> AtHandle(old)[h]]
  BY DEF AtHandle
<1> HIDE DEF g
<1>6. AtHandle(new) = [AtHandle(old) EXCEPT ![g] = x]
  BY <1>2, <1>4, <1>5
<1>7. QED
  BY <1>2, <1>3, <1>6

\* An element is added to chunk c of some chunks.
LEMMA FillImplements ==
    ASSUME NEW n \in 0 .. MaxChunks, NEW STATE chunks, chunks \in [0 .. n - 1 -> Chunk],
           NEW STATE c, c \in 0 .. n - 1, NEW v \in Value, Fill(chunks, c, v)
    PROVE  \E h \in Handle : /\ AtHandle(chunks)[h] = "unused"
                             /\ AtHandle(m_chunk') = [AtHandle(chunks) EXCEPT ![h] = v]
<1>1. PICK s \in Slots \ chunks[c].taken : m_chunk' = [chunks EXCEPT ![c] = Occupied(chunks[c], s, v)]
  BY DEF Fill
<1>2. Occupied(chunks[c], s, v) \in Chunk /\ chunks[c] \in Chunk
  BY OccupiedChunk
<1> DEFINE u == chunks[c].tenant[s]
<1>3. u \in 0 .. MaxTenant
  BY <1>2 DEF Chunk
<1>4. /\ m_chunk' \in [0 .. n - 1 -> Chunk]
      /\ m_chunk'[c] = Occupied(chunks[c], s, v)
      /\ \A d \in 0 .. n - 1 : d # c => m_chunk'[d] = chunks[d]
  BY <1>1, <1>2
<1>5. \A r \in Slots, t \in 0 .. MaxTenant :
          StatusIn(m_chunk'[c], r, t) = IF r = s /\ t = u THEN v ELSE StatusIn(chunks[c], r, t)
  BY <1>2, <1>4, OccupiedStatus
<1>6. StatusIn(chunks[c], s, u) = "unused"
  BY <1>3 DEF StatusIn
<1> HIDE DEF u
<1>7. \E g \in Handle : /\ AtHandle(chunks)[g] = StatusIn(chunks[c], s, u)
                        /\ AtHandle(m_chunk') = [AtHandle(chunks) EXCEPT ![g] = v]
  <2>1. OneChange(n, chunks, m_chunk', c, s, u, v)
    BY <1>4, <1>5 DEF OneChange
  <2>2. s \in Slots
    OBVIOUS
  <2>3. QED
    BY <1>3, <2>1, <2>2, OneHandle
<1>8. QED
  BY <1>6, <1>7

\* A new chunk changes nothing.
LEMMA NewChunkStatus ==
    ASSUME NEW k \in 0 .. MaxChunks - 1, NEW chunks \in [0 .. k - 1 -> Chunk]
    PROVE  AtHandle([c \in 0 .. k |-> IF c = k THEN NewChunk ELSE chunks[c]]) = AtHandle(chunks)
<1> DEFINE grown == [c \in 0 .. k |-> IF c = k THEN NewChunk ELSE chunks[c]]
<1>1. ASSUME NEW c, NEW s \in Slots, NEW t \in 0 .. MaxTenant
      PROVE  StatusAt(grown, c, s, t) = StatusAt(chunks, c, s, t)
  <2>1. k \in 0 .. k /\ k \notin 0 .. k - 1 /\ (c \in 0 .. k /\ c # k <=> c \in 0 .. k - 1)
    BY SizeAssumption
  <2>2. CASE c = k
    <3>1. NewChunk.taken = {} /\ NewChunk.tenant[s] = 0
      BY NewChunkType
    <3>2. StatusIn(NewChunk, s, t) = "unused"
      BY <3>1 DEF StatusIn
    <3>3. QED
      BY <2>1, <2>2, <3>2 DEF StatusAt
  <2>3. CASE c # k
    BY <2>1, <2>3 DEF StatusAt
  <2>4. QED
    BY <2>2, <2>3
<1> HIDE DEF grown
<1>2. \A h \in Handle : h[1][2] \in Slots /\ h[2] \in 0 .. MaxTenant
  BY DEF Handle, Position
<1>3. AtHandle(grown) = AtHandle(chunks)
  BY <1>1, <1>2 DEF AtHandle
<1>4. QED
  BY <1>3 DEF grown

LEMMA VacateImplements ==
    ASSUME NEW n \in 0 .. MaxChunks, m_chunk \in [0 .. n - 1 -> Chunk],
           m_free_chunk \in NoIndex .. MaxChunks - 1,
           NEW c \in 0 .. n - 1, NEW s \in m_chunk[c].taken, NEW relink \in BOOLEAN,
           m_chunk[c].elem[s] \in Value,
           Vacate(c, s, relink)
    PROVE  \E h \in Handle : /\ AtHandle(m_chunk)[h] \in Value
                             /\ AtHandle(m_chunk') = [AtHandle(m_chunk) EXCEPT ![h] = "gone"]
<1> DEFINE next == IF relink THEN m_free_chunk ELSE m_chunk[c].next_free
           u == m_chunk[c].tenant[s]
<1>1. m_chunk[c] \in Chunk /\ s \in Slots
  BY DEF Chunk
<1>2. u \in 0 .. MaxTenant
  BY <1>1 DEF Chunk
<1>3. /\ m_chunk' \in [0 .. n - 1 -> Chunk]
      /\ \A d \in 0 .. n - 1 : d # c => m_chunk'[d] = m_chunk[d]
      /\ m_chunk'[c] = Released(m_chunk[c], s, next)
  BY <1>1, VacateStep
<1> HIDE DEF next
<1>4. \A r \in Slots, t \in 0 .. MaxTenant :
          StatusIn(m_chunk'[c], r, t) = IF r = s /\ t = u THEN "gone" ELSE StatusIn(m_chunk[c], r, t)
  BY <1>1, <1>3, ReleasedStatus
<1>5. StatusIn(m_chunk[c], s, u) \in Value
  BY DEF StatusIn
<1> HIDE DEF u
<1>6. \E g \in Handle : /\ AtHandle(m_chunk)[g] = StatusIn(m_chunk[c], s, u)
                        /\ AtHandle(m_chunk') = [AtHandle(m_chunk) EXCEPT ![g] = "gone"]
  <2>1. OneChange(n, m_chunk, m_chunk', c, s, u, "gone")
    BY <1>3, <1>4 DEF OneChange
  <2>2. QED
    BY <1>1, <1>2, <2>1, OneHandle
<1>7. QED
  BY <1>5, <1>6
LEMMA InitImplements == Init => Contents!Init
<1> SUFFICES ASSUME Init PROVE Held = [h \in Handle |-> "unused"]
  BY DEF Contents!Init
<1>1. Chunks = {}
  BY DEF Init, Chunks
<1>2. \A h \in Handle : Get(h) = Nothing
  BY <1>1 DEF Get
<1>3. QED
  BY <1>1, <1>2 DEF Status, Held

LEMMA StepImplements == Sound /\ Sound' /\ [Next]_vars => [Contents!Next]_Held
<1> SUFFICES ASSUME Sound, Sound', [Next]_vars
             PROVE  Contents!Next \/ Held' = Held
  OBVIOUS
<1>1. Held = AtHandle(m_chunk) /\ Held' = AtHandle(m_chunk')
  BY StatusIs, StatusNext
<1>2. PICK n \in Nat :
          /\ Shape(n)
          /\ \A c \in 0 .. n - 1, s \in Slots :
                 m_chunk[c].elem[s] \in Value <=> s \in m_chunk[c].taken
  BY SoundShape
<1>3. /\ n \in 0 .. MaxChunks
      /\ m_chunk \in [0 .. n - 1 -> Chunk]
      /\ m_free_chunk \in NoIndex .. MaxChunks - 1
      /\ Chunks = 0 .. n - 1
  BY <1>2 DEF Shape
<1>4. ASSUME NEW v \in Value, Add(v) PROVE Contents!Next
  <2>1. SUFFICES \E h \in Handle : Held[h] = "unused" /\ Held' = [Held EXCEPT ![h] = v]
    BY DEF Contents!Next, Contents!Add
  <2>2. CASE m_free_chunk # NoIndex /\ Fill(m_chunk, m_free_chunk, v)
    <3>1. m_free_chunk \in 0 .. n - 1
      BY <1>2, <1>3, <2>2 DEF Shape
    <3>2. \E h \in Handle : /\ AtHandle(m_chunk)[h] = "unused"
                            /\ AtHandle(m_chunk') = [AtHandle(m_chunk) EXCEPT ![h] = v]
      BY <1>3, <2>2, <3>1, FillImplements
    <3>3. QED
      BY <1>1, <3>2
  <2>3. ASSUME NEW k \in 0 .. MaxChunks - 1, Chunks = 0 .. k - 1,
               Fill([c \in 0 .. k |-> IF c = k THEN NewChunk ELSE m_chunk[c]], k, v)
        PROVE  \E h \in Handle : Held[h] = "unused" /\ Held' = [Held EXCEPT ![h] = v]
    <3> DEFINE chunks == [c \in 0 .. k |-> IF c = k THEN NewChunk ELSE m_chunk[c]]
    <3>1. m_chunk \in [0 .. k - 1 -> Chunk]
      BY <1>3, <2>3
    <3>2. AtHandle(chunks) = AtHandle(m_chunk)
      BY <3>1, NewChunkStatus
    <3>3. PICK m \in 0 .. MaxChunks : k \in 0 .. m - 1 /\ 0 .. m - 1 = 0 .. k
      <4>1. k + 1 \in 0 .. MaxChunks /\ k \in 0 .. (k + 1) - 1 /\ 0 .. (k + 1) - 1 = 0 .. k
        BY SizeAssumption
      <4>2. QED
        BY <4>1
    <3>4. \A c \in 0 .. k : c # k => c \in 0 .. k - 1
      BY SizeAssumption
    <3>5. chunks \in [0 .. m - 1 -> Chunk]
      BY <3>1, <3>3, <3>4, NewChunkType
    <3>6. Fill(chunks, k, v)
      BY <2>3
    <3> HIDE DEF chunks
    <3>7. \E h \in Handle : /\ AtHandle(chunks)[h] = "unused"
                            /\ AtHandle(m_chunk') = [AtHandle(chunks) EXCEPT ![h] = v]
      BY <3>3, <3>5, <3>6, FillImplements
    <3>8. QED
      BY <1>1, <3>2, <3>7
  <2>4. QED
    BY <1>4, <2>2, <2>3 DEF Add
<1>5. ASSUME NEW c \in Chunks, NEW s \in m_chunk[c].taken, NEW relink \in BOOLEAN, Vacate(c, s, relink)
      PROVE  Contents!Next
  <2>1. c \in 0 .. n - 1 /\ s \in Slots
    BY <1>3 DEF Chunk
  <2>2. m_chunk[c].elem[s] \in Value
    BY <1>2, <2>1
  <2>3. \E h \in Handle : /\ AtHandle(m_chunk)[h] \in Value
                          /\ AtHandle(m_chunk') = [AtHandle(m_chunk) EXCEPT ![h] = "gone"]
    BY <1>3, <1>5, <2>1, <2>2, VacateImplements
  <2>4. \E h \in Handle : Held[h] \in Value /\ Held' = [Held EXCEPT ![h] = "gone"]
    BY <1>1, <2>3
  <2>5. QED
    BY <2>4 DEF Contents!Next, Contents!Remove
<1>6. ASSUME NEW h \in Handle, Remove(h) PROVE Contents!Next
  <2> DEFINE c == h[1][1]
             s == h[1][2]
  <2>1. c \in Chunks /\ s \in m_chunk[c].taken /\ Vacate(c, s, Full(c))
    BY <1>6 DEF Remove
  <2> HIDE DEF c, s
  <2>2. Vacate(c, s, TRUE) \/ Vacate(c, s, FALSE)
    BY <2>1 DEF Vacate
  <2>3. QED
    BY <1>5, <2>1, <2>2
<1>7. ASSUME NEW p \in Position, RemoveAt(p) PROVE Contents!Next
  <2> DEFINE c == p[1]
             s == p[2]
  <2>1. c \in Chunks /\ s \in m_chunk[c].taken /\ Vacate(c, s, m_chunk[c].taken = {})
    BY <1>7 DEF RemoveAt
  <2> HIDE DEF c, s
  <2>2. Vacate(c, s, FALSE)
    BY <2>1 DEF Vacate
  <2>3. QED
    BY <1>5, <2>1, <2>2
<1>8. CASE Clear
  <2>1. DOMAIN m_chunk' = {}
    BY <1>8 DEF Clear
  <2>2. Held' = [h \in Handle |-> "unused"]
    BY <1>1, <2>1 DEF AtHandle, StatusAt
  <2>3. QED
    BY <2>2 DEF Contents!Next, Contents!Clear
<1>9. CASE UNCHANGED vars
  <2>1. m_chunk' = m_chunk
    BY <1>9 DEF vars
  <2>2. QED
    BY <1>1, <2>1
<1>10. QED
  BY <1>4, <1>6, <1>7, <1>8, <1>9 DEF Next

\* Whatever is added, removed in either way and cleared, in whatever order, a
\* handle finds the element it was given out for until this one is removed, and
\* nothing afterwards; no handle is given out twice.
THEOREM Implements == Spec => WeakMapSpec
<1>1. Spec => []Sound
  BY SoundInit, SoundStep, PTL DEF Spec
<1>2. QED
  BY <1>1, InitImplements, StepImplements, PTL DEF Spec, WeakMapSpec, Contents!Spec

----------------------------------------------------------------------------
\* Iteration

LEMMA LeastOf ==
    ASSUME NEW S \in SUBSET Nat, S # {}
    PROVE  \E m \in S : \A k \in S : m <= k
<1> DEFINE R == OpToRel(<, Nat)
<1>1. IsWellFoundedOn(R, Nat)
  BY NatLessThanWellFounded
<1>2. \A x, y \in Nat : <<y, x>> \in R <=> y < x
  BY DEF OpToRel
<1> HIDE DEF R
<1>3. PICK x \in S : \A y \in S : <<y, x>> \notin R
  BY <1>1, WFMin
<1>4. ASSUME NEW k \in S PROVE x <= k
  <2>1. ~(k < x)
    BY <1>2, <1>3
  <2>2. QED
    BY <2>1
<1>5. QED
  BY <1>4

\* The positions where JumpToNext may look
Places == (0 .. MaxChunks) \X Slots

NotBefore(q, p) == p[1] < q[1] \/ (p[1] = q[1] /\ p[2] <= q[2])

LEMMA PositionParts ==
    /\ \A p \in Places : /\ p[1] \in 0 .. MaxChunks /\ p[2] \in Slots /\ p[1] \in Nat /\ p[2] \in Nat
                         /\ p = <<p[1], p[2]>>
    /\ \A c \in 0 .. MaxChunks, s \in Slots : <<c, s>> \in Places /\ <<c, s>>[1] = c /\ <<c, s>>[2] = s
    /\ Position \subseteq Places
BY SizeAssumption DEF Places, Position, Slots

LEMMA FirstOf ==
    ASSUME NEW S \in SUBSET Places, S # {}
    PROVE  \E p \in S : \A q \in S : NotBefore(q, p)
<1> DEFINE C == {p[1] : p \in S}
<1>1. PICK c \in C : \A d \in C : c <= d
  <2>1. C \in SUBSET Nat /\ C # {}
    BY PositionParts
  <2>2. QED
    BY <2>1, LeastOf
<1> DEFINE R == {p[2] : p \in {q \in S : q[1] = c}}
<1>2. PICK s \in R : \A r \in R : s <= r
  <2>1. R \in SUBSET Nat /\ R # {}
    BY PositionParts
  <2>2. QED
    BY <2>1, LeastOf
<1>3. PICK p \in S : p[1] = c /\ p[2] = s
  BY <1>2
<1>4. ASSUME NEW q \in S PROVE NotBefore(q, p)
  <2>1. q[1] \in Nat /\ q[2] \in Nat /\ c \in Nat /\ s \in Nat
    BY <1>3, PositionParts
  <2>2. c <= q[1]
    BY <1>1
  <2>3. q[1] = c => s <= q[2]
    BY <1>2
  <2>4. QED
    BY <1>3, <2>1, <2>2, <2>3 DEF NotBefore
<1>5. QED
  BY <1>4

LEMMA LastOf ==
    ASSUME NEW S \in SUBSET Places, S # {}
    PROVE  \E p \in S : \A q \in S : NotBefore(p, q)
<1> DEFINE C == {MaxChunks - p[1] : p \in S}
<1>size. MaxChunks \in Nat /\ ChunkSize \in Nat /\ \A s \in Slots : ChunkSize - s \in Nat
  BY SizeAssumption DEF Slots
<1>1. PICK c \in C : \A d \in C : c <= d
  <2>1. C \in SUBSET Nat /\ C # {}
    BY <1>size, PositionParts
  <2>2. QED
    BY <2>1, LeastOf
<1> DEFINE R == {ChunkSize - p[2] : p \in {q \in S : MaxChunks - q[1] = c}}
<1>2. PICK s \in R : \A r \in R : s <= r
  <2>1. R \in SUBSET Nat /\ R # {}
    BY <1>size, PositionParts
  <2>2. QED
    BY <2>1, LeastOf
<1>3. PICK p \in S : MaxChunks - p[1] = c /\ ChunkSize - p[2] = s
  BY <1>2
<1>4. ASSUME NEW q \in S PROVE NotBefore(p, q)
  <2>1. q[1] \in Nat /\ q[2] \in Nat /\ p[1] \in Nat /\ p[2] \in Nat
    BY <1>3, PositionParts
  <2>2. c <= MaxChunks - q[1]
    BY <1>1
  <2>3. MaxChunks - q[1] = c => s <= ChunkSize - q[2]
    BY <1>2
  <2>4. QED
    BY <1>3, <1>size, <2>1, <2>2, <2>3 DEF NotBefore
<1>5. QED
  BY <1>4

\* The elements which are not before p, and the first of them
From(p) == {e \in Elements : NotBefore(e, p)}

FirstFrom(p) ==
    IF From(p) = {} THEN End ELSE CHOOSE e \in From(p) : \A q \in From(p) : NotBefore(q, e)

LEMMA FirstFromFacts ==
    ASSUME NEW p
    PROVE  /\ From(p) = {} => FirstFrom(p) = End
           /\ From(p) # {} => /\ FirstFrom(p) \in From(p)
                              /\ \A q \in From(p) : NotBefore(q, FirstFrom(p))
<1>1. From(p) \subseteq Places
  BY PositionParts DEF From, Elements
<1>2. From(p) # {} => \E e \in From(p) : \A q \in From(p) : NotBefore(q, e)
  BY <1>1, FirstOf
<1>3. QED
  BY <1>2 DEF FirstFrom

LEMMA FollowingPosition ==
    ASSUME NEW p \in Places, p[1] # MaxChunks
    PROVE  /\ Following(p) \in Places
           /\ NotBefore(Following(p), p) /\ ~NotBefore(p, Following(p))
           /\ \A q \in Places : NotBefore(q, p) <=> q = p \/ NotBefore(q, Following(p))
<1>1. p[1] \in 0 .. MaxChunks - 1 /\ p[2] \in 0 .. ChunkSize - 1 /\ MaxChunks \in Nat /\ ChunkSize \in Nat
  BY PositionParts, SizeAssumption DEF Slots
<1> DEFINE f == Following(p)
<1>2. CASE p[2] + 1 = ChunkSize
  <2>1. f = <<p[1] + 1, 0>> /\ p[1] + 1 \in 0 .. MaxChunks /\ 0 \in Slots
    BY <1>1, <1>2 DEF Following, Slots
  <2>2. f \in Places /\ f[1] = p[1] + 1 /\ f[2] = 0
    BY <2>1, PositionParts
  <2> HIDE DEF f
  <2>3. ASSUME NEW q \in Places PROVE NotBefore(q, p) <=> q = p \/ NotBefore(q, f)
    <3>1. q[1] \in Nat /\ q[2] \in 0 .. ChunkSize - 1 /\ (q = p <=> q[1] = p[1] /\ q[2] = p[2])
      BY PositionParts DEF Slots
    <3>2. QED
      BY <1>1, <1>2, <2>2, <3>1 DEF NotBefore
  <2>4. NotBefore(f, p) /\ ~NotBefore(p, f)
    BY <1>1, <2>2 DEF NotBefore
  <2>5. QED
    BY <2>2, <2>3, <2>4 DEF f
<1>3. CASE p[2] + 1 # ChunkSize
  <2>1. f = <<p[1], p[2] + 1>> /\ p[1] \in 0 .. MaxChunks /\ p[2] + 1 \in Slots
    BY <1>1, <1>3 DEF Following, Slots
  <2>2. f \in Places /\ f[1] = p[1] /\ f[2] = p[2] + 1
    BY <2>1, PositionParts
  <2> HIDE DEF f
  <2>3. ASSUME NEW q \in Places PROVE NotBefore(q, p) <=> q = p \/ NotBefore(q, f)
    <3>1. q[1] \in Nat /\ q[2] \in 0 .. ChunkSize - 1 /\ (q = p <=> q[1] = p[1] /\ q[2] = p[2])
      BY PositionParts DEF Slots
    <3>2. QED
      BY <1>1, <2>2, <3>1 DEF NotBefore
  <2>4. NotBefore(f, p) /\ ~NotBefore(p, f)
    BY <1>1, <2>2 DEF NotBefore
  <2>5. QED
    BY <2>2, <2>3, <2>4 DEF f
<1>4. QED
  BY <1>2, <1>3

\* What one step of the search looks at
Looked(f, p) ==
    IF p[1] \notin Chunks THEN End
    ELSE IF p[2] \in m_chunk[p[1]].taken THEN p
    ELSE f[Following(p)]

ChunksCounted == \E n \in 0 .. MaxChunks : Chunks = 0 .. n - 1

LEMMA LookedFirst ==
    ASSUME NEW p \in Places, ChunksCounted
    PROVE  /\ p[1] \notin Chunks => FirstFrom(p) = End
           /\ p[1] \in Chunks => p[1] # MaxChunks
           /\ p[1] \in Chunks /\ p[2] \in m_chunk[p[1]].taken => FirstFrom(p) = p
           /\ p[1] \in Chunks /\ p[2] \notin m_chunk[p[1]].taken =>
                  FirstFrom(p) = FirstFrom(Following(p))
<1>1. PICK n \in 0 .. MaxChunks : Chunks = 0 .. n - 1
  BY DEF ChunksCounted
<1>2. p[1] \in Nat /\ n \in Nat /\ MaxChunks \in Nat /\ p[1] \in 0 .. MaxChunks /\ p[2] \in Slots
  BY PositionParts, SizeAssumption
<1>3. ASSUME p[1] \notin Chunks PROVE FirstFrom(p) = End
  <2>1. ASSUME NEW e \in From(p) PROVE FALSE
    <3>1. e[1] \in 0 .. n - 1 /\ e[1] \in Nat /\ NotBefore(e, p)
      BY <1>1, <1>2, <2>1 DEF From, Elements
    <3>2. QED
      BY <1>1, <1>2, <1>3, <3>1 DEF NotBefore
  <2>2. QED
    BY <2>1, FirstFromFacts
<1>4. p[1] \in Chunks => p[1] # MaxChunks /\ p \in Position
  BY <1>1, <1>2, PositionParts DEF Position
<1>5. ASSUME p[1] \in Chunks, p[2] \in m_chunk[p[1]].taken PROVE FirstFrom(p) = p
  <2>1. p \in From(p)
    BY <1>2, <1>4, <1>5, PositionParts DEF From, Elements, NotBefore, Slots
  <2>2. FirstFrom(p) \in Places /\ NotBefore(FirstFrom(p), p) /\ NotBefore(p, FirstFrom(p))
    BY <2>1, FirstFromFacts, PositionParts DEF From, Elements
  <2> DEFINE e == FirstFrom(p)
  <2> HIDE DEF e
  <2>3. e[1] \in Nat /\ e[2] \in Nat /\ e = <<e[1], e[2]>> /\ p[2] \in Nat /\ p = <<p[1], p[2]>>
    BY <2>2, PositionParts DEF e
  <2>4. e[1] = p[1] /\ e[2] = p[2]
    BY <1>2, <2>2, <2>3 DEF NotBefore, e
  <2>5. QED
    BY <2>3, <2>4 DEF e
<1>6. ASSUME p[1] \in Chunks, p[2] \notin m_chunk[p[1]].taken PROVE FirstFrom(p) = FirstFrom(Following(p))
  <2>1. From(p) = From(Following(p))
    <3>1. p \notin Elements
      BY <1>6 DEF Elements
    <3>2. Elements \subseteq Places
      BY PositionParts DEF Elements
    <3>3. \A q \in Places : NotBefore(q, p) <=> q = p \/ NotBefore(q, Following(p))
      BY <1>4, <1>6, FollowingPosition
    <3>4. QED
      BY <3>1, <3>2, <3>3 DEF From
  <2>2. QED
    BY <2>1 DEF FirstFrom
<1>7. QED
  BY <1>3, <1>4, <1>5, <1>6

\* Any function which searches this way finds the first element.
LEMMA SearchUnique ==
    ASSUME ChunksCounted, NEW f, f = [p \in Places |-> Looked(f, p)]
    PROVE  \A p \in Places : f[p] = FirstFrom(p)
<1> DEFINE Wrong == {p \in Places : f[p] # FirstFrom(p)}
<1>1. SUFFICES ASSUME Wrong # {} PROVE FALSE
  OBVIOUS
<1>2. PICK p \in Wrong : \A q \in Wrong : NotBefore(p, q)
  <2>1. Wrong \in SUBSET Places
    OBVIOUS
  <2> HIDE DEF Wrong
  <2>2. QED
    BY <1>1, <2>1, LastOf
<1>3. p \in Places /\ f[p] # FirstFrom(p) /\ f[p] = Looked(f, p)
  OBVIOUS
<1>4. p[1] \in Chunks /\ p[2] \notin m_chunk[p[1]].taken /\ p[1] # MaxChunks
  BY <1>3, LookedFirst DEF Looked
<1>5. f[p] = f[Following(p)] /\ FirstFrom(p) = FirstFrom(Following(p))
  BY <1>3, <1>4, LookedFirst DEF Looked
<1>6. Following(p) \in Places /\ ~NotBefore(p, Following(p))
  BY <1>3, <1>4, FollowingPosition
<1>7. Following(p) \notin Wrong
  BY <1>2, <1>6
<1>8. QED
  BY <1>3, <1>5, <1>6, <1>7

LEMMA SearchExists ==
    ASSUME ChunksCounted
    PROVE  LET f == [p \in Places |-> FirstFrom(p)] IN f = [p \in Places |-> Looked(f, p)]
<1> DEFINE f == [p \in Places |-> FirstFrom(p)]
<1>1. ASSUME NEW p \in Places PROVE FirstFrom(p) = Looked(f, p)
  <2>1. CASE p[1] \in Chunks /\ p[2] \notin m_chunk[p[1]].taken
    <3>1. p[1] # MaxChunks
      BY <2>1, LookedFirst
    <3>2. Following(p) \in Places
      BY <3>1, FollowingPosition
    <3>3. f[Following(p)] = FirstFrom(Following(p))
      BY <3>2
    <3> HIDE DEF f
    <3>4. QED
      BY <2>1, <3>3, LookedFirst DEF Looked
  <2>2. CASE ~(p[1] \in Chunks /\ p[2] \notin m_chunk[p[1]].taken)
    BY <2>2, LookedFirst DEF Looked
  <2>3. QED
    BY <2>1, <2>2
<1>2. QED
  BY <1>1

\* jump_to_next() finds the first element which is not before the start.
LEMMA JumpFinds ==
    ASSUME ChunksCounted, NEW start \in Places
    PROVE  JumpToNext(start) = FirstFrom(start)
<1> DEFINE Search(f) == f = [p \in Places |-> Looked(f, p)]
           seek == CHOOSE f : Search(f)
<1>1. \E f : Search(f)
  BY SearchExists
<1>2. Search(seek)
  <2> HIDE DEF Search
  <2>1. QED
    BY <1>1
<1>3. seek[start] = FirstFrom(start)
  <2> HIDE DEF seek
  <2>1. QED
    BY <1>2, SearchUnique
<1>4. JumpToNext(start) = seek[start]
  BY DEF JumpToNext, Looked, Places
<1>5. QED
  BY <1>3, <1>4

\* The iterator is at a position that exists, and what is ahead exists.
Iterating ==
    /\ it # End => it \in Position /\ it[1] \in Chunks
    /\ ahead \subseteq Elements
    /\ NoneSkipped

LEMMA SoundCounted == Sound => ChunksCounted
BY DEF Sound, TypeOK, ChunksCounted, Chunks

LEMMA NextOfMap == [IterationNext]_allVars => [Next]_vars
BY DEF IterationNext, Begin, Advance, AddMeanwhile, RemoveMeanwhile, ClearAll, Next, allVars, vars

LEMMA NotEnd == End \notin Position
<1>1. \A p \in Position : p[1] # NoIndex
  BY DEF Position, NoIndex
<1>2. End[1] = NoIndex
  BY DEF End
<1>3. QED
  BY <1>1, <1>2

\* The iterator jumps from start: nothing of what is not before is passed.
LEMMA JumpPasses ==
    ASSUME Sound, NEW start \in Places, it' = JumpToNext(start), UNCHANGED vars,
           NEW S \in SUBSET From(start), ahead' = S \ {it'}
    PROVE  Iterating'
<1>1. it' = FirstFrom(start)
  BY SoundCounted, JumpFinds
<1>2. Elements' = Elements /\ Chunks' = Chunks
  BY DEF Elements, Chunks, vars
<1>3. CASE From(start) = {}
  <2>1. it' = End /\ ahead' = {}
    BY <1>1, <1>3, FirstFromFacts
  <2>2. QED
    BY <2>1 DEF Iterating, NoneSkipped
<1>4. CASE From(start) # {}
  <2>1. it' \in From(start) /\ \A q \in From(start) : NotBefore(q, it')
    BY <1>1, <1>4, FirstFromFacts
  <2>2. it' \in Position /\ it'[1] \in Chunks'
    BY <1>2, <2>1 DEF From, Elements
  <2>3. ahead' \subseteq Elements'
    BY <1>2 DEF From
  <2>4. ASSUME NEW p \in ahead'
        PROVE  it' # End /\ (it'[1] < p[1] \/ (it'[1] = p[1] /\ it'[2] < p[2]))
    <3>1. NotBefore(p, it') /\ p # it' /\ p \in Places /\ it' \in Places
      BY <2>1, <2>2, <2>4, PositionParts DEF From, Elements
    <3>2. /\ p[1] \in Nat /\ p[2] \in Nat /\ p = <<p[1], p[2]>>
          /\ it'[1] \in Nat /\ it'[2] \in Nat /\ it' = <<it'[1], it'[2]>>
      BY <3>1, PositionParts
    <3>3. p[1] # it'[1] \/ p[2] # it'[2]
      BY <3>1, <3>2
    <3>4. it' # End
      BY <2>2, NotEnd
    <3>5. QED
      BY <3>1, <3>2, <3>3, <3>4 DEF NotBefore
  <2>5. QED
    BY <2>2, <2>3, <2>4 DEF Iterating, NoneSkipped
<1>5. QED
  BY <1>3, <1>4

\* What Add does leaves all elements where they are.
LEMMA AddKeepsElements ==
    ASSUME Sound, NEW v \in Value, Add(v)
    PROVE  Elements \subseteq Elements' /\ Chunks \subseteq Chunks'
<1>1. PICK n \in 0 .. MaxChunks : m_chunk \in [0 .. n - 1 -> Chunk]
  BY DEF Sound, TypeOK
<1>2. Chunks = 0 .. n - 1 /\ n \in Nat
  BY <1>1, SizeAssumption DEF Chunks
<1>3. PICK chunks, c :
          /\ Fill(chunks, c, v)
          /\ 0 .. n - 1 \subseteq DOMAIN chunks /\ c \in DOMAIN chunks
          /\ \A d \in 0 .. n - 1 : chunks[d] = m_chunk[d]
          /\ \A d \in DOMAIN chunks : chunks[d] \in Chunk
  <2>1. CASE m_free_chunk # NoIndex /\ Fill(m_chunk, m_free_chunk, v)
    <3>1. m_free_chunk \in Chunks
      BY <2>1 DEF Sound, TypeOK
    <3>2. QED
      BY <1>1, <1>2, <2>1, <3>1 DEF Chunks
  <2>2. CASE m_free_chunk = NoIndex
    <3>1. PICK k \in 0 .. MaxChunks - 1 :
              /\ Chunks = 0 .. k - 1
              /\ Fill([c \in 0 .. k |-> IF c = k THEN NewChunk ELSE m_chunk[c]], k, v)
      BY <2>2 DEF Add
    <3> DEFINE chunks == [c \in 0 .. k |-> IF c = k THEN NewChunk ELSE m_chunk[c]]
    <3>2. k = n
      <4>1. k \in Nat
        BY SizeAssumption
      <4>2. k <= n
        <5>1. CASE k = 0
          BY <1>2, <5>1
        <5>2. CASE k > 0
          <6>1. k - 1 \in 0 .. k - 1
            BY <4>1, <5>2
          <6>2. k - 1 \in 0 .. n - 1
            BY <1>2, <3>1, <6>1
          <6>3. QED
            BY <1>2, <4>1, <6>2
        <5>3. QED
          BY <4>1, <5>1, <5>2
      <4>3. ~(k < n)
        <5>1. k < n => k \in 0 .. n - 1
          BY <1>2, <4>1
        <5>2. k \notin 0 .. k - 1
          BY <4>1
        <5>3. QED
          BY <1>2, <3>1, <5>1, <5>2
      <4>4. QED
        BY <1>2, <4>1, <4>2, <4>3
    <3>3. DOMAIN chunks = 0 .. n /\ 0 .. n - 1 \subseteq 0 .. n /\ k \in 0 .. n
      BY <1>2, <3>2
    <3>4. \A d \in 0 .. n - 1 : chunks[d] = m_chunk[d]
      BY <1>2, <3>2
    <3>5. \A d \in 0 .. n : chunks[d] \in Chunk
      BY <1>1, <1>2, <3>2, NewChunkType
    <3>6. Fill(chunks, k, v)
      BY <3>1
    <3> HIDE DEF chunks
    <3>7. QED
      BY <3>3, <3>4, <3>5, <3>6
  <2>3. QED
    BY <2>1, <2>2 DEF Add
<1>4. PICK s \in Slots : m_chunk' = [chunks EXCEPT ![c] = Occupied(chunks[c], s, v)]
  BY <1>3 DEF Fill
<1>5. Occupied(chunks[c], s, v).taken = chunks[c].taken \cup {s}
  <2>1. chunks[c] \in Chunk
    BY <1>3
  <2>2. QED
    BY <2>1, OccupiedChunk
<1>6. DOMAIN m_chunk' = DOMAIN chunks /\ \A d \in DOMAIN chunks : chunks[d].taken \subseteq m_chunk'[d].taken
  BY <1>4, <1>5
<1>7. Chunks \subseteq Chunks'
  BY <1>2, <1>3, <1>6 DEF Chunks
<1>8. \A d \in Chunks : m_chunk[d].taken \subseteq m_chunk'[d].taken
  BY <1>2, <1>3, <1>6
<1>9. QED
  BY <1>7, <1>8 DEF Elements

\* No step skips an element.
LEMMA IteratingStep ==
    ASSUME Sound, Iterating, [IterationNext]_allVars
    PROVE  Iterating'
<1>1. CASE Begin
  <2>1. <<0, 0>> \in Places /\ <<0, 0>>[1] = 0 /\ <<0, 0>>[2] = 0
    BY PositionParts, SizeAssumption DEF Slots
  <2>2. Elements \subseteq From(<<0, 0>>)
    <3>1. \A q \in Elements : q[1] \in Nat /\ q[2] \in Nat
      BY PositionParts DEF Elements
    <3>2. \A q \in Elements : NotBefore(q, <<0, 0>>)
      BY <2>1, <3>1 DEF NotBefore
    <3>3. QED
      BY <3>2 DEF From
  <2>3. QED
    BY <1>1, <2>1, <2>2, JumpPasses DEF Begin
<1>2. CASE Advance
  <2>1. it \in Position /\ it[1] \in Chunks /\ it \in Places
    BY <1>2, PositionParts DEF Advance, Iterating
  <2>2. it[1] # MaxChunks
    BY <2>1, SoundCounted, LookedFirst
  <2>3. Following(it) \in Places
    BY <2>1, <2>2, FollowingPosition
  <2>4. ahead \subseteq From(Following(it))
    <3>1. SUFFICES ASSUME NEW p \in ahead PROVE p \in From(Following(it))
      OBVIOUS
    <3>2. p \in Elements /\ p \in Places
      BY PositionParts DEF Iterating, Elements
    <3>3. it[1] < p[1] \/ (it[1] = p[1] /\ it[2] < p[2])
      BY DEF Iterating, NoneSkipped
    <3>4. it[1] \in Nat /\ it[2] \in Nat /\ p[1] \in Nat /\ p[2] \in Nat
      BY <2>1, <3>2, PositionParts
    <3>5. NotBefore(p, it) /\ p # it
      BY <3>3, <3>4 DEF NotBefore
    <3>6. NotBefore(p, Following(it))
      BY <2>1, <2>2, <3>2, <3>5, FollowingPosition
    <3>7. QED
      BY <3>2, <3>6 DEF From
  <2>5. QED
    BY <1>2, <2>3, <2>4, JumpPasses DEF Advance
<1>3. CASE AddMeanwhile
  <2>1. it' = it /\ ahead' = ahead /\ Elements \subseteq Elements' /\ Chunks \subseteq Chunks'
    BY <1>3, AddKeepsElements DEF AddMeanwhile, iteration
  <2>2. QED
    BY <2>1 DEF Iterating, NoneSkipped
<1>4. CASE RemoveMeanwhile
  <2>1. Chunks' = Chunks
    <3>1. \E c, s, relink : Vacate(c, s, relink)
      BY <1>4 DEF RemoveMeanwhile, Remove, RemoveAt
    <3>2. QED
      BY <3>1 DEF Vacate, Chunks
  <2>2. it' = it /\ ahead' = {p \in ahead : p[2] \in m_chunk'[p[1]].taken}
    BY <1>4 DEF RemoveMeanwhile
  <2>3. ahead' \subseteq Elements' /\ ahead' \subseteq ahead
    BY <2>1, <2>2 DEF Iterating, Elements
  <2>4. QED
    BY <2>1, <2>2, <2>3 DEF Iterating, NoneSkipped
<1>5. CASE ClearAll
  BY <1>5 DEF ClearAll, Iterating, NoneSkipped
<1>6. CASE UNCHANGED allVars
  <2>1. it' = it /\ ahead' = ahead /\ Elements' = Elements /\ Chunks' = Chunks
    BY <1>6 DEF allVars, vars, iteration, Elements, Chunks
  <2>2. QED
    BY <2>1 DEF Iterating, NoneSkipped
<1>7. QED
  BY <1>1, <1>2, <1>3, <1>4, <1>5, <1>6 DEF IterationNext

\* Whatever is added and removed during an iteration, of any container and any
\* chunk size, every element that stays is reached, in the order of positions.
THEOREM IterationComplete == IterationSpec => []NoneSkipped
<1>1. IterationInit => Sound /\ Iterating
  <2>1. IterationInit => Iterating
    BY DEF IterationInit, Iterating, NoneSkipped
  <2>2. QED
    BY <2>1, SoundInit DEF IterationInit
<1>2. Sound /\ Iterating /\ [IterationNext]_allVars => (Sound /\ Iterating)'
  <2>1. Sound /\ [IterationNext]_allVars => Sound'
    BY NextOfMap, SoundStep
  <2>2. QED
    BY <2>1, IteratingStep
<1>3. Iterating => NoneSkipped
  BY DEF Iterating
<1>4. QED
  BY <1>1, <1>2, <1>3, PTL DEF IterationSpec
=============================================================================
