--------------------------- MODULE DispatchProofs ---------------------------
(***************************************************************************)
(* The safety properties of Dispatch, for any directories, files, number   *)
(* of registrations and of changes: one invariant, kept by every step of   *)
(* the thread, of its owner and of other programs.                         *)
(***************************************************************************)
EXTENDS Dispatch, FiniteSetTheorems, SequenceTheorems, WellFoundedInduction, TLAPS

FileRecord == [id : Nat, dir_wd : Nat, name : FileName]

DirRecord == [wd : Nat, name : DirName]

Files == 1..Len(m_file)

Dirs == 1..Len(m_dir)

-----------------------------------------------------------------------------
(* The invariant *)

KernelTyped ==
    /\ changes \in 0..MaxChanges
    /\ inode \in [DirName -> 0..changes \cup {None}]
    /\ \A d, e \in DirName : inode[d] = inode[e] /\ inode[d] # None => d = e
    /\ given \in Nat
    /\ DOMAIN watched \subseteq 1..given
    /\ \A wd \in DOMAIN watched : watched[wd] \in 0..changes
    /\ \A wd, other \in DOMAIN watched : watched[wd] = watched[other] => wd = other
    /\ queue \in Seq(Events)

WatchTyped ==
    /\ added \in 0..MaxWatches
    /\ m_file \in Seq(FileRecord)
    /\ m_dir \in Seq(DirRecord)
    /\ batch \in Seq(Events)
    /\ handling \in Events \cup {None}
    /\ calling \in 0..added
    /\ gone \in Seq([dir : DirName, name : FileName])
    /\ \A i \in Files : m_file[i].id \in 1..added /\ m_file[i].dir_wd \in 1..given
    /\ \A i \in Dirs : m_dir[i].wd \in 1..given

HistoryTyped ==
    /\ path \in [Watch -> Path \cup {None}]
    /\ raised \in [Watch -> Nat]
    /\ heard \in [Watch -> Nat]
    /\ \A id \in Watch : id > added => heard[id] = 0
    /\ stopped \subseteq 1..added
    /\ shared \subseteq 1..added

LoopState ==
    /\ pc \in {"wait", "notify", "exited", "undefined"}
    /\ ready \in Seq({"fs", "quit"})
    /\ fired \in 0..1
    /\ owner \in {"using", "watch destroyed", "fired", "destroyed"}
    /\ "fs" \in alive <=> owner = "using"
    /\ owner = "destroyed" => pc = "exited"
    /\ owner # "destroyed" => {"quit", "loop"} \subseteq alive
    /\ owner \in {"using", "watch destroyed"} => fired = 0

\* Outside of _notify nothing is half done; and when the file watch was not
\* destroyed in the middle of that, nothing of it is left to do.
NothingLeft ==
    /\ pc \in {"wait", "exited"} => batch = <<>> /\ handling = None /\ ready = <<>>
    /\ interrupted => owner # "using"
    /\ "fs" \notin alive /\ ~interrupted =>
           batch = <<>> /\ handling = None /\ "fs" \notin Range(ready)
    /\ pc = "undefined" => interrupted

\* Registrations have numbers of their own, a directory in m_dir and a path.
Known ==
    /\ \A i, j \in Files : m_file[i].id = m_file[j].id => i = j
    /\ \A i, j \in Dirs : m_dir[i].name = m_dir[j].name => i = j
    /\ \A i \in Files : \E j \in Dirs : m_dir[j].wd = m_file[i].dir_wd
    /\ \A i, j \in Files :
           m_file[i].dir_wd = m_file[j].dir_wd /\ m_file[i].name = m_file[j].name =>
               i = j \/ m_file[i].id \in shared
    /\ \A i \in Files : path[m_file[i].id] \in Path /\ path[m_file[i].id].name = m_file[i].name

\* What m_dir and the kernel agree on, as long as no directory has two names
Watching(d) ==
    \/ d.wd \in DOMAIN watched /\ watched[d.wd] = inode[d.name]
    \/ StopPending(d.wd)

Agreed ==
    /\ \A i, j \in Dirs : m_dir[i].wd = m_dir[j].wd => i = j
    /\ \A i \in Dirs : \E j \in Files : m_file[j].dir_wd = m_dir[i].wd
    /\ \A wd \in DOMAIN watched : \E i \in Dirs : m_dir[i].wd = wd
    /\ \A i \in Dirs : Watching(m_dir[i])
    /\ \A i \in Files :
           \E j \in Dirs : m_dir[j] = [wd |-> m_file[i].dir_wd, name |-> path[m_file[i].id].dir]

Heard ==
    \A i \in Files :
        \/ m_file[i].id \in shared
        \/ heard[m_file[i].id] + Pending(m_file[i].dir_wd, m_file[i].name)
               = raised[m_file[i].id]
        \/ StopPending(m_file[i].dir_wd)

\* The registration whose callback runs
CallbackRuns ==
    /\ handling = None => calling = 0
    /\ handling # None /\ calling = 0 => handling.kind = "self"
    /\ calling # 0 => \E i \in Files : m_file[i].id = calling /\ m_file[i].dir_wd = handling.wd

Stopping == handling # None /\ handling.kind = "self"

\* The number of elements of s in S
Matches(s, S) == {i \in DOMAIN s : s[i] \in S}

Count(s, S) == Cardinality(Matches(s, S))

\* The registrations of a file, and the paths of the name in any directory
Named(wd, name) == {f \in FileRecord : f.dir_wd = wd /\ f.name = name}

PathsNamed(name) == {p \in [dir : DirName, name : FileName] : p.name = name}

\* Stopped goes through the files of the directory in order.  Those which were
\* called are the ones to be removed, counted by their names.
CalledInOrder ==
    /\ \A i \in Files :
           m_file[i].id \in stopped =>
               /\ Stopping /\ m_file[i].dir_wd = handling.wd
               /\ \A at \in Files : m_file[at].id = calling => i <= at
    /\ Stopping =>
        /\ \A i \in Files, j \in Dirs :
               m_file[i].dir_wd = handling.wd /\ m_dir[j].wd = handling.wd =>
                   \/ \E k \in 1 .. j - 1 : m_dir[k].wd = handling.wd
                   \/ \A k \in DOMAIN gone : gone[k].dir = m_dir[j].name
        /\ \A name \in FileName, n \in 0..Len(m_file) :
               (calling # 0 => n < Len(m_file) /\ m_file[n + 1].id = calling) =>
                   Count(SubSeq(m_file, 1, n), Named(handling.wd, name))
                       <= Count(gone, PathsNamed(name))

ListsKept == Known /\ (~aliased => Agreed /\ Heard) /\ CallbackRuns /\ CalledInOrder

Typed == KernelTyped /\ WatchTyped /\ HistoryTyped

IInv ==
    /\ Typed
    /\ LoopState
    /\ NothingLeft
    /\ "fs" \in alive => ListsKept
    /\ "fs" \notin alive => m_file = <<>>

-----------------------------------------------------------------------------
(* Sequences *)

LEMMA LeastOf ==
    ASSUME NEW S \in SUBSET Nat, S # {}
    PROVE  Min(S) \in S /\ \A k \in S : Min(S) <= k
<1> DEFINE R == OpToRel(<, Nat)
<1>1. IsWellFoundedOn(R, Nat)
  BY NatLessThanWellFounded
<1>2. \A x, y \in Nat : <<y, x>> \in R <=> y < x
  BY DEF OpToRel
<1> HIDE DEF R
<1>3. PICK x \in S : \A y \in S : ~(<<y, x>> \in R)
  BY <1>1, WFMin
<1>4. ASSUME NEW k \in S PROVE x <= k
  <2>1. ~(k < x)
    BY <1>2, <1>3
  <2>2. QED
    BY <2>1
<1>5. QED
  BY <1>4 DEF Min

LEMMA FirstOfSet ==
    ASSUME NEW n \in Nat, NEW I \in SUBSET (1..n)
    PROVE  LET first == IF I # {} THEN Min(I) ELSE 0
           IN  /\ first \in 0..n
               /\ first # 0 => first \in I
               /\ \A i \in I : first # 0 /\ first <= i
<1>1. I \in SUBSET Nat
  OBVIOUS
<1>2. CASE I = {}
  BY <1>2
<1>3. CASE I # {}
  <2>1. Min(I) \in I /\ \A k \in I : Min(I) <= k
    BY <1>1, <1>3, LeastOf
  <2>2. Min(I) \in 1..n
    BY <2>1
  <2> HIDE DEF Min
  <2>3. QED
    BY <1>3, <2>1, <2>2
<1>4. QED
  BY <1>2, <1>3

\* What each search for an index finds: the first match, or 0.
IsFirst(first, s, S) ==
    /\ first \in 0..Len(s)
    /\ first # 0 => s[first] \in S
    /\ \A i \in 1..Len(s) : s[i] \in S => first # 0 /\ first <= i

LEMMA DirIndexFirst ==
    ASSUME NEW s \in Seq(DirRecord), NEW name
    PROVE  IsFirst(DirIndex(s, name), s, {d \in DirRecord : d.name = name})
<1> DEFINE I == {i \in 1..Len(s) : s[i].name = name}
<1>1. DirIndex(s, name) = IF I # {} THEN Min(I) ELSE 0
  BY DEF DirIndex, SelectInSeq
<1>2. I \in SUBSET (1..Len(s)) /\ Len(s) \in Nat
  OBVIOUS
<1>3. \A i \in 1..Len(s) : s[i] \in DirRecord /\ (i \in I <=> s[i].name = name)
  OBVIOUS
<1> HIDE DEF I
<1>4. QED
  BY <1>1, <1>2, <1>3, FirstOfSet DEF IsFirst

LEMMA WdIndexFirst ==
    ASSUME NEW s \in Seq(DirRecord), NEW wd
    PROVE  IsFirst(SelectInSeq(s, LAMBDA d : d.wd = wd), s, {d \in DirRecord : d.wd = wd})
<1> DEFINE I == {i \in 1..Len(s) : s[i].wd = wd}
<1>1. SelectInSeq(s, LAMBDA d : d.wd = wd) = IF I # {} THEN Min(I) ELSE 0
  BY DEF SelectInSeq
<1>2. I \in SUBSET (1..Len(s)) /\ Len(s) \in Nat
  OBVIOUS
<1>3. \A i \in 1..Len(s) : s[i] \in DirRecord /\ (i \in I <=> s[i].wd = wd)
  OBVIOUS
<1> HIDE DEF I
<1> DEFINE first == SelectInSeq(s, LAMBDA d : d.wd = wd)
<1> HIDE DEF first
<1>4. QED
  <2>1. first = IF I # {} THEN Min(I) ELSE 0
    BY <1>1 DEF first
  <2>2. IsFirst(first, s, {d \in DirRecord : d.wd = wd})
    BY <2>1, <1>2, <1>3, FirstOfSet DEF IsFirst
  <2>3. QED
    BY <2>2, Zenon DEF first

LEMMA FileOfWdFirst ==
    ASSUME NEW s \in Seq(FileRecord), NEW wd
    PROVE  IsFirst(SelectInSeq(s, LAMBDA f : f.dir_wd = wd), s, {f \in FileRecord : f.dir_wd = wd})
<1> DEFINE I == {i \in 1..Len(s) : s[i].dir_wd = wd}
<1>1. SelectInSeq(s, LAMBDA f : f.dir_wd = wd) = IF I # {} THEN Min(I) ELSE 0
  BY DEF SelectInSeq
<1>2. I \in SUBSET (1..Len(s)) /\ Len(s) \in Nat
  OBVIOUS
<1>3. \A i \in 1..Len(s) : s[i] \in FileRecord /\ (i \in I <=> s[i].dir_wd = wd)
  OBVIOUS
<1> HIDE DEF I
<1> DEFINE first == SelectInSeq(s, LAMBDA f : f.dir_wd = wd)
<1> HIDE DEF first
<1>4. QED
  <2>1. first = IF I # {} THEN Min(I) ELSE 0
    BY <1>1 DEF first
  <2>2. IsFirst(first, s, {f \in FileRecord : f.dir_wd = wd})
    BY <2>1, <1>2, <1>3, FirstOfSet DEF IsFirst
  <2>3. QED
    BY <2>2, Zenon DEF first

LEMMA FileIndexFirst ==
    ASSUME NEW s \in Seq(FileRecord), NEW wd, NEW name
    PROVE  IsFirst(FileIndex(s, wd, name), s, Named(wd, name))
<1> DEFINE I == {i \in 1..Len(s) : s[i].dir_wd = wd /\ s[i].name = name}
<1>1. FileIndex(s, wd, name) = IF I # {} THEN Min(I) ELSE 0
  BY DEF FileIndex, SelectInSeq
<1>2. I \in SUBSET (1..Len(s)) /\ Len(s) \in Nat
  OBVIOUS
<1>3. \A i \in 1..Len(s) : s[i] \in FileRecord /\ (i \in I <=> s[i].dir_wd = wd /\ s[i].name = name)
  OBVIOUS
<1> HIDE DEF I
<1>4. QED
  BY <1>1, <1>2, <1>3, FirstOfSet DEF IsFirst, Named

\* The file with a registration number
LEMMA FileOfRegistered ==
    ASSUME NEW i \in Files, m_file \in Seq(FileRecord),
           \A j, k \in Files : m_file[j].id = m_file[k].id => j = k
    PROVE  SelectInSeq(m_file, LAMBDA f : f.id = m_file[i].id) = i
<1> DEFINE I == {j \in 1..Len(m_file) : m_file[j].id = m_file[i].id}
           first == SelectInSeq(m_file, LAMBDA f : f.id = m_file[i].id)
<1>1. first = IF I # {} THEN Min(I) ELSE 0
  BY DEF SelectInSeq
<1>2. I = {i}
  BY DEF Files
<1> HIDE DEF I, first
<1>3. {i} \in SUBSET Nat /\ {i} # {}
  BY DEF Files
<1>4. Min({i}) = i
  BY <1>3, LeastOf
<1>5. first = i
  BY <1>1, <1>2, <1>4
<1>6. QED
  BY <1>5, Zenon DEF first

\* How counts add up
LEMMA CountFinite ==
    ASSUME NEW T, NEW s \in Seq(T), NEW S
    PROVE  /\ IsFiniteSet(Matches(s, S))
           /\ Count(s, S) \in Nat
           /\ Count(s, S) = 0 <=> \A i \in 1..Len(s) : s[i] \notin S
<1> DEFINE M == Matches(s, S)
<1>1. DOMAIN s = 1..Len(s) /\ Len(s) \in Nat
  OBVIOUS
<1>2. IsFiniteSet(1..Len(s)) /\ M \in SUBSET (1..Len(s))
  BY <1>1, FS_Interval DEF Matches
<1>3. IsFiniteSet(M) /\ Cardinality(M) \in Nat /\ (Cardinality(M) = 0 <=> M = {})
  BY <1>2, FS_Subset, FS_CardinalityType, FS_EmptySet
<1>4. M = {} <=> \A i \in 1..Len(s) : s[i] \notin S
  BY <1>1 DEF Matches
<1>5. QED
  BY <1>3, <1>4 DEF Count

LEMMA CountConcat ==
    ASSUME NEW T, NEW s \in Seq(T), NEW t \in Seq(T), NEW S
    PROVE  Count(s \o t, S) = Count(s, S) + Count(t, S)
<1> DEFINE A == Matches(s, S)
           B == Matches(t, S)
           C == Matches(s \o t, S)
           n == Len(s)
           f == [i \in B |-> i + n]
           D == {i \in DOMAIN (s \o t) : i > n /\ (s \o t)[i] \in S}
<1>1. /\ n \in Nat /\ Len(t) \in Nat /\ DOMAIN s = 1..n /\ DOMAIN t = 1..Len(t)
      /\ s \o t \in Seq(T) /\ Len(s \o t) = n + Len(t)
      /\ DOMAIN (s \o t) = 1 .. n + Len(t)
  OBVIOUS
<1>2. /\ \A i \in 1..n : (s \o t)[i] = s[i]
      /\ \A i \in 1..Len(t) : (s \o t)[i + n] = t[i]
  OBVIOUS
<1>3. C = A \cup D /\ A \cap D = {}
  BY <1>1, <1>2 DEF Matches
<1>4. f \in Bijection(B, D)
  <2> USE DEF Matches
  <2>1. \A i \in B : f[i] \in D
    BY <1>1, <1>2
  <2>2. \A i, j \in B : f[i] = f[j] => i = j
    BY <1>1
  <2>3. \A k \in D : \E i \in B : f[i] = k
    <3> SUFFICES ASSUME NEW k \in D PROVE k - n \in B /\ f[k - n] = k
      OBVIOUS
    <3>1. k \in n + 1 .. n + Len(t) /\ (s \o t)[k] \in S
      BY <1>1
    <3>2. k - n \in 1..Len(t) /\ (k - n) + n = k
      BY <1>1, <3>1
    <3>3. t[k - n] = (s \o t)[k]
      BY <1>2, <3>2
    <3>4. QED
      BY <1>1, <3>1, <3>2, <3>3
  <2> HIDE DEF A, B, C, D
  <2>4. f \in [B -> D]
    BY <2>1
  <2> HIDE DEF f
  <2>5. QED
    BY <2>2, <2>3, <2>4 DEF Bijection, Injection, Surjection, IsInjective
<1>5. IsFiniteSet(A) /\ IsFiniteSet(B)
  <2>1. IsFiniteSet(A)
    BY CountFinite
  <2>2. IsFiniteSet(B)
    BY CountFinite
  <2>3. QED
    BY <2>1, <2>2
<1> HIDE DEF A, B, C, D, f, n
<1>6. IsFiniteSet(D) /\ Cardinality(D) = Cardinality(B)
  BY <1>4, <1>5, FS_Bijection DEF ExistsBijection
<1>7. Cardinality(A) \in Nat /\ Cardinality(D) \in Nat
  BY <1>5, <1>6, FS_CardinalityType
<1>8. Cardinality(C) = Cardinality(A) + Cardinality(D)
  <2>1. Cardinality(C) = Cardinality(A) + Cardinality(D) - Cardinality(A \cap D)
    BY <1>3, <1>5, <1>6, FS_Union
  <2>2. Cardinality(A \cap D) = 0
    BY <1>3, FS_EmptySet
  <2>3. QED
    BY <1>7, <2>1, <2>2
<1>9. QED
  BY <1>6, <1>8 DEF Count, A, B, C

LEMMA CountOne ==
    ASSUME NEW T, NEW e \in T, NEW S
    PROVE  Count(<<e>>, S) = IF e \in S THEN 1 ELSE 0
<1>1. Matches(<<e>>, S) = IF e \in S THEN {1} ELSE {}
  BY DEF Matches
<1>2. Cardinality({1}) = 1 /\ Cardinality({}) = 0
  BY FS_Singleton, FS_EmptySet
<1>3. QED
  BY <1>1, <1>2 DEF Count

LEMMA CountAppend ==
    ASSUME NEW T, NEW s \in Seq(T), NEW e \in T, NEW S
    PROVE  Count(Append(s, e), S) = Count(s, S) + IF e \in S THEN 1 ELSE 0
<1>1. Append(s, e) = s \o <<e>>
  BY AppendIsConcat
<1>2. <<e>> \in Seq(T)
  OBVIOUS
<1>3. Count(s \o <<e>>, S) = Count(s, S) + Count(<<e>>, S)
  BY <1>2, CountConcat
<1>4. QED
  BY <1>1, <1>3, CountOne

LEMMA CountSplit ==
    ASSUME NEW T, NEW s \in Seq(T), NEW n \in 0..Len(s), NEW S
    PROVE  Count(s, S) = Count(SubSeq(s, 1, n), S) + Count(SubSeq(s, n + 1, Len(s)), S)
<1>1. s = SubSeq(s, 1, n) \o SubSeq(s, n + 1, Len(s))
  <2>1. 1 \in 1 .. Len(s) + 1 /\ n \in 1 - 1 .. Len(s) /\ Len(s) \in n .. Len(s)
    OBVIOUS
  <2>2. SubSeq(s, 1, n) \o SubSeq(s, n + 1, Len(s)) = SubSeq(s, 1, Len(s))
    BY <2>1, ConcatAdjacentSubSeq
  <2>3. QED
    BY <2>2, SubSeqFull
<1>2. SubSeq(s, 1, n) \in Seq(T) /\ SubSeq(s, n + 1, Len(s)) \in Seq(T)
  BY SubSeqProperties
<1>3. Count(SubSeq(s, 1, n) \o SubSeq(s, n + 1, Len(s)), S)
        = Count(SubSeq(s, 1, n), S) + Count(SubSeq(s, n + 1, Len(s)), S)
  BY <1>2, CountConcat
<1>4. QED
  BY <1>1, <1>3

LEMMA CountTail ==
    ASSUME NEW T, NEW s \in Seq(T), s # <<>>, NEW S
    PROVE  Count(s, S) = Count(Tail(s), S) + IF Head(s) \in S THEN 1 ELSE 0
<1>1. s = <<Head(s)>> \o Tail(s) /\ Head(s) \in T /\ Tail(s) \in Seq(T) /\ <<Head(s)>> \in Seq(T)
  OBVIOUS
<1>2. Count(<<Head(s)>> \o Tail(s), S) = Count(<<Head(s)>>, S) + Count(Tail(s), S)
  BY <1>1, CountConcat
<1>3. Count(Tail(s), S) \in Nat /\ Count(<<Head(s)>>, S) = IF Head(s) \in S THEN 1 ELSE 0
  BY <1>1, CountFinite, CountOne
<1>4. Count(s, S) = Count(<<Head(s)>>, S) + Count(Tail(s), S)
  BY <1>1, <1>2
<1>5. QED
  BY <1>3, <1>4

LEMMA RemoveAtProperties ==
    ASSUME NEW T, NEW s \in Seq(T), NEW k \in 1..Len(s)
    PROVE  /\ RemoveAt(s, k) \in Seq(T)
           /\ Len(RemoveAt(s, k)) = Len(s) - 1
           /\ \A j \in 1 .. Len(s) - 1 : RemoveAt(s, k)[j] = IF j < k THEN s[j] ELSE s[j + 1]
<1> DEFINE a == SubSeq(s, 1, k - 1)
           b == SubSeq(s, k + 1, Len(s))
<1>1. /\ a \in Seq(T) /\ Len(a) = k - 1 /\ \A j \in 1 .. k - 1 : a[j] = s[j]
      /\ b \in Seq(T) /\ Len(b) = Len(s) - k /\ \A j \in 1 .. Len(s) - k : b[j] = s[k + j]
  OBVIOUS
<1> HIDE DEF a, b
<1>2. /\ a \o b \in Seq(T) /\ Len(a \o b) = Len(s) - 1
      /\ \A j \in 1 .. Len(s) - 1 : (a \o b)[j] = IF j < k THEN a[j] ELSE b[j - (k - 1)]
  BY <1>1
<1>3. \A j \in 1 .. Len(s) - 1 : (a \o b)[j] = IF j < k THEN s[j] ELSE s[j + 1]
  <2> SUFFICES ASSUME NEW j \in 1 .. Len(s) - 1
               PROVE  (a \o b)[j] = IF j < k THEN s[j] ELSE s[j + 1]
    OBVIOUS
  <2>1. CASE j < k
    BY <1>1, <1>2, <2>1
  <2>2. CASE ~(j < k)
    <3>1. j - (k - 1) \in 1 .. Len(s) - k /\ k + (j - (k - 1)) = j + 1
      BY <2>2
    <3>2. QED
      BY <1>1, <1>2, <2>2, <3>1
  <2>3. QED
    BY <2>1, <2>2
<1>4. RemoveAt(s, k) = a \o b
  BY DEF RemoveAt, a, b
<1>5. QED
  BY <1>2, <1>3, <1>4

LEMMA CountRemoveAt ==
    ASSUME NEW T, NEW s \in Seq(T), NEW k \in 1..Len(s), NEW S
    PROVE  Count(s, S) = Count(RemoveAt(s, k), S) + IF s[k] \in S THEN 1 ELSE 0
<1> DEFINE a == SubSeq(s, 1, k - 1)
           b == SubSeq(s, k + 1, Len(s))
           c == SubSeq(s, k, Len(s))
<1>1. a \in Seq(T) /\ b \in Seq(T) /\ c \in Seq(T) /\ c = <<s[k]>> \o b /\ <<s[k]>> \in Seq(T) /\ s[k] \in T
  OBVIOUS
<1>2. Count(s, S) = Count(a, S) + Count(c, S)
  <2>1. k - 1 \in 0..Len(s) /\ (k - 1) + 1 = k
    OBVIOUS
  <2>2. QED
    BY <2>1, CountSplit
<1>3. RemoveAt(s, k) = a \o b
  BY DEF RemoveAt
<1> HIDE DEF a, b, c
<1>4. Count(RemoveAt(s, k), S) = Count(a, S) + Count(b, S)
  BY <1>1, <1>3, CountConcat
<1>5. Count(c, S) = Count(<<s[k]>>, S) + Count(b, S)
  BY <1>1, CountConcat
<1>6. Count(<<s[k]>>, S) = IF s[k] \in S THEN 1 ELSE 0
  BY <1>1, CountOne
<1>7. Count(a, S) \in Nat /\ Count(b, S) \in Nat
  BY <1>1, CountFinite
<1>8. QED
  BY <1>2, <1>4, <1>5, <1>6, <1>7

-----------------------------------------------------------------------------
(* The loop of the thread and the destructor *)

LEMMA RangeFacts ==
    ASSUME NEW T, NEW s \in Seq(T)
    PROVE  /\ Range(<<>>) = {}
           /\ Range(s) \subseteq T
           /\ \A i \in 1..Len(s) : s[i] \in Range(s)
           /\ s # <<>> => /\ Head(s) \in T /\ Tail(s) \in Seq(T)
                         /\ Head(s) \in Range(s)
                         /\ Range(Tail(s)) \subseteq Range(s)
<1>1. DOMAIN <<>> = {} /\ DOMAIN s = 1..Len(s)
  OBVIOUS
<1>2. Range(<<>>) = {}
  BY <1>1 DEF Range
<1>3. Range(s) \subseteq T /\ \A i \in 1..Len(s) : s[i] \in Range(s)
  BY <1>1 DEF Range
<1>4. ASSUME s # <<>>
      PROVE  /\ Head(s) \in T /\ Tail(s) \in Seq(T)
             /\ Head(s) \in Range(s)
             /\ Range(Tail(s)) \subseteq Range(s)
  <2>1. 1 \in 1..Len(s) /\ Head(s) = s[1]
    BY <1>4
  <2>2. Tail(s) \in Seq(T) /\ DOMAIN Tail(s) = 1 .. Len(s) - 1
        /\ \A i \in 1 .. Len(s) - 1 : Tail(s)[i] = s[i + 1] /\ i + 1 \in 1..Len(s)
    BY <1>4
  <2>3. Range(Tail(s)) \subseteq Range(s)
    BY <1>3, <2>2 DEF Range
  <2>4. QED
    BY <1>3, <2>1, <2>2, <2>3
<1>5. QED
  BY <1>2, <1>3, <1>4

LEMMA ArraySeq ==
    ASSUME NEW S, NEW n \in Nat, NEW r \in [1..n -> S]
    PROVE  r \in Seq(S)
OBVIOUS

\* What epoll_wait returns, in any order
LEMMA ReadyOrders ==
    ASSUME NEW S \in SUBSET {"fs", "quit"}, NEW r \in SetToSeqs(S)
    PROVE  r \in Seq({"fs", "quit"}) /\ Range(r) \subseteq S
<1>1. IsFiniteSet({"fs", "quit"})
  <2>1. IsFiniteSet({"fs"}) /\ IsFiniteSet({"fs"} \cup {"quit"})
    <3>1. IsFiniteSet({"fs"})
      BY FS_Singleton
    <3>2. IsFiniteSet({"fs"} \cup {"quit"})
      BY <3>1, FS_AddElement
    <3>3. QED
      BY <3>1, <3>2
  <2>2. {"fs", "quit"} = {"fs"} \cup {"quit"}
    OBVIOUS
  <2>3. QED
    BY <2>1, <2>2
<1>2. Cardinality(S) \in Nat
  BY <1>1, FS_Subset, FS_CardinalityType
<1>3. r \in [1..Cardinality(S) -> S]
  BY DEF SetToSeqs
<1>4. r \in Seq(S)
  BY <1>2, <1>3, ArraySeq
<1>5. Range(r) \subseteq S
  BY <1>4, RangeFacts
<1>6. Len(r) \in Nat /\ r \in [1..Len(r) -> S]
  BY <1>4
<1>7. r \in [1..Len(r) -> {"fs", "quit"}]
  BY <1>6
<1>8. r \in Seq({"fs", "quit"})
  BY <1>6, <1>7, ArraySeq
<1>9. QED
  BY <1>5, <1>8

LEMMA LoopInit == Init => LoopState /\ NothingLeft
<1> SUFFICES ASSUME Init PROVE LoopState /\ NothingLeft
  OBVIOUS
<1>1. QED
  BY DEF Init, WatchInit, LoopState, NothingLeft, Range

\* What NothingLeft needs of a step in which the thread goes on
LEMMA GoesOn ==
    ASSUME NothingLeft, LoopState, pc \in {"wait", "notify"}, pc' = pc,
           UNCHANGED <<alive, owner, interrupted>>,
           "fs" \in alive \/ UNCHANGED <<batch, handling>>,
           "fs" \in Range(ready') => "fs" \in Range(ready),
           pc = "wait" => UNCHANGED <<batch, handling, ready>>
    PROVE  NothingLeft'
BY DEF NothingLeft, LoopState

LEMMA LoopStep ==
    ASSUME Typed, LoopState, NothingLeft, [Next]_vars
    PROVE  LoopState' /\ NothingLeft'
<1>tail. ready # <<>> => /\ Head(ready) \in {"fs", "quit"} /\ Tail(ready) \in Seq({"fs", "quit"})
                         /\ Range(Tail(ready)) \subseteq Range(ready)
                         /\ Head(ready) \in Range(ready)
  <2>1. ready \in Seq({"fs", "quit"})
    BY DEF LoopState
  <2>2. QED
    BY <2>1, RangeFacts
<1>empty. Range(<<>>) = {}
  <2>1. <<>> \in Seq({})
    OBVIOUS
  <2>2. QED
    BY <2>1, RangeFacts
<1>1. CASE EpollWait
  <2>1. PICK S \in SUBSET Readable \ {{}} : ready' \in SetToSeqs(S)
    BY <1>1 DEF EpollWait, LoopState
  <2>2. S \in SUBSET {"fs", "quit"} /\ ("fs" \in S => "fs" \in alive)
    BY <2>1 DEF Readable, LoopState
  <2>6. ready' \in Seq({"fs", "quit"}) /\ Range(ready') \subseteq S
    BY <2>1, <2>2, ReadyOrders
  <2>7. LoopState'
    BY <1>1, <2>6 DEF EpollWait, LoopState
  <2>8. NothingLeft'
    <3>1. pc = "wait" /\ pc' = "notify" /\ UNCHANGED <<batch, handling, interrupted, owner, alive>>
      BY <1>1 DEF EpollWait, watchVars, LoopState
    <3>2. QED
      BY <2>2, <2>6, <3>1 DEF NothingLeft, LoopState
  <2>9. QED
    BY <2>7, <2>8
<1>2. CASE Exit
  <2>1. pc = "wait" /\ pc' = "exited"
        /\ UNCHANGED <<batch, handling, ready, interrupted, owner, alive, fired>>
    BY <1>2 DEF Exit, watchVars, LoopState
  <2>2. QED
    BY <2>1 DEF NothingLeft, LoopState
<1>3. CASE NotifyQuit
  <2>1. ready' = Tail(ready) /\ ready # <<>> /\ pc = "notify" /\ fired' = 0
        /\ UNCHANGED <<pc, owner, alive, interrupted, batch, handling>>
    BY <1>3 DEF NotifyQuit, Between, watchVars, LoopState
  <2>2. LoopState'
    <3>1. ready' \in Seq({"fs", "quit"})
      BY <2>1, <1>tail
    <3>2. fired' \in 0..1
      BY <2>1
    <3>3. QED
      BY <2>1, <3>1, <3>2, Zenon DEF LoopState
  <2>3. "fs" \in Range(ready') => "fs" \in Range(ready)
    BY <2>1, <1>tail
  <2>4. NothingLeft'
    BY <2>1, <2>3 DEF NothingLeft, LoopState
  <2>5. QED
    BY <2>2, <2>4
<1>4. CASE NotifyFS
  <2>1. "fs" \in alive /\ ready' = Tail(ready) /\ ready # <<>> /\ pc = "notify"
        /\ UNCHANGED <<pc, fired, owner, alive, interrupted>>
    BY <1>4 DEF NotifyFS, Between, LoopState
  <2>2. ready' \in Seq({"fs", "quit"}) /\ ("fs" \in Range(ready') => "fs" \in Range(ready))
    BY <2>1, <1>tail
  <2>3. LoopState'
    BY <2>1, <2>2, Zenon DEF LoopState
  <2>4. NothingLeft'
    BY <2>1, <2>2, GoesOn
  <2>5. QED
    BY <2>3, <2>4
<1>5. CASE NotifiedAll
  BY <1>5 DEF NotifiedAll, Between, NothingLeft, kernelVars, watchVars, LoopState
<1>6. CASE Handle
  <2>1. "fs" \in alive /\ pc = "notify" /\ UNCHANGED loopVars
    BY <1>6 DEF Handle, LoopState
  <2>2. QED
    BY <2>1, GoesOn DEF loopVars, LoopState
<1>7. CASE UseDestroyed
  <2>1. /\ pc \in {"wait", "notify"} /\ interrupted
    <3>1. CASE pc = "notify" /\ "fs" \notin alive /\ ~Between
      BY <3>1 DEF Between, NothingLeft, LoopState
    <3>2. CASE Between /\ ready # <<>> /\ Head(ready) \notin alive
      BY <3>2, <1>tail DEF Between, NothingLeft, LoopState
    <3>3. CASE pc \in {"wait", "notify"} /\ "loop" \notin alive
      BY <3>3 DEF LoopState
    <3>4. QED
      BY <1>7, <3>1, <3>2, <3>3 DEF UseDestroyed, LoopState
  <2>2. QED
    BY <1>7, <2>1 DEF UseDestroyed, NothingLeft, kernelVars, watchVars, LoopState
<1>8. CASE DestroyFSWatch
  <2>1. owner = "using" /\ ~interrupted /\ pc # "undefined"
    BY <1>8 DEF DestroyFSWatch, NothingLeft, LoopState
  <2>2. LoopState'
    BY <1>8, <2>1 DEF DestroyFSWatch, LoopState
  <2>3. UNCHANGED <<pc, ready, batch, handling>> /\ owner' = "watch destroyed"
        /\ interrupted' = (pc = "notify" /\ (~Between \/ "fs" \in Range(ready)))
    BY <1>8 DEF DestroyFSWatch, LoopState
  <2>4. NothingLeft'
    <3>1. pc \in {"wait", "exited"} \/ ~interrupted' => batch = <<>> /\ handling = None /\ "fs" \notin Range(ready)
      BY <2>1, <2>3, <1>empty DEF NothingLeft, Between, LoopState
    <3>2. QED
      BY <2>1, <2>3, <3>1 DEF NothingLeft, LoopState
  <2>5. QED
    BY <2>2, <2>4
<1>9. CASE Fire
  <2>1. owner' = "fired" /\ owner = "watch destroyed" /\ fired' = fired + 1
        /\ UNCHANGED <<pc, ready, alive, interrupted, batch, handling>>
    BY <1>9 DEF Fire, watchVars, LoopState
  <2>2. fired = 0
    BY <2>1, Zenon DEF LoopState
  <2>3. fired' \in 0..1
    <3>1. fired' = 0 + 1
      BY <2>1, <2>2, Zenon
    <3>2. QED
      BY <3>1
  <2>4. LoopState'
    BY <2>1, <2>3, Zenon DEF LoopState
  <2>5. NothingLeft'
    BY <2>1 DEF NothingLeft, LoopState
  <2>6. QED
    BY <2>4, <2>5
<1>10. CASE Join
  BY <1>10 DEF Join, NothingLeft, kernelVars, watchVars, LoopState
<1>11. ASSUME UNCHANGED <<loopVars, batch, handling>> PROVE LoopState' /\ NothingLeft'
  BY <1>11 DEF NothingLeft, loopVars, LoopState
<1>12. ASSUME NEW p \in Path, AddCalled(p) \/ RemoveCalled(p) \/ ChangeFile(p) \/ RepeatChange(p)
       PROVE  LoopState' /\ NothingLeft'
  BY <1>11, <1>12 DEF AddCalled, AddWatch, RemoveCalled, RemoveWatch, ChangeFile, RepeatChange,
                      watchVars, LoopState
<1>13. ASSUME NEW d \in DirName, ChangeDir(d) PROVE LoopState' /\ NothingLeft'
  BY <1>11, <1>13 DEF ChangeDir, watchVars, LoopState
<1>14. CASE Terminated \/ UNCHANGED vars
  BY <1>11, <1>14 DEF Terminated, vars, watchVars, LoopState
<1>15. QED
  BY <1>1, <1>2, <1>3, <1>4, <1>5, <1>6, <1>7, <1>8, <1>9, <1>10, <1>12, <1>13, <1>14
     DEF Next, Thread, Destructor

-----------------------------------------------------------------------------
(* What the operations of the lists do *)

\* inotify_add_watch
LEMMA DescriptorOf ==
    ASSUME NEW d
    PROVE  IF WatchesOf(inode[d]) # {}
           THEN WatchDescriptor(d) \in DOMAIN watched /\ watched[WatchDescriptor(d)] = inode[d]
           ELSE WatchDescriptor(d) = given + 1
BY DEF WatchDescriptor, WatchesOf

LEMMA EventsTyped ==
    ASSUME NEW wd \in Nat
    PROVE  /\ SelfEvent(wd) \in Events
           /\ IgnoredEvent(wd) \in Events
           /\ AttribEvent(wd) \in Events
           /\ \A name \in FileName : FileEvent(wd, name) \in Events
           /\ \A other, name : SelfEvent(wd) # FileEvent(other, name)
           /\ \A other, name : IgnoredEvent(wd) # FileEvent(other, name)
           /\ \A other, name : AttribEvent(wd) # FileEvent(other, name)
           /\ \A other : IgnoredEvent(wd) # SelfEvent(other)
BY DEF Events, SelfEvent, IgnoredEvent, AttribEvent, FileEvent

\* FSWatch::remove erases one file, and its directory with the last of them.
LastOf(k) == \A j \in Files : m_file[j].dir_wd = m_file[k].dir_wd => j = k

LEMMA Erased ==
    ASSUME Typed, NEW k \in Files, SetLists(EraseFile(Lists, k))
    PROVE  /\ m_file' = RemoveAt(m_file, k)
           /\ ~LastOf(k) => UNCHANGED <<m_dir, watched, queue>>
           /\ LastOf(k) =>
                /\ \/ m_dir' = m_dir /\ \A i \in Dirs : m_dir[i].wd # m_file[k].dir_wd
                   \/ \E i \in Dirs : /\ m_dir[i].wd = m_file[k].dir_wd
                                      /\ \A j \in Dirs : m_dir[j].wd = m_file[k].dir_wd => i <= j
                                      /\ m_dir' = RemoveAt(m_dir, i)
                /\ watched' = WithoutWatch(watched, m_file[k].dir_wd)
                /\ queue' \in {queue, Append(queue, IgnoredEvent(m_file[k].dir_wd))}
<1> DEFINE wd == m_file[k].dir_wd
           file == RemoveAt(m_file, k)
           i == SelectInSeq(m_dir, LAMBDA d : d.wd = wd)
           dir == RemoveFirstMatch(m_dir, LAMBDA d : d.wd = wd)
           more == \E j \in DOMAIN file : file[j].dir_wd = wd
<1>typed. m_file \in Seq(FileRecord) /\ m_dir \in Seq(DirRecord)
  BY DEF Typed, WatchTyped
<1>1. /\ file \in Seq(FileRecord) /\ Len(file) = Len(m_file) - 1
      /\ \A j \in 1 .. Len(m_file) - 1 : file[j] = IF j < k THEN m_file[j] ELSE m_file[j + 1]
  BY <1>typed, RemoveAtProperties DEF Files
<1>2. more <=> ~LastOf(k)
  <2>1. DOMAIN file = 1 .. Len(m_file) - 1
    BY <1>1
  <2>2. ASSUME NEW j \in DOMAIN file, file[j].dir_wd = wd PROVE ~LastOf(k)
    <3>1. CASE j < k
      BY <1>typed, <1>1, <2>1, <2>2, <3>1 DEF LastOf, Files
    <3>2. CASE ~(j < k)
      BY <1>typed, <1>1, <2>1, <2>2, <3>2 DEF LastOf, Files
    <3>3. QED
      BY <3>1, <3>2
  <2>3. ASSUME NEW j \in Files, m_file[j].dir_wd = wd, j # k PROVE more
    <3>1. CASE j < k
      BY <1>typed, <1>1, <2>1, <2>3, <3>1 DEF Files
    <3>2. CASE j > k
      <4>1. j - 1 \in DOMAIN file /\ ~(j - 1 < k) /\ (j - 1) + 1 = j
        BY <1>typed, <2>1, <3>2 DEF Files
      <4>2. QED
        BY <1>1, <2>1, <2>3, <4>1
    <3>3. QED
      BY <1>typed, <2>3, <3>1, <3>2 DEF Files
  <2> HIDE DEF file, wd, more
  <2>4. QED
    BY <2>2, <2>3 DEF LastOf, wd, more
<1>3. EraseFile(Lists, k) =
          IF more THEN [Lists EXCEPT !.file = file]
          ELSE [file |-> file, dir |-> dir, watched |-> WithoutWatch(watched, wd),
                queue |-> IF wd \in DOMAIN watched THEN Append(queue, IgnoredEvent(wd)) ELSE queue]
  BY DEF EraseFile, Lists
<1>4. IsFirst(i, m_dir, {d \in DirRecord : d.wd = wd})
  BY <1>typed, WdIndexFirst
<1>5. dir = IF \E j \in 1..Len(m_dir) : m_dir[j].wd = wd THEN RemoveAt(m_dir, i) ELSE m_dir
  BY DEF RemoveFirstMatch
<1> HIDE DEF file, more, i, dir
<1>6. CASE more
  BY <1>2, <1>3, <1>6 DEF SetLists, Lists, file
<1>7. CASE ~more
  <2>1. /\ m_file' = file /\ m_dir' = dir /\ watched' = WithoutWatch(watched, wd)
        /\ queue' = IF wd \in DOMAIN watched THEN Append(queue, IgnoredEvent(wd)) ELSE queue
    BY <1>3, <1>7 DEF SetLists
  <2>2. \/ m_dir' = m_dir /\ \A j \in Dirs : m_dir[j].wd # wd
        \/ \E j \in Dirs : /\ m_dir[j].wd = wd
                           /\ \A h \in Dirs : m_dir[h].wd = wd => j <= h
                           /\ m_dir' = RemoveAt(m_dir, j)
    <3>1. CASE \E j \in 1..Len(m_dir) : m_dir[j].wd = wd
      <4>1. i \in Dirs /\ m_dir[i].wd = wd /\ \A h \in Dirs : m_dir[h].wd = wd => i <= h
        BY <1>typed, <1>4, <3>1 DEF IsFirst, Dirs
      <4>2. m_dir' = RemoveAt(m_dir, i)
        BY <1>5, <2>1, <3>1
      <4>3. QED
        BY <4>1, <4>2
    <3>2. CASE ~ \E j \in 1..Len(m_dir) : m_dir[j].wd = wd
      BY <1>5, <2>1, <3>2 DEF Dirs
    <3>3. QED
      BY <3>1, <3>2
  <2>3. QED
    BY <1>2, <1>7, <2>1, <2>2 DEF file
<1>8. QED
  BY <1>6, <1>7

\* The file which FSWatch::remove finds
LEMMA RemovedIndexOf ==
    ASSUME Typed, Known, NEW p \in [dir : DirName, name : FileName], NEW k, k = RemovedIndex(Lists, p)
    PROVE  /\ k = 0 \/ k \in Files
           /\ k # 0 => \E d \in Dirs : m_dir[d].name = p.dir /\ m_file[k].dir_wd = m_dir[d].wd
                                       /\ m_file[k].name = p.name
           /\ \A d \in Dirs, j \in Files :
                  m_dir[d].name = p.dir /\ m_file[j].dir_wd = m_dir[d].wd
                      /\ m_file[j].name = p.name => k # 0 /\ k <= j
<1> DEFINE d == DirIndex(m_dir, p.dir)
<1>typed. m_file \in Seq(FileRecord) /\ m_dir \in Seq(DirRecord)
  BY DEF Typed, WatchTyped
<1>1. IsFirst(d, m_dir, {x \in DirRecord : x.name = p.dir})
  BY <1>typed, DirIndexFirst
<1>2. k = IF d = 0 THEN 0 ELSE FileIndex(m_file, m_dir[d].wd, p.name)
  BY DEF RemovedIndex, Lists
<1> HIDE DEF d
<1>3. CASE d = 0
  BY <1>typed, <1>1, <1>2, <1>3 DEF IsFirst, Dirs
<1>4. CASE d # 0
  <2>1. d \in Dirs /\ m_dir[d].name = p.dir
    BY <1>typed, <1>1, <1>4 DEF IsFirst, Dirs
  <2>2. \A j \in Dirs : m_dir[j].name = p.dir => j = d
    BY <2>1 DEF Known
  <2>3. IsFirst(k, m_file, Named(m_dir[d].wd, p.name))
    BY <1>typed, <1>2, <1>4, FileIndexFirst
  <2>4. k = 0 \/ (k \in Files /\ m_file[k].dir_wd = m_dir[d].wd /\ m_file[k].name = p.name)
    BY <1>typed, <2>3 DEF IsFirst, Named, Files
  <2>5. \A j \in Files : m_file[j].dir_wd = m_dir[d].wd /\ m_file[j].name = p.name => k # 0 /\ k <= j
    BY <1>typed, <2>3 DEF IsFirst, Named, Files
  <2>6. QED
    <3>1. k # 0 => \E e \in Dirs : m_dir[e].name = p.dir /\ m_file[k].dir_wd = m_dir[e].wd
                                       /\ m_file[k].name = p.name
      BY <2>1, <2>4
    <3>2. \A e \in Dirs, j \in Files :
                  m_dir[e].name = p.dir /\ m_file[j].dir_wd = m_dir[e].wd
                      /\ m_file[j].name = p.name => k # 0 /\ k <= j
      BY <2>2, <2>5
    <3>3. QED
      BY <2>4, <3>1, <3>2
<1>5. QED
  BY <1>3, <1>4

\* Events on their way, as counts
LEMMA CountOfEvents ==
    ASSUME NEW s \in Seq(Events), NEW wd, NEW name
    PROVE  /\ CountOf(s, wd, name) = Count(s, {FileEvent(wd, name)})
           /\ CountOf(s, wd, name) \in Nat
<1>1. {i \in DOMAIN s : s[i] = FileEvent(wd, name)} = Matches(s, {FileEvent(wd, name)})
  BY DEF Matches
<1>2. CountOf(s, wd, name) = Count(s, {FileEvent(wd, name)})
  BY <1>1 DEF CountOf, Count
<1>3. QED
  BY <1>2, CountFinite

LEMMA PendingCount ==
    ASSUME batch \in Seq(Events), queue \in Seq(Events), NEW wd, NEW name
    PROVE  /\ Pending(wd, name) = Count(batch, {FileEvent(wd, name)})
                                      + Count(queue, {FileEvent(wd, name)})
           /\ Pending(wd, name) \in Nat
<1>1. CountOf(batch, wd, name) = Count(batch, {FileEvent(wd, name)}) /\ CountOf(batch, wd, name) \in Nat
  BY CountOfEvents
<1>2. CountOf(queue, wd, name) = Count(queue, {FileEvent(wd, name)}) /\ CountOf(queue, wd, name) \in Nat
  BY CountOfEvents
<1>3. Pending(wd, name) = CountOf(batch, wd, name) + CountOf(queue, wd, name)
  BY DEF Pending
<1>4. QED
  BY <1>1, <1>2, <1>3

LEMMA PendingCountNext ==
    ASSUME batch' \in Seq(Events), queue' \in Seq(Events), NEW wd, NEW name
    PROVE  Pending(wd, name)' = Count(batch', {FileEvent(wd, name)})
                                      + Count(queue', {FileEvent(wd, name)})
<1>1. CountOf(batch', wd, name) = Count(batch', {FileEvent(wd, name)})
  BY CountOfEvents
<1>2. CountOf(queue', wd, name) = Count(queue', {FileEvent(wd, name)})
  BY CountOfEvents
<1>3. Pending(wd, name)' = CountOf(batch', wd, name) + CountOf(queue', wd, name)
  BY DEF Pending
<1>4. QED
  BY <1>1, <1>2, <1>3

LEMMA SelfNotNone == \A wd \in Nat : SelfEvent(wd) # None
BY NamesAssumption, EventsTyped

-----------------------------------------------------------------------------
(* Types *)

LEMMA TypedInit == Init => Typed
<1> SUFFICES ASSUME Init PROVE Typed
  OBVIOUS
<1>1. KernelTyped
  <2>1. /\ inode = [d \in DirName |-> IF d = FirstDir THEN 0 ELSE None]
        /\ watched = <<>> /\ queue = <<>> /\ given = 0 /\ changes = 0
    BY DEF Init, KernelInit
  <2>2. inode \in [DirName -> 0..changes \cup {None}]
    BY <2>1
  <2>3. \A d, e \in DirName : inode[d] = inode[e] /\ inode[d] # None => d = e
    BY <2>1
  <2>4. DOMAIN watched = {}
    BY <2>1
  <2>5. queue \in Seq(Events)
    BY <2>1
  <2>6. QED
    BY <2>1, <2>2, <2>3, <2>4, <2>5, ChangesAssumption DEF KernelTyped
<1>2. WatchTyped
  BY WatchesAssumption DEF Init, WatchInit, WatchTyped, Files, Dirs
<1>3. HistoryTyped
  BY DEF Init, WatchInit, HistoryTyped
<1>4. QED
  BY <1>1, <1>2, <1>3 DEF Typed

\* The lists after one file was removed
LEMMA ErasedTyped ==
    ASSUME Typed, NEW k \in Files, SetLists(EraseFile(Lists, k)),
           UNCHANGED <<inode, given, changes>>
    PROVE  /\ KernelTyped'
           /\ m_file' \in Seq(FileRecord) /\ m_dir' \in Seq(DirRecord)
           /\ \A i \in 1..Len(m_file') : m_file'[i].id \in 1..added /\ m_file'[i].dir_wd \in 1..given
           /\ \A i \in 1..Len(m_dir') : m_dir'[i].wd \in 1..given
<1> USE DEF Typed, WatchTyped
<1> DEFINE wd == m_file[k].dir_wd
<1>1. wd \in 1..given /\ given \in Nat
  BY DEF KernelTyped
<1>2. ASSUME NEW T, NEW s \in Seq(T), NEW i \in 1..Len(s)
      PROVE  /\ RemoveAt(s, i) \in Seq(T)
             /\ \A j \in 1..Len(RemoveAt(s, i)) : \E h \in 1..Len(s) : RemoveAt(s, i)[j] = s[h]
  <2>1. /\ RemoveAt(s, i) \in Seq(T) /\ Len(RemoveAt(s, i)) = Len(s) - 1
        /\ \A j \in 1 .. Len(s) - 1 : RemoveAt(s, i)[j] = IF j < i THEN s[j] ELSE s[j + 1]
    BY RemoveAtProperties
  <2>2. \A j \in 1 .. Len(s) - 1 : j \in 1..Len(s) /\ j + 1 \in 1..Len(s)
    OBVIOUS
  <2> DEFINE r == RemoveAt(s, i)
  <2> HIDE DEF r
  <2>3. \A j \in 1..Len(r) : \E h \in 1..Len(s) : r[j] = s[h]
    BY <2>1, <2>2 DEF r
  <2>4. QED
    BY <2>1, <2>3 DEF r
<1>3. /\ m_file' \in Seq(FileRecord)
      /\ \A i \in 1..Len(m_file') : m_file'[i].id \in 1..added /\ m_file'[i].dir_wd \in 1..given
  BY <1>2, Erased DEF Files
<1>4. /\ m_dir' \in Seq(DirRecord)
      /\ \A i \in 1..Len(m_dir') : m_dir'[i].wd \in 1..given
  <2>1. m_dir' = m_dir \/ \E i \in Dirs : m_dir' = RemoveAt(m_dir, i)
    BY Erased
  <2>2. QED
    BY <1>2, <2>1 DEF Dirs
<1>5. KernelTyped'
  <2>1. watched' = watched \/ watched' = WithoutWatch(watched, wd)
    BY Erased
  <2>2. DOMAIN watched' \subseteq DOMAIN watched /\ \A x \in DOMAIN watched' : watched'[x] = watched[x]
    BY <2>1 DEF WithoutWatch
  <2>3. queue' \in Seq(Events)
    <3>1. IgnoredEvent(wd) \in Events /\ queue \in Seq(Events)
      BY <1>1, EventsTyped DEF KernelTyped
    <3>2. queue' \in {queue, Append(queue, IgnoredEvent(wd))}
      BY Erased
    <3>3. Append(queue, IgnoredEvent(wd)) \in Seq(Events)
      BY <3>1
    <3>4. QED
      BY <3>1, <3>2, <3>3
  <2>4. QED
    BY <2>2, <2>3 DEF KernelTyped
<1>6. QED
  BY <1>3, <1>4, <1>5

LEMMA AddTyped ==
    ASSUME Typed, NEW p \in Path, AddCalled(p)
    PROVE  Typed'
<1> DEFINE wd == m_file'[Len(m_file')].dir_wd
<1>typed. KernelTyped /\ WatchTyped /\ HistoryTyped /\ p.dir \in DirName /\ p.name \in FileName
  BY PathAssumption DEF Typed
<1>1. /\ added < MaxWatches
      /\ AddToKnown(p) \/ AddToNew(p)
      /\ UNCHANGED <<inode, queue, changes, batch, handling, calling, gone>>
  BY DEF AddCalled, AddWatch
<1>2. \E w \in 1..given' :
          m_file' = Append(m_file, [id |-> added + 1, dir_wd |-> w, name |-> p.name])
          /\ given' >= given /\ KernelTyped' /\ m_dir' \in Seq(DirRecord)
          /\ \A i \in 1..Len(m_dir') : m_dir'[i].wd \in 1..given'
  <2>1. CASE AddToKnown(p)
    <3> DEFINE i == DirIndex(m_dir, p.dir)
    <3>1. i \in 1..Len(m_dir)
      BY <1>typed, <2>1, DirIndexFirst DEF AddToKnown, WatchTyped, IsFirst
    <3>2. UNCHANGED kernelVars
      BY <1>1, <2>1 DEF AddToKnown, kernelVars
    <3>3. KernelTyped'
      BY <1>typed, <3>2 DEF KernelTyped, kernelVars
    <3>4. m_file' = Append(m_file, [id |-> added + 1, dir_wd |-> m_dir[i].wd, name |-> p.name])
          /\ UNCHANGED <<m_dir, given>> /\ m_dir[i].wd \in 1..given /\ given \in Nat
      BY <1>typed, <2>1, <3>1 DEF AddToKnown, AddFile, WatchTyped, Dirs, KernelTyped
    <3> HIDE DEF i
    <3>5. QED
      BY <1>typed, <3>3, <3>4 DEF WatchTyped, Dirs
  <2>2. CASE AddToNew(p)
    <3> DEFINE w == WatchDescriptor(p.dir)
    <3>1. /\ inode[p.dir] \in 0..changes
          /\ watched' = [x \in DOMAIN watched \cup {w} |->
                             IF x = w THEN inode[p.dir] ELSE watched[x]]
          /\ given' = IF w > given THEN w ELSE given
          /\ m_dir' = Append(m_dir, [wd |-> w, name |-> p.dir])
          /\ m_file' = Append(m_file, [id |-> added + 1, dir_wd |-> w, name |-> p.name])
      BY <1>typed, <2>2 DEF AddToNew, AddFile, InotifyAddWatch, KernelTyped
    <3>2. IF WatchesOf(inode[p.dir]) # {} THEN w \in DOMAIN watched /\ watched[w] = inode[p.dir]
          ELSE w = given + 1
      BY DescriptorOf
    <3> HIDE DEF w
    <3>3. w \in 1..given' /\ given' >= given /\ given' \in Nat
      BY <1>typed, <3>1, <3>2 DEF KernelTyped
    <3>4. \A x \in DOMAIN watched : x # w => watched[x] # inode[p.dir]
      BY <1>typed, <3>2 DEF KernelTyped, WatchesOf
    <3>5. KernelTyped'
      <4>1. DOMAIN watched' = DOMAIN watched \cup {w}
            /\ \A x \in DOMAIN watched' : watched'[x] = IF x = w THEN inode[p.dir] ELSE watched[x]
        BY <3>1
      <4>2. DOMAIN watched' \subseteq 1..given'
        BY <1>typed, <3>3, <4>1 DEF KernelTyped
      <4>3. \A x \in DOMAIN watched' : watched'[x] \in 0..changes
        BY <1>typed, <3>1, <4>1 DEF KernelTyped
      <4>4. \A x, y \in DOMAIN watched' : watched'[x] = watched'[y] => x = y
        <5>1. SUFFICES ASSUME NEW x \in DOMAIN watched', NEW y \in DOMAIN watched',
                              watched'[x] = watched'[y], x # y
                       PROVE  FALSE
          OBVIOUS
        <5>2. CASE x = w
          BY <3>4, <4>1, <5>1, <5>2
        <5>3. CASE y = w
          BY <3>4, <4>1, <5>1, <5>3
        <5>4. CASE x # w /\ y # w
          BY <1>typed, <4>1, <5>1, <5>4 DEF KernelTyped
        <5>5. QED
          BY <5>2, <5>3, <5>4
      <4>5. QED
        BY <1>1, <1>typed, <3>3, <4>2, <4>3, <4>4 DEF KernelTyped
    <3>6. /\ m_dir' \in Seq(DirRecord)
          /\ \A i \in 1..Len(m_dir') : m_dir'[i].wd \in 1..given'
      <4>1. m_dir \in Seq(DirRecord) /\ \A i \in 1..Len(m_dir) : m_dir[i].wd \in 1..given'
        BY <1>typed, <3>3 DEF WatchTyped, Dirs, KernelTyped
      <4>2. [wd |-> w, name |-> p.dir] \in DirRecord
        BY <1>typed, <3>3 DEF DirRecord
      <4>3. QED
        BY <3>1, <3>3, <4>1, <4>2
    <3>7. QED
      BY <3>1, <3>3, <3>5, <3>6
  <2>3. QED
    BY <1>1, <2>1, <2>2
<1>3. PICK w \in 1..given' :
          m_file' = Append(m_file, [id |-> added + 1, dir_wd |-> w, name |-> p.name])
          /\ given' >= given /\ KernelTyped' /\ m_dir' \in Seq(DirRecord)
          /\ \A i \in 1..Len(m_dir') : m_dir'[i].wd \in 1..given'
  BY <1>2
<1>4. added' = added + 1 /\ added' \in 0..MaxWatches /\ added' \in Watch
  BY <1>1, <1>typed, WatchesAssumption DEF AddToKnown, AddToNew, AddFile, WatchTyped, Watch
<1>5. WatchTyped'
  <2>1. [id |-> added + 1, dir_wd |-> w, name |-> p.name] \in FileRecord
    BY <1>3, <1>4, <1>typed DEF FileRecord, KernelTyped
  <2>2. m_file' \in Seq(FileRecord)
    BY <1>3, <1>typed, <2>1 DEF WatchTyped
  <2>3. \A i \in 1..Len(m_file') : m_file'[i].id \in 1..added' /\ m_file'[i].dir_wd \in 1..given'
    <3>1. \A i \in 1..Len(m_file) : m_file[i].id \in 1..added' /\ m_file[i].dir_wd \in 1..given'
      <4>1. given \in Nat /\ added \in Nat /\ given' \in Nat
        BY <1>3, <1>typed DEF KernelTyped, WatchTyped
      <4>2. \A i \in 1..Len(m_file) : m_file[i].id \in 1..added /\ m_file[i].dir_wd \in 1..given
        BY <1>typed DEF WatchTyped, Files
      <4>3. 1..given \subseteq 1..given' /\ 1..added \subseteq 1..added'
        BY <1>3, <1>4, <4>1
      <4>4. QED
        BY <4>2, <4>3
    <3>2. m_file \in Seq(FileRecord) /\ added + 1 \in 1..added'
      BY <1>4, <1>typed DEF WatchTyped
    <3>3. QED
      BY <1>3, <2>1, <3>1, <3>2
  <2>4. calling' \in 0..added'
    BY <1>1, <1>4, <1>typed DEF WatchTyped
  <2>5. QED
    BY <1>1, <1>3, <1>4, <1>typed, <2>2, <2>3, <2>4 DEF WatchTyped, Files, Dirs
<1>6. HistoryTyped'
  <2>1. /\ path' = [path EXCEPT ![added'] = p]
        /\ \E n : raised' = [raised EXCEPT ![added'] = n] /\ n \in Nat
        /\ UNCHANGED <<heard, stopped>>
    <3>1. Pending(wd, p.name) \in Nat
      BY <1>typed, PendingCount, Zenon DEF KernelTyped, WatchTyped
    <3>2. QED
      BY <3>1 DEF AddCalled
  <2>2. shared' \subseteq 1..added'
    <3>1. \A i \in 1..Len(m_file') : m_file'[i].id \in 1..added'
      BY <1>5 DEF WatchTyped, Files
    <3>2. DOMAIN m_file' = 1..Len(m_file')
      BY <1>5 DEF WatchTyped
    <3> DEFINE twins == {f.id : f \in {m_file'[i] : i \in
                       {j \in DOMAIN m_file' : m_file'[j].dir_wd = wd /\ m_file'[j].name = p.name}}}
    <3>3. twins \subseteq 1..added'
      BY <3>1, <3>2
    <3>4. shared' = shared \/ shared' = shared \cup twins
      BY DEF AddCalled
    <3> HIDE DEF twins
    <3>5. shared \subseteq 1..added'
      BY <1>4, <1>typed DEF HistoryTyped, WatchTyped
    <3>6. QED
      BY <3>3, <3>4, <3>5
  <2>3. path' \in [Watch -> Path \cup {None}] /\ raised' \in [Watch -> Nat]
    BY <1>4, <1>typed, <2>1 DEF HistoryTyped
  <2>4. stopped' \subseteq 1..added' /\ \A id \in Watch : id > added' => heard'[id] = 0
    BY <1>4, <1>typed, <2>1 DEF HistoryTyped, WatchTyped, Watch
  <2>5. QED
    BY <1>typed, <2>1, <2>2, <2>3, <2>4 DEF HistoryTyped
<1>7. QED
  BY <1>3, <1>5, <1>6 DEF Typed

\* What other programs do to the file system
LEMMA ChangeTyped ==
    ASSUME Typed, \/ \E p \in Path : ChangeFile(p)
                  \/ \E p \in Path : RepeatChange(p)
                  \/ \E d \in DirName : ChangeDir(d)
    PROVE  Typed'
<1>typed. KernelTyped /\ WatchTyped /\ HistoryTyped
  BY DEF Typed
<1>1. UNCHANGED <<watchVars, path, heard, stopped, shared>> /\ raised' \in [Watch -> Nat] /\ UNCHANGED given
  <2>1. CASE \E p \in Path : ChangeFile(p)
    <3>1. PICK p \in Path : ChangeFile(p)
      BY <2>1
    <3>2. raised' = [id \in Watch |-> IF id \in Registered /\ path[id] = p
                                      THEN raised[id] + 1 ELSE raised[id]]
      BY <3>1 DEF ChangeFile
    <3>3. raised' \in [Watch -> Nat]
      BY <1>typed, <3>2 DEF HistoryTyped
    <3>4. QED
      BY <3>1, <3>3 DEF ChangeFile, Touch
  <2>2. CASE \E d \in DirName : ChangeDir(d)
    BY <1>typed, <2>2
       DEF ChangeDir, RemoveDir, MakeDir, MoveDir, ChangeAttributes, HistoryTyped, history
  <2>3. CASE \E p \in Path : RepeatChange(p)
    BY <1>typed, <2>3 DEF RepeatChange, TouchAgain, HistoryTyped, history
  <2>4. QED
    BY <2>1, <2>2, <2>3
<1>2. WatchTyped' /\ HistoryTyped'
  BY <1>1, <1>typed DEF WatchTyped, HistoryTyped, watchVars, Files, Dirs
<1>new. \A d \in DirName : WatchesOf(inode[d]) # {} =>
            WatchDescriptor(d) \in DOMAIN watched /\ WatchDescriptor(d) \in Nat
  <2>1. DOMAIN watched \subseteq Nat
    BY <1>typed DEF KernelTyped
  <2>2. QED
    BY <2>1, DescriptorOf, Zenon
<1>3. CASE \E p \in Path : ChangeFile(p)
  <2>1. PICK p \in Path : Touch(p.dir, p.name)
    BY <1>3 DEF ChangeFile
  <2>2. p.dir \in DirName /\ p.name \in FileName
    BY PathAssumption
  <2>3. queue' \in Seq(Events)
    <3>1. queue \in Seq(Events)
      BY <1>typed DEF KernelTyped
    <3>2. WatchesOf(inode[p.dir]) # {} => FileEvent(WatchDescriptor(p.dir), p.name) \in Events
      BY <1>new, <2>2, EventsTyped
    <3>3. QED
      BY <2>1, <3>1, <3>2 DEF Touch
  <2>4. changes' \in 0..MaxChanges /\ changes' = changes + 1 /\ UNCHANGED <<inode, watched, given>>
    BY <1>typed, <2>1, ChangesAssumption DEF Touch, KernelTyped
  <2>5. KernelTyped'
    <3>1. changes \in Nat
      BY <1>typed DEF KernelTyped
    <3>2. 0..changes \subseteq 0..changes'
      BY <2>4, <3>1
    <3>3. inode' \in [DirName -> 0..changes' \cup {None}]
      BY <1>typed, <2>4, <3>2 DEF KernelTyped
    <3>4. \A wd \in DOMAIN watched' : watched'[wd] \in 0..changes'
      BY <1>typed, <2>4, <3>2 DEF KernelTyped
    <3>5. QED
      BY <1>typed, <2>3, <2>4, <3>3, <3>4 DEF KernelTyped
  <2>6. QED
    BY <1>2, <2>5 DEF Typed
<1>4. CASE \E d \in DirName : ChangeDir(d)
  <2>1. PICK d \in DirName : \/ RemoveDir(d) \/ MakeDir(d) \/ ChangeAttributes(d)
                             \/ \E e \in DirName : MoveDir(d, e)
    BY <1>4 DEF ChangeDir
  <2>2. changes' \in 0..MaxChanges /\ changes' = changes + 1 /\ changes \in Nat
        /\ 0..changes \subseteq 0..changes' /\ changes' \in 0..changes' /\ changes' \notin 0..changes
    <3>1. changes < MaxChanges /\ changes' = changes + 1 /\ changes \in Nat
      BY <1>typed, <2>1 DEF RemoveDir, MakeDir, MoveDir, ChangeAttributes, KernelTyped
    <3>2. QED
      BY <3>1, ChangesAssumption
  <2>none. None \notin Nat
    BY NamesAssumption
  <2>3. inode' \in [DirName -> 0..changes' \cup {None}]
        /\ \A a, b \in DirName : inode'[a] = inode'[b] /\ inode'[a] # None => a = b
    <3>1. CASE RemoveDir(d)
      <4>1. inode' = [inode EXCEPT ![d] = None]
        BY <3>1 DEF RemoveDir
      <4>2. QED
        BY <1>typed, <2>2, <4>1 DEF KernelTyped
    <3>2. CASE MakeDir(d)
      <4>1. inode' = [inode EXCEPT ![d] = changes']
        BY <2>2, <3>2 DEF MakeDir
      <4>2. \A a \in DirName : inode[a] # changes'
        BY <1>typed, <2>2, <2>none DEF KernelTyped
      <4>3. QED
        BY <1>typed, <2>2, <4>1, <4>2 DEF KernelTyped
    <3>3. CASE \E e \in DirName : MoveDir(d, e)
      <4>1. PICK e \in DirName : inode[d] # None /\ inode[e] = None
                                 /\ inode' = [inode EXCEPT ![d] = None, ![e] = inode[d]]
        BY <3>3 DEF MoveDir
      <4>2. \A a \in DirName : inode'[a] = IF a = e THEN inode[d] ELSE IF a = d THEN None ELSE inode[a]
        BY <1>typed, <4>1 DEF KernelTyped
      <4>3. inode' \in [DirName -> 0..changes' \cup {None}]
        BY <1>typed, <2>2, <4>1 DEF KernelTyped
      <4>4. \A a, b \in DirName : inode'[a] = inode'[b] /\ inode'[a] # None => a = b
        BY <1>typed, <4>1, <4>2 DEF KernelTyped
      <4>5. QED
        BY <4>3, <4>4
    <3>4. CASE ChangeAttributes(d)
      BY <1>typed, <2>2, <3>4 DEF ChangeAttributes, KernelTyped
    <3>5. QED
      BY <2>1, <3>1, <3>2, <3>3, <3>4
  <2>4. DOMAIN watched' \subseteq DOMAIN watched /\ \A x \in DOMAIN watched' : watched'[x] = watched[x]
    BY <2>1 DEF RemoveDir, MakeDir, MoveDir, ChangeAttributes, WithoutWatch
  <2>5. queue' \in Seq(Events)
    <3>1. queue \in Seq(Events)
      BY <1>typed DEF KernelTyped
    <3> DEFINE wd == WatchDescriptor(d)
    <3>2. WatchesOf(inode[d]) # {} => /\ SelfEvent(wd) \in Events /\ IgnoredEvent(wd) \in Events
                                      /\ AttribEvent(wd) \in Events
      BY <1>new, EventsTyped
    <3>3. \/ queue' = queue
          \/ WatchesOf(inode[d]) # {} /\ queue' = Append(queue, SelfEvent(wd))
          \/ WatchesOf(inode[d]) # {} /\ queue' = queue \o <<SelfEvent(wd), IgnoredEvent(wd)>>
          \/ WatchesOf(inode[d]) # {} /\ queue' = Append(queue, AttribEvent(wd))
      BY <2>1 DEF RemoveDir, MakeDir, MoveDir, ChangeAttributes, Queued
    <3> HIDE DEF wd
    <3>4. CASE queue' = queue
      BY <3>1, <3>4
    <3>5. CASE WatchesOf(inode[d]) # {} /\ queue' = Append(queue, SelfEvent(wd))
      BY <3>1, <3>2, <3>5
    <3>6. CASE WatchesOf(inode[d]) # {} /\ queue' = queue \o <<SelfEvent(wd), IgnoredEvent(wd)>>
      <4>1. <<SelfEvent(wd), IgnoredEvent(wd)>> \in Seq(Events)
        BY <3>2, <3>6
      <4>2. QED
        BY <3>1, <3>6, <4>1
    <3>7. CASE WatchesOf(inode[d]) # {} /\ queue' = Append(queue, AttribEvent(wd))
      BY <3>1, <3>2, <3>7
    <3>8. QED
      BY <3>3, <3>4, <3>5, <3>6, <3>7
  <2>6. KernelTyped'
    <3>1. DOMAIN watched' \subseteq 1..given
      BY <1>typed, <2>4 DEF KernelTyped
    <3>2. \A wd \in DOMAIN watched' : watched'[wd] \in 0..changes'
      BY <1>typed, <2>2, <2>4 DEF KernelTyped
    <3>3. \A wd, other \in DOMAIN watched' : watched'[wd] = watched'[other] => wd = other
      BY <1>typed, <2>4 DEF KernelTyped
    <3>4. QED
      BY <1>1, <1>typed, <2>2, <2>3, <2>5, <3>1, <3>2, <3>3 DEF KernelTyped
  <2>7. QED
    BY <1>2, <2>6 DEF Typed
<1>5. CASE \E p \in Path : RepeatChange(p)
  <2>1. /\ changes' = changes + 1 /\ changes < MaxChanges
        /\ UNCHANGED <<inode, watched, queue, given>>
    BY <1>5 DEF RepeatChange, TouchAgain
  <2>2. changes' \in 0..MaxChanges /\ 0..changes \subseteq 0..changes'
    BY <1>typed, <2>1, ChangesAssumption DEF KernelTyped
  <2>3. KernelTyped'
    BY <1>typed, <2>1, <2>2 DEF KernelTyped
  <2>4. QED
    BY <1>2, <2>3 DEF Typed
<1>6. QED
  BY <1>3, <1>4, <1>5

\* What a callback may be called with
LEMMA FirstCalledOf ==
    ASSUME Typed, NEW ev \in Events, NEW name
    PROVE  LET k == FirstCalled(ev, name)
           IN  /\ k = 0 \/ k \in Files
               /\ k # 0 => /\ KnownWd(ev.wd)
                           /\ m_file[k].dir_wd = ev.wd
                           /\ ev.kind = "self" \/ (ev.kind \in {"file", "attrib"} /\ m_file[k].name = name)
               /\ \A j \in Files :
                      /\ KnownWd(ev.wd)
                      /\ m_file[j].dir_wd = ev.wd
                      /\ ev.kind = "self" \/ (ev.kind \in {"file", "attrib"} /\ m_file[j].name = name)
                      => k # 0 /\ k <= j
<1> DEFINE self == SelectInSeq(m_file, LAMBDA f : f.dir_wd = ev.wd)
           file == FileIndex(m_file, ev.wd, name)
           k == FirstCalled(ev, name)
<1>typed. m_file \in Seq(FileRecord)
  BY DEF Typed, WatchTyped
<1>1. IsFirst(file, m_file, Named(ev.wd, name))
  BY <1>typed, FileIndexFirst
<1>2. IsFirst(self, m_file, {f \in FileRecord : f.dir_wd = ev.wd})
  BY <1>typed, FileOfWdFirst
<1>3. k = IF ~KnownWd(ev.wd) THEN 0
          ELSE IF ev.kind \in {"file", "attrib"} THEN file ELSE IF ev.kind = "self" THEN self ELSE 0
  BY DEF FirstCalled, Events
<1> HIDE DEF self, file, k
<1>4. CASE ~KnownWd(ev.wd) \/ ev.kind \notin {"file", "attrib", "self"}
  BY <1>3, <1>4 DEF k
<1>5. CASE KnownWd(ev.wd) /\ ev.kind \in {"file", "attrib"}
  <2>1. k = file
    BY <1>3, <1>5
  <2>2. QED
    BY <1>typed, <1>1, <1>5, <2>1 DEF IsFirst, Named, Files, k
<1>6. CASE KnownWd(ev.wd) /\ ev.kind = "self"
  <2>1. k = self
    BY <1>3, <1>6
  <2>2. QED
    BY <1>typed, <1>2, <1>6, <2>1 DEF IsFirst, Files, k
<1>7. QED
  BY <1>4, <1>5, <1>6

\* The registration whose callback runs, its path and what follows it
LEMMA CalledFacts ==
    ASSUME Typed, Known, CallbackRuns, calling # 0
    PROVE  \E i \in Files, d \in Dirs :
               /\ m_file[i].id = calling /\ m_file[i].dir_wd = handling.wd
               /\ FileOf(calling) = m_file[i]
               /\ m_dir[d].wd = handling.wd
               /\ \A e \in Dirs : m_dir[e].wd = handling.wd => d <= e
               /\ PathOfCalled = [dir |-> m_dir[d].name, name |-> m_file[i].name]
               /\ Remaining = {j \in i + 1 .. Len(m_file) : m_file[j].dir_wd = handling.wd}
               /\ Remaining # {} => /\ Min1(Remaining) \in Remaining
                                    /\ \A j \in Remaining : Min1(Remaining) <= j
<1>typed. m_file \in Seq(FileRecord) /\ m_dir \in Seq(DirRecord)
  BY DEF Typed, WatchTyped
<1>1. PICK i \in Files : m_file[i].id = calling /\ m_file[i].dir_wd = handling.wd
  BY DEF CallbackRuns
<1> DEFINE at == SelectInSeq(m_file, LAMBDA f : f.id = calling)
           d == SelectInSeq(m_dir, LAMBDA x : x.wd = handling.wd)
<1>2. at = i
  <2>1. SelectInSeq(m_file, LAMBDA f : f.id = m_file[i].id) = i
    BY <1>typed, FileOfRegistered DEF Known
  <2>2. QED
    BY <1>1, <2>1
<1>3. FileOf(calling) = m_file[i]
  BY <1>2 DEF FileOf
<1>4. IsFirst(d, m_dir, {x \in DirRecord : x.wd = handling.wd})
  BY <1>typed, WdIndexFirst
<1> HIDE DEF d, at
<1>5. d \in Dirs /\ m_dir[d].wd = handling.wd /\ \A e \in Dirs : m_dir[e].wd = handling.wd => d <= e
  <2>1. \E j \in Dirs : m_dir[j].wd = handling.wd
    BY <1>1 DEF Known
  <2>2. QED
    BY <1>typed, <1>4, <2>1 DEF IsFirst, Dirs
<1>6. PathOfCalled = [dir |-> m_dir[d].name, name |-> m_file[i].name]
  BY <1>3 DEF PathOfCalled, d
<1>7. Remaining = {j \in i + 1 .. Len(m_file) : m_file[j].dir_wd = handling.wd}
  BY <1>2 DEF Remaining, at
<1>8. Remaining # {} => /\ Min1(Remaining) \in Remaining
                        /\ \A j \in Remaining : Min1(Remaining) <= j
  <2>1. Remaining \in SUBSET Nat
    <3>1. i \in Nat /\ Len(m_file) \in Nat
      BY <1>typed DEF Files
    <3>2. QED
      BY <1>7, <3>1
  <2>2. SUFFICES ASSUME Remaining # {}
                 PROVE  \E i0 \in Remaining : \A j \in Remaining : i0 <= j
    BY DEF Min1
  <2>3. QED
    BY <2>1, <2>2, LeastOf
<1>9. QED
  BY <1>1, <1>3, <1>5, <1>6, <1>7, <1>8

\* Steps of the thread which handle events
LEMMA HandleTyped ==
    ASSUME Typed, ListsKept, Handle
    PROVE  Typed'
<1>typed. KernelTyped /\ WatchTyped /\ HistoryTyped /\ Known /\ CallbackRuns
  BY DEF Typed, ListsKept
<1>1. /\ calling' \in 0..added /\ UNCHANGED added /\ handling' \in Events \cup {None}
      /\ KernelTyped'
      /\ m_file' \in Seq(FileRecord) /\ m_dir' \in Seq(DirRecord)
      /\ batch' \in Seq(Events) /\ gone' \in Seq([dir : DirName, name : FileName])
      /\ \A i \in 1..Len(m_file') : m_file'[i].id \in 1..added /\ m_file'[i].dir_wd \in 1..given'
      /\ \A i \in 1..Len(m_dir') : m_dir'[i].wd \in 1..given'
  <2>1. ASSUME UNCHANGED kernelVars PROVE KernelTyped' /\ UNCHANGED given
    BY <1>typed, <2>1 DEF KernelTyped, kernelVars
  <2>2. /\ m_file \in Seq(FileRecord) /\ m_dir \in Seq(DirRecord)
        /\ \A i \in 1..Len(m_file) : m_file[i].id \in 1..added /\ m_file[i].dir_wd \in 1..given
        /\ \A i \in 1..Len(m_dir) : m_dir[i].wd \in 1..given
        /\ calling \in 0..added /\ added \in Nat /\ handling \in Events \cup {None}
        /\ batch \in Seq(Events) /\ gone \in Seq([dir : DirName, name : FileName])
    BY <1>typed DEF WatchTyped, Files, Dirs
  <2>3. batch # <<>> => Head(batch) \in Events /\ Tail(batch) \in Seq(Events)
    BY <2>2
  <2>4. CASE HandleEvent
    <3>name. PICK name : LET k == FirstCalled(Head(batch), name)
                         IN  k # 0 /\ calling' = m_file[k].id
      BY <2>4 DEF HandleEvent
    <3> DEFINE k == FirstCalled(Head(batch), name)
    <3>1. /\ batch # <<>> /\ k # 0 /\ handling' = Head(batch) /\ calling' = m_file[k].id
          /\ batch' = Tail(batch) /\ gone' = <<>> /\ UNCHANGED kernelVars
          /\ UNCHANGED <<m_file, m_dir, added>>
      BY <2>4, <3>name DEF HandleEvent
    <3>2. k \in Files
      BY <2>3, <3>1, FirstCalledOf
    <3> HIDE DEF k
    <3>3. calling' \in 0..added
      BY <2>2, <3>1, <3>2 DEF Files
    <3>4. gone' \in Seq([dir : DirName, name : FileName])
      BY <3>1
    <3>5. QED
      BY <2>1, <2>2, <2>3, <3>1, <3>3, <3>4
  <2>5. CASE SkipEvent
    BY <2>1, <2>2, <2>3, <2>5 DEF SkipEvent
  <2>6. CASE FileCallbackReturns
    BY <2>1, <2>2, <2>6 DEF FileCallbackReturns
  <2>7. CASE StoppedReturns
    <3>1. PICK i \in Files, d \in Dirs :
               /\ PathOfCalled = [dir |-> m_dir[d].name, name |-> m_file[i].name]
               /\ Remaining = {j \in i + 1 .. Len(m_file) : m_file[j].dir_wd = handling.wd}
               /\ Remaining # {} => Min1(Remaining) \in Remaining
      BY <1>typed, <2>7, CalledFacts DEF StoppedReturns
    <3>2. PathOfCalled \in [dir : DirName, name : FileName]
      <4>1. m_dir[d] \in DirRecord /\ m_file[i] \in FileRecord
        BY <2>2 DEF Files, Dirs
      <4>2. m_dir[d].name \in DirName /\ m_file[i].name \in FileName
        BY <4>1 DEF FileRecord, DirRecord
      <4>3. QED
        BY <3>1, <4>2
    <3>3. gone' \in Seq([dir : DirName, name : FileName])
      BY <2>2, <2>7, <3>2 DEF StoppedReturns
    <3>4. calling' \in 0..added
      <4>1. CASE Remaining = {}
        BY <2>2, <2>7, <4>1 DEF StoppedReturns
      <4>2. CASE Remaining # {}
        <5>1. Min1(Remaining) \in 1..Len(m_file)
          BY <2>2, <3>1, <4>2 DEF Files
        <5>2. calling' = m_file[Min1(Remaining)].id
          BY <2>7, <4>2 DEF StoppedReturns
        <5>3. QED
          BY <2>2, <5>1, <5>2
      <4>3. QED
        BY <4>1, <4>2
    <3>5. QED
      BY <2>1, <2>2, <2>7, <3>3, <3>4 DEF StoppedReturns
  <2>8. CASE RemoveGone
    <3>1. /\ gone # <<>> /\ SetLists(RemovePath(Lists, Head(gone))) /\ gone' = Tail(gone)
          /\ handling' = IF Tail(gone) = <<>> THEN None ELSE handling
          /\ UNCHANGED <<inode, given, changes, batch, calling, added>>
      BY <2>8 DEF RemoveGone
    <3>2. Head(gone) \in [dir : DirName, name : FileName]
          /\ gone' \in Seq([dir : DirName, name : FileName])
      BY <2>2, <3>1, RangeFacts
    <3> DEFINE k == RemovedIndex(Lists, Head(gone))
    <3>3. k = 0 \/ k \in Files
      BY <1>typed, <3>2, RemovedIndexOf
    <3>4. CASE k = 0
      <4>1. UNCHANGED <<m_file, m_dir, watched, queue>>
        BY <3>1, <3>4 DEF RemovePath, SetLists, Lists
      <4>2. QED
        BY <2>1, <2>2, <3>1, <3>2, <4>1 DEF kernelVars
    <3>5. CASE k \in Files
      <4>1. SetLists(EraseFile(Lists, k))
        <5>1. k # 0
          BY <3>5 DEF Files
        <5>2. QED
          BY <3>1, <5>1 DEF RemovePath
      <4> HIDE DEF k
      <4>2. QED
        BY <2>2, <3>1, <3>2, <3>5, <4>1, ErasedTyped
    <3>6. QED
      BY <3>3, <3>4, <3>5
  <2>9. QED
    BY <2>4, <2>5, <2>6, <2>7, <2>8 DEF Handle
<1>2. WatchTyped'
  BY <1>1, <1>typed DEF WatchTyped, Files, Dirs
<1>3. HistoryTyped'
  <2>1. calling' # 0 => calling' \in 1..added /\ calling' \in Watch
    BY <1>1, <1>typed, WatchesAssumption DEF WatchTyped, Watch
  <2>2. stopped' = stopped \/ (calling' # 0 /\ stopped' = stopped \cup {calling'})
    BY DEF Handle, Called
  <2>3. heard' = heard \/ (calling' # 0 /\ heard' = [heard EXCEPT ![calling'] = @ + 1])
    BY DEF Handle, Called
  <2>4. stopped' \subseteq 1..added'
    BY <1>1, <1>typed, <2>1, <2>2 DEF HistoryTyped
  <2>5. heard' \in [Watch -> Nat] /\ \A id \in Watch : id > added' => heard'[id] = 0
    <3>1. CASE heard' = heard
      BY <1>1, <1>typed, <3>1 DEF HistoryTyped
    <3>2. CASE calling' # 0 /\ heard' = [heard EXCEPT ![calling'] = @ + 1]
      <4>1. heard \in [Watch -> Nat] /\ \A id \in Watch : id > added => heard[id] = 0
        BY <1>typed DEF HistoryTyped
      <4>2. heard' \in [Watch -> Nat] /\ \A id \in Watch : id # calling' => heard'[id] = heard[id]
        BY <2>1, <3>2, <4>1
      <4>3. \A id \in Watch : id > added => id # calling'
        BY <1>1, <1>typed DEF Watch, WatchTyped
      <4>4. QED
        BY <1>1, <4>1, <4>2, <4>3
    <3>3. QED
      BY <2>3, <3>1, <3>2
  <2>6. QED
    BY <1>1, <1>typed, <2>4, <2>5 DEF HistoryTyped, Handle
<1>4. QED
  BY <1>1, <1>2, <1>3 DEF Typed

LEMMA TypedStep ==
    ASSUME IInv, [Next]_vars
    PROVE  Typed'
<1>typed. Typed /\ KernelTyped /\ WatchTyped /\ HistoryTyped
  BY DEF IInv, Typed
<1>1. ASSUME UNCHANGED <<kernelVars, watchVars, history>> PROVE Typed'
  BY <1>typed, <1>1
     DEF Typed, KernelTyped, WatchTyped, HistoryTyped, kernelVars, watchVars, history, Files, Dirs
<1>2. CASE NotifyFS
  <2>1. PICK n \in 1..Len(queue) : batch' = SubSeq(queue, 1, n) /\ queue' = SubSeq(queue, n + 1, Len(queue))
    BY <1>2 DEF NotifyFS, ReadEvents
  <2>2. batch' \in Seq(Events) /\ queue' \in Seq(Events)
    BY <1>typed, <2>1 DEF KernelTyped
  <2>3. UNCHANGED <<inode, watched, given, changes, m_file, m_dir, handling, calling, gone, added, history>>
    BY <1>2 DEF NotifyFS, ReadEvents
  <2>4. KernelTyped'
    BY <1>typed, <2>2, <2>3 DEF KernelTyped
  <2>5. WatchTyped' /\ HistoryTyped'
    BY <1>typed, <2>2, <2>3 DEF WatchTyped, HistoryTyped, history, Files, Dirs
  <2>6. QED
    BY <2>4, <2>5 DEF Typed
<1>3. CASE Handle
  BY <1>typed, <1>3, HandleTyped DEF Handle, IInv
<1>4. CASE DestroyFSWatch
  <2>1. /\ queue' = <<>> /\ watched' = <<>> /\ m_file' = <<>> /\ m_dir' = <<>>
        /\ path' = [id \in Watch |-> None] /\ raised' = [id \in Watch |-> 0] /\ shared' = {}
        /\ UNCHANGED <<inode, given, changes, batch, handling, calling, gone, added, heard, stopped>>
    BY <1>4 DEF DestroyFSWatch
  <2>2. KernelTyped'
    <3>1. DOMAIN watched' = {} /\ queue' \in Seq(Events)
      BY <2>1
    <3>2. QED
      BY <1>typed, <2>1, <3>1 DEF KernelTyped
  <2>3. WatchTyped'
    <3>1. m_file' \in Seq(FileRecord) /\ m_dir' \in Seq(DirRecord) /\ Len(m_file') = 0 /\ Len(m_dir') = 0
      BY <2>1
    <3>2. QED
      BY <1>typed, <2>1, <3>1 DEF WatchTyped, Files, Dirs
  <2>4. HistoryTyped'
    BY <1>typed, <2>1 DEF HistoryTyped
  <2>5. QED
    BY <2>2, <2>3, <2>4 DEF Typed
<1>5. ASSUME NEW p \in Path, AddCalled(p) PROVE Typed'
  BY <1>typed, <1>5, AddTyped
<1>6. ASSUME NEW p \in Path, RemoveCalled(p) PROVE Typed'
  <2> DEFINE k == RemovedIndex(Lists, p)
  <2>1. Known /\ p \in [dir : DirName, name : FileName]
    BY <1>6, PathAssumption DEF RemoveCalled, MayCall, IInv, ListsKept
  <2>2. k # 0 /\ k \in Files
    BY <1>typed, <1>6, <2>1, RemovedIndexOf DEF RemoveCalled, RemoveWatch
  <2>3. SetLists(EraseFile(Lists, k))
    BY <1>6, <2>2 DEF RemoveCalled, RemoveWatch, RemovePath
  <2>4. UNCHANGED <<inode, given, changes, batch, handling, calling, gone, added, history>>
    BY <1>6 DEF RemoveCalled, RemoveWatch
  <2> HIDE DEF k
  <2>5. /\ KernelTyped'
        /\ m_file' \in Seq(FileRecord) /\ m_dir' \in Seq(DirRecord)
        /\ \A i \in 1..Len(m_file') : m_file'[i].id \in 1..added /\ m_file'[i].dir_wd \in 1..given
        /\ \A i \in 1..Len(m_dir') : m_dir'[i].wd \in 1..given
    BY <1>typed, <2>2, <2>3, <2>4, ErasedTyped
  <2>6. WatchTyped'
    BY <1>typed, <2>4, <2>5 DEF WatchTyped, Files, Dirs
  <2>7. HistoryTyped'
    BY <1>typed, <2>4 DEF HistoryTyped, history
  <2>8. QED
    BY <2>5, <2>6, <2>7 DEF Typed
<1>7. ASSUME NEW p \in Path, ChangeFile(p) \/ RepeatChange(p) PROVE Typed'
  BY <1>typed, <1>7, ChangeTyped
<1>8. ASSUME NEW d \in DirName, ChangeDir(d) PROVE Typed'
  BY <1>typed, <1>8, ChangeTyped
<1>9. CASE EpollWait \/ Exit \/ NotifyQuit \/ NotifiedAll \/ UseDestroyed
  BY <1>1, <1>9 DEF EpollWait, Exit, NotifyQuit, NotifiedAll, UseDestroyed
<1>10. CASE Destructor \/ Terminated \/ UNCHANGED vars
  BY <1>1, <1>10 DEF Destructor, Fire, Join, Terminated, vars
<1>11. QED
  BY <1>2, <1>3, <1>4, <1>5, <1>6, <1>7, <1>8, <1>9, <1>10 DEF Next, Thread

-----------------------------------------------------------------------------
(* Counting in a prefix *)

LEMMA CountPrefix ==
    ASSUME NEW T, NEW s \in Seq(T), NEW S, NEW m \in 0..Len(s), NEW n \in m..Len(s)
    PROVE  /\ Count(SubSeq(s, 1, m), S) <= Count(SubSeq(s, 1, n), S)
           /\ (\A j \in m + 1 .. n : s[j] \notin S) =>
                  Count(SubSeq(s, 1, n), S) = Count(SubSeq(s, 1, m), S)
           /\ n = m + 1 => Count(SubSeq(s, 1, n), S)
                               = Count(SubSeq(s, 1, m), S) + IF s[n] \in S THEN 1 ELSE 0
<1> DEFINE a == SubSeq(s, 1, m)
           b == SubSeq(s, m + 1, n)
           c == SubSeq(s, 1, n)
<1>1. c = a \o b
  <2>1. 1 \in 1 .. m + 1 /\ m \in 1 - 1 .. n /\ n \in m .. Len(s)
    OBVIOUS
  <2>2. QED
    BY <2>1, ConcatAdjacentSubSeq
<1>2. /\ a \in Seq(T) /\ b \in Seq(T) /\ Len(b) = n - m
      /\ \A j \in 1 .. n - m : b[j] = s[m + j] /\ m + j \in m + 1 .. n
  OBVIOUS
<1> HIDE DEF a, b, c
<1>3. Count(c, S) = Count(a, S) + Count(b, S)
  BY <1>1, <1>2, CountConcat
<1>4. Count(a, S) \in Nat
  BY <1>2, CountFinite
<1>5. Count(b, S) \in Nat /\ (Count(b, S) = 0 <=> \A i \in 1..Len(b) : b[i] \notin S)
  BY <1>2, CountFinite
<1>6. Count(a, S) <= Count(c, S)
  BY <1>3, <1>4, <1>5
<1>7. (\A j \in m + 1 .. n : s[j] \notin S) => Count(c, S) = Count(a, S)
  <2>1. (\A j \in m + 1 .. n : s[j] \notin S) => \A i \in 1..Len(b) : b[i] \notin S
    BY <1>2
  <2>2. QED
    BY <2>1, <1>3, <1>4, <1>5
<1>8. n = m + 1 => Count(c, S) = Count(a, S) + IF s[n] \in S THEN 1 ELSE 0
  <2>1. SUFFICES ASSUME n = m + 1 PROVE Count(b, S) = IF s[n] \in S THEN 1 ELSE 0
    BY <1>3
  <2>2. b = <<s[n]>> /\ s[n] \in T
    BY <1>2, <2>1
  <2>3. QED
    BY <2>2, CountOne
<1>9. QED
  BY <1>6, <1>7, <1>8 DEF a, c

LEMMA CountNone ==
    ASSUME NEW S
    PROVE  Count(<<>>, S) = 0
<1>1. <<>> \in Seq({}) /\ Len(<<>>) = 0
  OBVIOUS
<1>2. \A i \in 1..Len(<<>>) : <<>>[i] \notin S
  BY <1>1
<1>3. QED
  BY <1>1, <1>2, CountFinite

-----------------------------------------------------------------------------
(* What the lists keep when only events move on *)

LEMMA ListsStay ==
    ASSUME CallbackRuns, CalledInOrder,
           UNCHANGED <<m_file, m_dir, handling, calling, gone, stopped>>
    PROVE  CallbackRuns' /\ CalledInOrder'
<1>1. CallbackRuns'
  BY DEF CallbackRuns, Files
<1>2. CalledInOrder'
  BY DEF CalledInOrder, Stopping, Files, Dirs
<1>3. QED
  BY <1>1, <1>2

LEMMA FileFields ==
    ASSUME Typed
    PROVE  /\ \A i \in Files : /\ m_file[i] \in FileRecord
                              /\ m_file[i].id \in Watch /\ m_file[i].id \in 1..added
                              /\ m_file[i].dir_wd \in Nat /\ m_file[i].name \in FileName
           /\ \A i \in Dirs : m_dir[i] \in DirRecord /\ m_dir[i].wd \in Nat /\ m_dir[i].name \in DirName
<1>1. /\ m_file \in Seq(FileRecord) /\ m_dir \in Seq(DirRecord)
      /\ \A i \in Files : m_file[i].id \in 1..added
      /\ added \in 0..MaxWatches
  BY DEF Typed, WatchTyped
<1>2. \A i \in Files : m_file[i] \in FileRecord
  BY <1>1 DEF Files
<1>3. \A i \in Dirs : m_dir[i] \in DirRecord
  BY <1>1 DEF Dirs
<1>4. 1..added \subseteq Watch
  BY <1>1, WatchesAssumption DEF Watch
<1>5. QED
  BY <1>1, <1>2, <1>3, <1>4 DEF FileRecord, DirRecord

LEMMA KnownStays ==
    ASSUME Known, UNCHANGED <<m_file, m_dir, path, shared>>
    PROVE  Known'
BY DEF Known, Files, Dirs

\* Events were read, handled or skipped.
LEMMA EventsMoveOn ==
    ASSUME Agreed, Heard,
           UNCHANGED <<inode, watched, m_file, m_dir, path, raised, shared>>,
           \A i \in Files : StopPending(m_file[i].dir_wd) => StopPending(m_file[i].dir_wd)',
           \A i \in Files : m_file[i].id \notin shared =>
               heard'[m_file[i].id] + Pending(m_file[i].dir_wd, m_file[i].name)'
                   = heard[m_file[i].id] + Pending(m_file[i].dir_wd, m_file[i].name)
    PROVE  Agreed' /\ Heard'
<1>1. \A i \in Dirs : Watching(m_dir[i])'
  <2>1. SUFFICES ASSUME NEW i \in Dirs PROVE Watching(m_dir[i])'
    OBVIOUS
  <2>2. PICK j \in Files : m_file[j].dir_wd = m_dir[i].wd
    BY DEF Agreed
  <2>3. StopPending(m_dir[i].wd) => StopPending(m_dir[i].wd)'
    BY <2>2
  <2>4. Watching(m_dir[i])
    BY DEF Agreed
  <2>5. QED
    BY <2>3, <2>4 DEF Watching
<1>2. Agreed'
  BY <1>1 DEF Agreed, Files, Dirs
<1>3. Heard'
  BY DEF Heard, Files
<1>4. QED
  BY <1>2, <1>3

\* Nothing of the lists and of what is remembered of them changes.
LEMMA ListsIdle ==
    ASSUME ListsKept, UNCHANGED <<inode, watched, queue, watchVars, history>>
    PROVE  ListsKept'
<1>1. Known' /\ CallbackRuns' /\ CalledInOrder'
  BY ListsStay, KnownStays DEF ListsKept, watchVars, history
<1>2. \A wd, name : Pending(wd, name)' = Pending(wd, name)
  BY DEF Pending, CountOf, watchVars
<1>3. \A wd : StopPending(wd) => StopPending(wd)'
  BY DEF StopPending, watchVars
<1>4. ~aliased' => Agreed' /\ Heard'
  <2>1. ASSUME ~aliased' PROVE Agreed /\ Heard
    BY <2>1 DEF ListsKept, history
  <2>2. QED
    BY <1>2, <1>3, <2>1, EventsMoveOn DEF watchVars, history
<1>5. QED
  BY <1>1, <1>4 DEF ListsKept

LEMMA ReadKept ==
    ASSUME Typed, ListsKept, Between, NotifyFS
    PROVE  ListsKept'
<1>typed. queue \in Seq(Events) /\ batch = <<>> /\ handling = None
  BY DEF Typed, KernelTyped, Between
<1>1. /\ UNCHANGED <<inode, watched, m_file, m_dir, handling, calling, gone>>
      /\ UNCHANGED <<path, raised, heard, stopped, shared, aliased>>
  BY DEF NotifyFS, ReadEvents, history
<1>2. PICK n \in 1..Len(queue) : batch' = SubSeq(queue, 1, n) /\ queue' = SubSeq(queue, n + 1, Len(queue))
  BY DEF NotifyFS, ReadEvents
<1>3. batch' \in Seq(Events) /\ queue' \in Seq(Events)
  BY <1>typed, <1>2
<1>4. \A wd \in Nat : StopPending(wd) => StopPending(wd)'
  <2>1. SUFFICES ASSUME NEW wd \in Nat, StopPending(wd) PROVE StopPending(wd)'
    OBVIOUS
  <2>2. PICK i \in 1..Len(queue) : queue[i] = SelfEvent(wd)
    <3>1. handling # SelfEvent(wd)
      BY <1>typed, SelfNotNone
    <3>2. QED
      BY <1>typed, <2>1, <3>1 DEF StopPending
  <2>3. CASE i <= n
    <3>1. i \in DOMAIN batch' /\ batch'[i] = queue[i]
      BY <1>typed, <1>2, <2>3
    <3>2. QED
      BY <2>2, <3>1 DEF StopPending
  <2>4. CASE i > n
    <3>1. i - n \in DOMAIN queue' /\ queue'[i - n] = queue[i]
      BY <1>typed, <1>2, <2>4
    <3>2. QED
      BY <2>2, <3>1 DEF StopPending
  <2>5. QED
    BY <2>3, <2>4
<1>5. \A wd, name : Pending(wd, name)' = Pending(wd, name)
  <2>1. SUFFICES ASSUME NEW wd, NEW name PROVE Pending(wd, name)' = Pending(wd, name)
    OBVIOUS
  <2> DEFINE S == {FileEvent(wd, name)}
  <2>2. Pending(wd, name) = Count(batch, S) + Count(queue, S)
    <3>1. batch \in Seq(Events)
      BY <1>typed
    <3>2. QED
      BY <1>typed, <3>1, PendingCount
  <2>3. Pending(wd, name)' = Count(batch', S) + Count(queue', S)
    BY <1>3, PendingCountNext
  <2>4. Count(batch, S) = 0
    BY <1>typed, CountNone
  <2>5. Count(queue, S) = Count(batch', S) + Count(queue', S)
    <3>1. n \in 0..Len(queue)
      BY <1>typed
    <3>2. QED
      BY <1>typed, <1>2, <3>1, CountSplit
  <2>6. Count(batch', S) \in Nat /\ Count(queue', S) \in Nat
    <3>1. Count(batch', S) \in Nat
      BY <1>3, CountFinite
    <3>2. Count(queue', S) \in Nat
      BY <1>3, CountFinite
    <3>3. QED
      BY <3>1, <3>2
  <2>7. QED
    BY <2>2, <2>3, <2>4, <2>5, <2>6
<1>6. Known' /\ CallbackRuns' /\ CalledInOrder'
  BY <1>1, ListsStay, KnownStays DEF ListsKept
<1>7. ~aliased' => Agreed' /\ Heard'
  <2>1. \A i \in Files : m_file[i].dir_wd \in Nat
    BY FileFields
  <2>2. QED
    BY <1>1, <1>4, <1>5, <2>1, EventsMoveOn DEF ListsKept
<1>8. QED
  BY <1>6, <1>7 DEF ListsKept

-----------------------------------------------------------------------------
(* Handling an event *)

LEMMA FirstTaken ==
    ASSUME Typed, batch # <<>>, batch' = Tail(batch), UNCHANGED queue
    PROVE  /\ Head(batch) \in Events
           /\ \A wd, name : Pending(wd, name)
                  = Pending(wd, name)' + IF Head(batch) = FileEvent(wd, name) THEN 1 ELSE 0
           /\ \A wd, name : Pending(wd, name)' \in Nat
           /\ \A wd : StopPending(wd) =>
                  \/ Head(batch) = SelfEvent(wd)
                  \/ handling = SelfEvent(wd)
                  \/ StopPending(wd)'
<1>typed. batch \in Seq(Events) /\ queue \in Seq(Events)
  BY DEF Typed, KernelTyped, WatchTyped
<1>1. Head(batch) \in Events /\ batch' \in Seq(Events) /\ queue' \in Seq(Events)
  BY <1>typed
<1>2. ASSUME NEW wd, NEW name
      PROVE  /\ Pending(wd, name)
                  = Pending(wd, name)' + IF Head(batch) = FileEvent(wd, name) THEN 1 ELSE 0
             /\ Pending(wd, name)' \in Nat
  <2> DEFINE S == {FileEvent(wd, name)}
  <2>1. Pending(wd, name) = Count(batch, S) + Count(queue, S)
    BY <1>typed, PendingCount
  <2>2. Pending(wd, name)' = Count(batch', S) + Count(queue', S)
    BY <1>1, PendingCountNext
  <2>3. Count(batch, S) = Count(batch', S) + IF Head(batch) \in S THEN 1 ELSE 0
    BY <1>typed, CountTail
  <2>4. Count(batch', S) \in Nat
    BY <1>1, CountFinite
  <2>5. Count(queue, S) \in Nat
    BY <1>typed, CountFinite
  <2>6. Head(batch) \in S <=> Head(batch) = FileEvent(wd, name)
    OBVIOUS
  <2> HIDE DEF S
  <2>7. QED
    BY <2>1, <2>2, <2>3, <2>4, <2>5, <2>6
<1>3. ASSUME NEW wd, StopPending(wd)
      PROVE  \/ Head(batch) = SelfEvent(wd)
             \/ handling = SelfEvent(wd)
             \/ StopPending(wd)'
  <2>1. CASE \E i \in DOMAIN batch : batch[i] = SelfEvent(wd)
    <3>1. PICK i \in 1..Len(batch) : batch[i] = SelfEvent(wd)
      BY <1>typed, <2>1
    <3>2. CASE i = 1
      BY <1>typed, <3>1, <3>2
    <3>3. CASE i # 1
      <4>1. i - 1 \in DOMAIN batch' /\ batch'[i - 1] = batch[i]
        BY <1>typed, <3>3
      <4>2. QED
        BY <3>1, <4>1 DEF StopPending
    <3>4. QED
      BY <3>2, <3>3
  <2>2. CASE \E i \in DOMAIN queue : queue[i] = SelfEvent(wd)
    BY <2>2 DEF StopPending
  <2>3. QED
    BY <1>3, <2>1, <2>2 DEF StopPending
<1>4. QED
  BY <1>1, <1>2, <1>3

LEMMA HandleEventKept ==
    ASSUME Typed, ListsKept, Handle, HandleEvent
    PROVE  ListsKept'
<1> DEFINE ev == Head(batch)
<1>read. PICK read : /\ ev.kind # "attrib" => read = ev.name
                     /\ FirstCalled(ev, read) # 0 /\ calling' = m_file[FirstCalled(ev, read)].id
  BY DEF HandleEvent, NamesRead
<1> DEFINE k == FirstCalled(ev, read)
<1>1. /\ handling = None /\ batch # <<>> /\ batch' = Tail(batch)
      /\ k # 0 /\ handling' = ev /\ calling' = m_file[k].id /\ gone' = <<>>
      /\ UNCHANGED <<inode, watched, queue, m_file, m_dir, added>>
      /\ UNCHANGED <<path, raised, shared, aliased>>
  BY <1>read DEF HandleEvent, Handle, kernelVars
<1>known. Known /\ CallbackRuns /\ CalledInOrder
  BY DEF ListsKept
<1>2. ev \in Events /\ ev # None
  BY <1>1, FirstTaken, NamesAssumption
<1>3. /\ k \in Files /\ m_file[k].dir_wd = ev.wd
      /\ ev.kind = "file" => m_file[k].name = ev.name
      /\ \A j \in Files :
             /\ KnownWd(ev.wd)
             /\ m_file[j].dir_wd = ev.wd
             /\ ev.kind = "self" \/ (ev.kind = "file" /\ m_file[j].name = ev.name)
             => k <= j
  <2>1. /\ k \in Files /\ m_file[k].dir_wd = ev.wd
        /\ ev.kind = "self" \/ (ev.kind \in {"file", "attrib"} /\ m_file[k].name = read)
        /\ \A j \in Files :
               /\ KnownWd(ev.wd)
               /\ m_file[j].dir_wd = ev.wd
               /\ ev.kind = "self" \/ (ev.kind \in {"file", "attrib"} /\ m_file[j].name = read)
               => k <= j
    <3>1. ev \in Events /\ k # 0
      BY <1>1, <1>2
    <3> HIDE DEF ev
    <3>2. QED
      BY <3>1, FirstCalledOf
  <2> HIDE DEF ev, k
  <2>2. QED
    BY <1>read, <2>1
<1>fields. /\ \A i \in Files : /\ m_file[i] \in FileRecord
                              /\ m_file[i].id \in Watch /\ m_file[i].id \in 1..added
                              /\ m_file[i].dir_wd \in Nat /\ m_file[i].name \in FileName
           /\ m_file \in Seq(FileRecord) /\ heard \in [Watch -> Nat] /\ added \in Nat
  BY FileFields DEF Typed, WatchTyped, HistoryTyped
<1> HIDE DEF ev, k
<1>4. calling = 0 /\ calling' # 0 /\ Called
  BY <1>1, <1>3, <1>fields, <1>known DEF CallbackRuns, Called
<1>5. /\ heard' = IF ev.kind = "file" THEN [heard EXCEPT ![calling'] = @ + 1] ELSE heard
      /\ stopped' = IF ev.kind = "self" THEN stopped \cup {calling'} ELSE stopped
  BY <1>1, <1>4 DEF Handle
<1>6. Known'
  BY <1>1, <1>known, KnownStays
<1>7. CallbackRuns'
  BY <1>1, <1>2, <1>3, <1>4 DEF CallbackRuns, Files
<1>8. CalledInOrder'
  <2>1. \A i \in Files : m_file[i].id \notin stopped
    BY <1>1, <1>known DEF CalledInOrder, Stopping
  <2>2. Stopping' <=> ev.kind = "self"
    BY <1>1, <1>2 DEF Stopping
  <2>3. \A i \in Files : m_file[i].id \in stopped' => ev.kind = "self" /\ i = k
    BY <1>1, <1>3, <1>5, <1>known, <2>1 DEF Known
  <2>4. \A i \in Files : m_file[i].id = calling' => i = k
    BY <1>1, <1>3, <1>known DEF Known
  <2>5. ASSUME ev.kind = "self", NEW name \in FileName, NEW n \in 0..Len(m_file),
               n < Len(m_file) /\ m_file[n + 1].id = calling'
        PROVE  Count(SubSeq(m_file, 1, n), Named(ev.wd, name)) <= Count(gone', PathsNamed(name))
    <3> DEFINE S == Named(ev.wd, name)
    <3>1. n + 1 = k
      <4>1. n + 1 \in Files
        BY <1>fields, <2>5 DEF Files
      <4>2. QED
        BY <2>4, <2>5, <4>1
    <3>2. KnownWd(ev.wd)
      BY <1>3, <1>known DEF Known, KnownWd, Dirs
    <3>3. \A j \in 1..n : m_file[j].dir_wd # ev.wd
      <4>1. \A j \in 1..n : j \in Files /\ ~(k <= j)
        BY <1>fields, <3>1 DEF Files
      <4>2. QED
        BY <1>3, <2>5, <3>2, <4>1
    <3>4. /\ SubSeq(m_file, 1, n) \in Seq(FileRecord) /\ Len(SubSeq(m_file, 1, n)) = n
          /\ \A j \in 1..n : SubSeq(m_file, 1, n)[j] = m_file[j]
      BY <1>fields
    <3>5. \A j \in 1..Len(SubSeq(m_file, 1, n)) : SubSeq(m_file, 1, n)[j] \notin S
      BY <3>3, <3>4 DEF Named
    <3> HIDE DEF S
    <3>6. Count(SubSeq(m_file, 1, n), S) = 0
      BY <3>4, <3>5, CountFinite
    <3>7. Count(gone', PathsNamed(name)) = 0
      BY <1>1, CountNone
    <3>8. QED
      BY <3>6, <3>7 DEF S
  <2>6. \A x \in DOMAIN gone' : FALSE
    BY <1>1
  <2>7. \A i \in Files :
           m_file[i].id \in stopped' =>
               /\ Stopping' /\ m_file[i].dir_wd = ev.wd
               /\ \A at \in Files : m_file[at].id = calling' => i <= at
    BY <1>3, <1>fields, <2>2, <2>3, <2>4 DEF Files
  <2>8. QED
    BY <1>1, <1>4, <2>2, <2>5, <2>6, <2>7 DEF CalledInOrder, Files, Dirs
<1>9. ~aliased' => Agreed' /\ Heard'
  <2>1. SUFFICES ASSUME ~aliased, Agreed, Heard PROVE Agreed' /\ Heard'
    BY <1>1 DEF ListsKept
  <2>2. \A wd \in Nat : StopPending(wd) => StopPending(wd)'
    <3>1. SUFFICES ASSUME NEW wd \in Nat, StopPending(wd) PROVE StopPending(wd)'
      OBVIOUS
    <3>2. ev = SelfEvent(wd) \/ StopPending(wd)'
      BY <1>1, <3>1, FirstTaken, SelfNotNone DEF ev
    <3>3. QED
      BY <1>1, <3>2 DEF StopPending
  <2>3. ASSUME NEW i \in Files, m_file[i].id \notin shared
        PROVE  heard'[m_file[i].id] + Pending(m_file[i].dir_wd, m_file[i].name)'
                   = heard[m_file[i].id] + Pending(m_file[i].dir_wd, m_file[i].name)
    <3> DEFINE id == m_file[i].id
               wd == m_file[i].dir_wd
               name == m_file[i].name
    <3>1. /\ Pending(wd, name) = Pending(wd, name)' + IF ev = FileEvent(wd, name) THEN 1 ELSE 0
          /\ Pending(wd, name)' \in Nat
      BY <1>1, FirstTaken DEF ev
    <3>2. CASE ev = FileEvent(wd, name)
      <4>1. ev.kind = "file" /\ ev.wd = wd /\ ev.name = name
        BY <3>2 DEF FileEvent
      <4>2. k = i
        BY <1>3, <1>known, <2>3, <4>1 DEF Known
      <4>3. heard'[id] = heard[id] + 1 /\ heard[id] \in Nat
        BY <1>1, <1>5, <1>fields, <4>1, <4>2
      <4> HIDE DEF id, wd, name
      <4>4. QED
        BY <3>1, <3>2, <4>3 DEF id, wd, name
    <3>3. CASE ev # FileEvent(wd, name)
      <4>1. heard'[id] = heard[id]
        <5>1. CASE ev.kind = "file"
          <6>1. i # k
            BY <1>2, <1>3, <3>3, <5>1 DEF FileEvent, Events
          <6>2. id # calling'
            BY <1>1, <1>3, <1>known, <6>1 DEF Known
          <6>3. QED
            BY <1>5, <1>fields, <5>1, <6>2
        <5>2. CASE ev.kind # "file"
          BY <1>5, <5>2
        <5>3. QED
          BY <5>1, <5>2
      <4> HIDE DEF id, wd, name
      <4>2. Pending(wd, name) = Pending(wd, name)'
        BY <3>1, <3>3
      <4>3. QED
        BY <4>1, <4>2 DEF id, wd, name
    <3>4. QED
      BY <3>2, <3>3
  <2>4. QED
    BY <1>1, <1>fields, <2>1, <2>2, <2>3, EventsMoveOn
<1>10. QED
  BY <1>6, <1>7, <1>8, <1>9 DEF ListsKept

LEMMA SkipEventKept ==
    ASSUME Typed, ListsKept, Handle, SkipEvent
    PROVE  ListsKept'
<1> DEFINE ev == Head(batch)
<1>name. PICK name : (ev.kind # "attrib" => name = ev.name) /\ FirstCalled(ev, name) = 0
  BY DEF SkipEvent, NamesRead
<1>1. /\ handling = None /\ batch # <<>> /\ batch' = Tail(batch)
      /\ UNCHANGED <<inode, watched, queue, m_file, m_dir, handling, calling, gone, added>>
      /\ UNCHANGED <<path, raised, shared, aliased>>
  BY DEF SkipEvent, Handle, kernelVars
<1>2. UNCHANGED <<heard, stopped>>
  BY <1>1 DEF Handle, Called
<1>known. Known /\ CallbackRuns /\ CalledInOrder
  BY DEF ListsKept
<1>3. Known' /\ CallbackRuns' /\ CalledInOrder'
  BY <1>1, <1>2, <1>known, ListsStay, KnownStays
<1>4. ev \in Events
  BY <1>1, FirstTaken
<1>5. \A j \in Files :
          ~ /\ KnownWd(ev.wd)
            /\ m_file[j].dir_wd = ev.wd
            /\ ev.kind = "self" \/ (ev.kind = "file" /\ m_file[j].name = ev.name)
  <2>1. \A j \in Files :
                      /\ KnownWd(ev.wd)
                      /\ m_file[j].dir_wd = ev.wd
                      /\ ev.kind = "self" \/ (ev.kind \in {"file", "attrib"} /\ m_file[j].name = name)
                      => FirstCalled(ev, name) # 0
    <3> HIDE DEF ev
    <3>1. QED
      BY <1>4, FirstCalledOf
  <2> HIDE DEF ev
  <2>2. QED
    BY <1>name, <2>1
<1> HIDE DEF ev
<1>6. \A j \in Files : KnownWd(m_file[j].dir_wd)
  BY <1>known DEF Known, KnownWd, Dirs
<1>7. \A j \in Files : /\ ev # SelfEvent(m_file[j].dir_wd)
                       /\ ev # FileEvent(m_file[j].dir_wd, m_file[j].name)
  <2>1. SUFFICES ASSUME NEW j \in Files, \/ ev = SelfEvent(m_file[j].dir_wd)
                                          \/ ev = FileEvent(m_file[j].dir_wd, m_file[j].name)
                 PROVE  FALSE
    OBVIOUS
  <2>2. /\ ev.wd = m_file[j].dir_wd
        /\ ev.kind = "self" \/ (ev.kind = "file" /\ m_file[j].name = ev.name)
    BY <2>1 DEF SelfEvent, FileEvent
  <2>3. QED
    BY <1>5, <1>6, <2>2
<1>8. \A j \in Files : StopPending(m_file[j].dir_wd) => StopPending(m_file[j].dir_wd)'
  BY <1>1, <1>7, FirstTaken, SelfNotNone, FileFields DEF ev
<1>9. \A j \in Files : heard'[m_file[j].id] + Pending(m_file[j].dir_wd, m_file[j].name)'
                   = heard[m_file[j].id] + Pending(m_file[j].dir_wd, m_file[j].name)
  <2>1. SUFFICES ASSUME NEW j \in Files
                 PROVE  Pending(m_file[j].dir_wd, m_file[j].name)' = Pending(m_file[j].dir_wd, m_file[j].name)
    BY <1>2
  <2>2. ev # FileEvent(m_file[j].dir_wd, m_file[j].name)
    BY <1>7
  <2>3. /\ Pending(m_file[j].dir_wd, m_file[j].name)
             = Pending(m_file[j].dir_wd, m_file[j].name)'
                   + IF ev = FileEvent(m_file[j].dir_wd, m_file[j].name) THEN 1 ELSE 0
        /\ Pending(m_file[j].dir_wd, m_file[j].name)' \in Nat
    BY <1>1, FirstTaken DEF ev
  <2>4. QED
    BY <2>2, <2>3
<1>10. ~aliased' => Agreed' /\ Heard'
  BY <1>1, <1>8, <1>9, EventsMoveOn DEF ListsKept
<1>11. QED
  BY <1>3, <1>10 DEF ListsKept

LEMMA FileCallbackReturnsKept ==
    ASSUME Typed, ListsKept, Handle, FileCallbackReturns
    PROVE  ListsKept'
<1>1. /\ handling # None /\ handling.kind \in {"file", "attrib"} /\ handling' = None /\ calling' = 0
      /\ UNCHANGED <<inode, watched, queue, batch, m_file, m_dir, gone, added>>
      /\ UNCHANGED <<path, raised, shared, aliased>>
  BY DEF FileCallbackReturns, Handle, kernelVars
<1>2. UNCHANGED <<heard, stopped>>
  BY <1>1 DEF Handle, Called
<1>known. Known /\ CallbackRuns /\ CalledInOrder
  BY DEF ListsKept
<1>3. Known'
  BY <1>1, <1>known, KnownStays
<1>4. CallbackRuns'
  BY <1>1 DEF CallbackRuns
<1>5. CalledInOrder'
  <2>1. ~Stopping /\ ~Stopping'
    BY <1>1 DEF Stopping
  <2>2. QED
    BY <1>1, <1>2, <1>known, <2>1 DEF CalledInOrder, Files
<1>6. \A wd : StopPending(wd) => StopPending(wd)'
  <2>1. \A wd : handling # SelfEvent(wd)
    BY <1>1 DEF SelfEvent
  <2>2. QED
    BY <1>1, <2>1 DEF StopPending
<1>7. \A wd, name : Pending(wd, name)' = Pending(wd, name)
  BY <1>1 DEF Pending, CountOf
<1>8. ~aliased' => Agreed' /\ Heard'
  BY <1>1, <1>2, <1>6, <1>7, EventsMoveOn DEF ListsKept
<1>9. QED
  BY <1>3, <1>4, <1>5, <1>8 DEF ListsKept

LEMMA StoppedReturnsKept ==
    ASSUME Typed, ListsKept, Handle, StoppedReturns
    PROVE  ListsKept'
<1>1. /\ handling # None /\ handling.kind = "self" /\ calling # 0
      /\ gone' = Append(gone, PathOfCalled)
      /\ calling' = IF Remaining = {} THEN 0 ELSE m_file[Min1(Remaining)].id
      /\ UNCHANGED <<inode, watched, queue, batch, handling, m_file, m_dir, added>>
      /\ UNCHANGED <<path, raised, shared, aliased>>
  BY DEF StoppedReturns, Handle, kernelVars
<1>known. Known /\ CallbackRuns /\ CalledInOrder
  BY DEF ListsKept
<1>fields. /\ \A i \in Files : /\ m_file[i] \in FileRecord
                              /\ m_file[i].id \in Watch /\ m_file[i].id \in 1..added
                              /\ m_file[i].dir_wd \in Nat /\ m_file[i].name \in FileName
           /\ \A i \in Dirs : m_dir[i].name \in DirName
           /\ m_file \in Seq(FileRecord) /\ m_dir \in Seq(DirRecord)
           /\ gone \in Seq([dir : DirName, name : FileName])
  BY FileFields DEF Typed, WatchTyped
<1>2. PICK i \in Files, d \in Dirs :
          /\ m_file[i].id = calling /\ m_file[i].dir_wd = handling.wd
          /\ m_dir[d].wd = handling.wd
          /\ \A e \in Dirs : m_dir[e].wd = handling.wd => d <= e
          /\ PathOfCalled = [dir |-> m_dir[d].name, name |-> m_file[i].name]
          /\ Remaining = {j \in i + 1 .. Len(m_file) : m_file[j].dir_wd = handling.wd}
          /\ Remaining # {} => /\ Min1(Remaining) \in Remaining
                               /\ \A j \in Remaining : Min1(Remaining) <= j
  BY <1>1, <1>known, CalledFacts
<1> DEFINE next == Min1(Remaining)
           called == [dir |-> m_dir[d].name, name |-> m_file[i].name]
<1>3. /\ Remaining # {} => /\ next \in Files /\ next > i /\ m_file[next].dir_wd = handling.wd
                           /\ \A j \in Files : j > i /\ m_file[j].dir_wd = handling.wd => next <= j
                           /\ calling' = m_file[next].id
      /\ Remaining = {} => /\ calling' = 0
                           /\ \A j \in Files : j > i => m_file[j].dir_wd # handling.wd
  <2>1. i \in Nat /\ Len(m_file) \in Nat /\ Files = 1..Len(m_file)
    BY <1>fields DEF Files
  <2>2. \A j \in Files : j > i => j \in i + 1 .. Len(m_file)
    BY <2>1
  <2>3. \A j \in i + 1 .. Len(m_file) : j \in Files /\ j > i
    BY <2>1, <1>2
  <2>4. QED
    BY <1>1, <1>2, <2>2, <2>3
<1> HIDE DEF next
<1>4. /\ UNCHANGED heard
      /\ Remaining # {} => Called /\ stopped' = stopped \cup {calling'}
      /\ Remaining = {} => stopped' = stopped
  <2>1. calling' # calling
    <3>1. CASE Remaining = {}
      BY <1>1, <1>3, <3>1
    <3>2. CASE Remaining # {}
      <4>1. next # i
        BY <1>3, <1>fields, <3>2 DEF Files
      <4>2. m_file[next].id # m_file[i].id
        BY <1>3, <1>known, <3>2, <4>1 DEF Known
      <4>3. QED
        BY <1>2, <1>3, <3>2, <4>2
    <3>3. QED
      BY <3>1, <3>2
  <2>2. Remaining # {} => Called
    BY <1>3, <1>fields, <2>1 DEF Called
  <2>3. Remaining = {} => ~Called
    BY <1>3 DEF Called
  <2>4. QED
    BY <1>1, <2>2, <2>3 DEF Handle
<1>5. Known'
  BY <1>1, <1>known, KnownStays
<1>6. CallbackRuns'
  BY <1>1, <1>3 DEF CallbackRuns, Files
<1>7. CalledInOrder'
  <2>1. Stopping /\ Stopping'
    BY <1>1 DEF Stopping
  <2>2. ASSUME NEW j \in Files, m_file[j].id \in stopped'
        PROVE  /\ m_file[j].dir_wd = handling.wd
               /\ \A at \in Files : m_file[at].id = calling' => j <= at
    <3>1. CASE m_file[j].id \in stopped
      <4>1. m_file[j].dir_wd = handling.wd /\ j <= i
        BY <1>2, <1>known, <3>1 DEF CalledInOrder
      <4>2. ASSUME NEW at \in Files, m_file[at].id = calling' PROVE j <= at
        <5>1. Remaining # {} /\ at = next
          BY <1>3, <1>known, <1>fields, <4>2 DEF Known
        <5>2. QED
          BY <1>3, <1>fields, <4>1, <5>1 DEF Files
      <4>3. QED
        BY <4>1, <4>2
    <3>2. CASE m_file[j].id \notin stopped
      <4>1. Remaining # {} /\ m_file[j].id = calling'
        BY <1>4, <2>2, <3>2
      <4>2. j = next
        BY <1>3, <1>known, <4>1 DEF Known
      <4>3. \A at \in Files : m_file[at].id = calling' => at = next
        BY <1>3, <1>known, <4>1 DEF Known
      <4>4. j <= j
        BY <1>fields DEF Files
      <4>5. QED
        BY <1>3, <4>1, <4>2, <4>3, <4>4
    <3>3. QED
      BY <3>1, <3>2
  <2>3. ASSUME NEW f \in Files, NEW j \in Dirs, m_file[f].dir_wd = handling.wd, m_dir[j].wd = handling.wd
        PROVE  \/ \E x \in 1 .. j - 1 : m_dir[x].wd = handling.wd
               \/ \A x \in DOMAIN gone' : gone'[x].dir = m_dir[j].name
    <3>1. CASE d < j
      <4>1. d \in 1 .. j - 1
        BY <1>fields, <3>1 DEF Dirs
      <4>2. QED
        BY <1>2, <4>1
    <3>2. CASE d = j
      <4>1. CASE \A x \in DOMAIN gone : gone[x].dir = m_dir[j].name
        <5>1. \A x \in DOMAIN gone' : (x \in DOMAIN gone /\ gone'[x] = gone[x]) \/ gone'[x] = called
          BY <1>1, <1>2, <1>fields
        <5>2. called.dir = m_dir[j].name
          BY <3>2
        <5>3. QED
          BY <4>1, <5>1, <5>2
      <4>2. QED
        BY <1>known, <2>1, <2>3, <4>1 DEF CalledInOrder
    <3>3. QED
      BY <1>2, <1>fields, <2>3, <3>1, <3>2 DEF Dirs
  <2>4. ASSUME NEW name \in FileName, NEW n \in 0..Len(m_file),
               calling' # 0 => n < Len(m_file) /\ m_file[n + 1].id = calling'
        PROVE  Count(SubSeq(m_file, 1, n), Named(handling.wd, name)) <= Count(gone', PathsNamed(name))
    <3> DEFINE S == Named(handling.wd, name)
               U == PathsNamed(name)
               C(x) == Count(SubSeq(m_file, 1, x), S)
    <3>1. i \in 1..Len(m_file) /\ Len(m_file) \in Nat /\ i - 1 \in 0..Len(m_file) /\ i \in 0..Len(m_file)
          /\ i - 1 < Len(m_file) /\ (i - 1) + 1 = i
      BY <1>fields DEF Files
    <3>9. /\ C(n) \in Nat /\ C(i) \in Nat /\ C(i - 1) \in Nat /\ Count(gone, U) \in Nat
      <4>1. \A x \in 0..Len(m_file) : SubSeq(m_file, 1, x) \in Seq(FileRecord)
        BY <1>fields
      <4>2. \A x \in 0..Len(m_file) : C(x) \in Nat
        BY <4>1, CountFinite
      <4>3. Count(gone, U) \in Nat
        BY <1>fields, CountFinite
      <4>4. QED
        BY <3>1, <4>2, <4>3
    <3>2. \A j \in Files : j > i /\ j <= n => m_file[j].dir_wd # handling.wd
      <4>1. CASE Remaining = {}
        BY <1>3, <4>1
      <4>2. CASE Remaining # {}
        <5>1. n < Len(m_file) /\ m_file[n + 1].id = m_file[next].id
          BY <1>3, <1>fields, <2>4, <4>2
        <5>2. n + 1 \in Files
          BY <5>1, <3>1 DEF Files
        <5>3. n + 1 = next
          BY <1>3, <1>known, <4>2, <5>1, <5>2 DEF Known
        <5>4. \A j \in Files : j <= n => ~(next <= j)
          BY <5>3, <3>1 DEF Files
        <5>5. QED
          BY <1>3, <4>2, <5>4
      <4>3. QED
        BY <4>1, <4>2
    <3>3. C(i - 1) <= Count(gone, U)
      <4>1. m_file[(i - 1) + 1].id = calling
        BY <1>2, <3>1
      <4>2. QED
        BY <1>known, <2>1, <3>1, <4>1 DEF CalledInOrder
    <3>4. C(i) = C(i - 1) + IF m_file[i] \in S THEN 1 ELSE 0
      <4>1. i \in i - 1 .. Len(m_file)
        BY <3>1
      <4>2. QED
        BY <1>fields, <3>1, <4>1, CountPrefix
    <3>5. C(n) <= C(i)
      <4>1. CASE n <= i
        <5>1. i \in n .. Len(m_file)
          BY <3>1, <4>1
        <5>2. QED
          BY <1>fields, <5>1, CountPrefix
      <4>2. CASE n > i
        <5>1. n \in i .. Len(m_file)
          BY <3>1, <4>2
        <5>2. \A j \in i + 1 .. n : m_file[j] \notin S
          <6>1. \A j \in i + 1 .. n : j \in Files /\ j > i /\ j <= n
            BY <3>1 DEF Files
          <6>2. QED
            BY <3>2, <6>1 DEF Named
        <5>3. C(n) = C(i)
          BY <1>fields, <3>1, <5>1, <5>2, CountPrefix
        <5>4. QED
          BY <3>9, <5>3
      <4>3. QED
        BY <3>1, <4>1, <4>2
    <3>6. called \in [dir : DirName, name : FileName] /\ called.name = m_file[i].name
      BY <1>fields
    <3>7. Count(gone', U) = Count(gone, U) + IF called \in U THEN 1 ELSE 0
      <4>1. gone' = Append(gone, called)
        BY <1>1, <1>2
      <4> DEFINE T == [dir : DirName, name : FileName]
      <4>2. gone \in Seq(T) /\ called \in T
        BY <1>fields, <3>6
      <4> HIDE DEF called, U, T
      <4>3. Count(Append(gone, called), U) = Count(gone, U) + IF called \in U THEN 1 ELSE 0
        BY <4>2, CountAppend
      <4>4. QED
        BY <4>1, <4>3
    <3>8. m_file[i] \in S => called \in U
      BY <3>6 DEF Named, PathsNamed
    <3> HIDE DEF S, U, C, called
    <3>10. C(n) <= Count(gone', U)
      BY <3>3, <3>4, <3>5, <3>7, <3>8, <3>9
    <3>11. QED
      BY <3>10 DEF C, S, U
  <2>5. QED
    BY <1>1, <2>1, <2>2, <2>3, <2>4 DEF CalledInOrder, Files, Dirs
<1>8. ~aliased' => Agreed' /\ Heard'
  <2>1. \A wd : StopPending(wd) => StopPending(wd)'
    BY <1>1 DEF StopPending
  <2>2. \A wd, name : Pending(wd, name)' = Pending(wd, name)
    BY <1>1 DEF Pending, CountOf
  <2>3. QED
    BY <1>1, <1>4, <2>1, <2>2, EventsMoveOn DEF ListsKept
<1>9. QED
  BY <1>5, <1>6, <1>7, <1>8 DEF ListsKept

-----------------------------------------------------------------------------
(* Removing a file *)

\* The index before element k was removed, of what has index j then
Before(k, j) == IF k = 0 \/ j < k THEN j ELSE j + 1

Embeds(s, r, k) ==
    /\ \A j \in 1..Len(r) : Before(k, j) \in 1..Len(s) /\ Before(k, j) # k /\ r[j] = s[Before(k, j)]
    /\ \A i, j \in 1..Len(r) : i <= j <=> Before(k, i) <= Before(k, j)
    /\ \A i, j \in 1..Len(r) : Before(k, i) = Before(k, j) => i = j
    /\ \A x \in 1..Len(s) : x # k => \E j \in 1..Len(r) : Before(k, j) = x

LEMMA RemoveAtEmbeds ==
    ASSUME NEW T, NEW s \in Seq(T)
    PROVE  /\ Embeds(s, s, 0)
           /\ \A k \in 1..Len(s) : Embeds(s, RemoveAt(s, k), k)
<1>1. Embeds(s, s, 0)
  BY DEF Embeds, Before
<1>2. ASSUME NEW k \in 1..Len(s) PROVE Embeds(s, RemoveAt(s, k), k)
  <2> DEFINE r == RemoveAt(s, k)
  <2>1. /\ Len(r) = Len(s) - 1 /\ Len(s) \in Nat
        /\ \A j \in 1 .. Len(s) - 1 : r[j] = IF j < k THEN s[j] ELSE s[j + 1]
    <3>1. Len(s) \in Nat
      OBVIOUS
    <3>2. QED
      BY <3>1, RemoveAtProperties
  <2> HIDE DEF r
  <2>2. \A x \in 1..Len(s) : x # k => \E j \in 1..Len(r) : Before(k, j) = x
    <3>1. SUFFICES ASSUME NEW x \in 1..Len(s), x # k PROVE \E j \in 1..Len(r) : Before(k, j) = x
      OBVIOUS
    <3>2. CASE x < k
      <4>1. x \in 1..Len(r) /\ Before(k, x) = x
        BY <2>1, <3>2 DEF Before
      <4>2. QED
        BY <4>1
    <3>3. CASE x > k
      <4>1. x - 1 \in 1..Len(r) /\ Before(k, x - 1) = x
        BY <2>1, <3>3 DEF Before
      <4>2. QED
        BY <4>1
    <3>4. QED
      BY <3>1, <3>2, <3>3
  <2>3. \A j \in 1..Len(r) : Before(k, j) \in 1..Len(s) /\ Before(k, j) # k /\ r[j] = s[Before(k, j)]
    BY <2>1 DEF Before
  <2>4. \A i, j \in 1..Len(r) : /\ i <= j <=> Before(k, i) <= Before(k, j)
                                /\ Before(k, i) = Before(k, j) => i = j
    BY <2>1 DEF Before
  <2>5. QED
    BY <2>2, <2>3, <2>4 DEF Embeds, r
<1>3. QED
  BY <1>1, <1>2

LEMMA ErasedEmbeds ==
    ASSUME Typed, Known, NEW k \in Files, SetLists(EraseFile(Lists, k))
    PROVE  \E d \in 0..Len(m_dir) :
               /\ Embeds(m_file, m_file', k)
               /\ Embeds(m_dir, m_dir', d)
               /\ d # 0 <=> LastOf(k)
               /\ d # 0 => m_dir[d].wd = m_file[k].dir_wd
               /\ watched' = IF d # 0 THEN WithoutWatch(watched, m_file[k].dir_wd) ELSE watched
<1>typed. m_file \in Seq(FileRecord) /\ m_dir \in Seq(DirRecord)
  BY DEF Typed, WatchTyped
<1>1. Embeds(m_file, m_file', k)
  BY <1>typed, Erased, RemoveAtEmbeds DEF Files
<1>2. CASE LastOf(k)
  <2>1. \E i \in Dirs : m_dir[i].wd = m_file[k].dir_wd
    BY DEF Known
  <2>2. PICK d \in Dirs : m_dir[d].wd = m_file[k].dir_wd /\ m_dir' = RemoveAt(m_dir, d)
    BY <1>2, <2>1, Erased
  <2>3. Embeds(m_dir, m_dir', d) /\ d \in 0..Len(m_dir) /\ d # 0
    BY <1>typed, <2>2, RemoveAtEmbeds DEF Dirs
  <2>4. watched' = WithoutWatch(watched, m_file[k].dir_wd)
    BY <1>2, Erased
  <2>5. QED
    BY <1>1, <1>2, <2>2, <2>3, <2>4
<1>3. CASE ~LastOf(k)
  <2>1. m_dir' = m_dir /\ watched' = watched
    BY <1>3, Erased
  <2>2. Embeds(m_dir, m_dir', 0) /\ 0 \in 0..Len(m_dir)
    BY <1>typed, <2>1, RemoveAtEmbeds
  <2> DEFINE d == 0
  <2>3. /\ Embeds(m_dir, m_dir', d) /\ d \in 0..Len(m_dir)
        /\ d # 0 <=> LastOf(k)
        /\ d # 0 => m_dir[d].wd = m_file[k].dir_wd
        /\ watched' = IF d # 0 THEN WithoutWatch(watched, m_file[k].dir_wd) ELSE watched
    BY <1>3, <2>1, <2>2
  <2> HIDE DEF d
  <2>4. QED
    BY <1>1, <2>3
<1>4. QED
  BY <1>2, <1>3

LEMMA ErasedEvents ==
    ASSUME Typed, NEW k \in Files, SetLists(EraseFile(Lists, k)), UNCHANGED batch
    PROVE  /\ \A wd, name : Pending(wd, name)' = Pending(wd, name)
           /\ \A wd : StopPending(wd) => StopPending(wd)' \/ handling # handling'
<1>typed. queue \in Seq(Events) /\ m_file[k].dir_wd \in Nat
  BY FileFields DEF Typed, KernelTyped
<1> DEFINE ev == IgnoredEvent(m_file[k].dir_wd)
<1>1. queue' = queue \/ queue' = Append(queue, ev)
  BY Erased
<1>2. ev \in Events /\ \A wd, name : ev # FileEvent(wd, name)
  BY <1>typed, EventsTyped
<1> HIDE DEF ev
<1>3. ASSUME NEW wd, NEW name PROVE Pending(wd, name)' = Pending(wd, name)
  <2> DEFINE S == {FileEvent(wd, name)}
  <2>1. Count(Append(queue, ev), S) = Count(queue, S) + IF ev \in S THEN 1 ELSE 0
    BY <1>typed, <1>2, CountAppend
  <2>2. ev \notin S
    BY <1>2
  <2>3. Count(queue, S) \in Nat
    BY <1>typed, CountFinite
  <2> HIDE DEF S
  <2>4. Count(queue', S) = Count(queue, S)
    <3>1. Count(Append(queue, ev), S) = Count(queue, S)
      BY <2>1, <2>2, <2>3
    <3>2. QED
      BY <1>1, <3>1, Zenon
  <2>5. CountOf(queue', wd, name) = CountOf(queue, wd, name)
    <3>1. queue' \in Seq(Events)
      BY <1>1, <1>typed, <1>2
    <3>2. CountOf(queue', wd, name) = Count(queue', S)
      BY <3>1, CountOfEvents DEF S
    <3>3. CountOf(queue, wd, name) = Count(queue, S)
      BY <1>typed, CountOfEvents DEF S
    <3>4. QED
      BY <2>4, <3>2, <3>3
  <2>6. CountOf(batch', wd, name) = CountOf(batch, wd, name)
    OBVIOUS
  <2>7. QED
    BY <2>5, <2>6 DEF Pending
<1>4. ASSUME NEW wd, StopPending(wd), handling = handling' PROVE StopPending(wd)'
  <2>1. CASE \E i \in DOMAIN queue : queue[i] = SelfEvent(wd)
    <3>1. PICK i \in DOMAIN queue : queue[i] = SelfEvent(wd)
      BY <2>1
    <3>2. i \in DOMAIN queue' /\ queue'[i] = queue[i]
      BY <1>1, <1>typed, <1>2
    <3>3. QED
      BY <3>1, <3>2 DEF StopPending
  <2>2. CASE handling = SelfEvent(wd) \/ \E i \in DOMAIN batch : batch[i] = SelfEvent(wd)
    BY <1>4, <2>2 DEF StopPending
  <2>3. QED
    BY <1>4, <2>1, <2>2 DEF StopPending
<1>5. QED
  BY <1>3, <1>4

LEMMA EraseKept ==
    ASSUME Typed, Known, NEW k \in Files, SetLists(EraseFile(Lists, k)),
           UNCHANGED <<inode, batch, path, raised, heard, shared>>,
           \A j \in Files : j # k =>
               \A wd : wd = m_file[j].dir_wd /\ StopPending(wd) => StopPending(wd)'
    PROVE  Known' /\ (Agreed /\ Heard => Agreed' /\ Heard')
<1>1. PICK d \in 0..Len(m_dir) :
               /\ Embeds(m_file, m_file', k)
               /\ Embeds(m_dir, m_dir', d)
               /\ d # 0 <=> LastOf(k)
               /\ d # 0 => m_dir[d].wd = m_file[k].dir_wd
               /\ watched' = IF d # 0 THEN WithoutWatch(watched, m_file[k].dir_wd) ELSE watched
  BY ErasedEmbeds
<1> DEFINE f(i) == Before(k, i)
           e(i) == Before(d, i)
<1>2. \A i \in Files' : f(i) \in Files /\ f(i) # k /\ m_file'[i] = m_file[f(i)]
  BY <1>1 DEF Embeds, Files
<1>3. \A i \in Dirs' : e(i) \in Dirs /\ e(i) # d /\ m_dir'[i] = m_dir[e(i)]
  BY <1>1 DEF Embeds, Dirs
<1>4. \A i, j \in Files' : f(i) = f(j) => i = j
  BY <1>1 DEF Embeds, Files
<1>5. \A i, j \in Dirs' : e(i) = e(j) => i = j
  BY <1>1 DEF Embeds, Dirs
<1>6. \A x \in Files : x # k => \E i \in Files' : f(i) = x
  BY <1>1 DEF Embeds, Files
<1>7. \A x \in Dirs : x # d => \E i \in Dirs' : e(i) = x
  BY <1>1 DEF Embeds, Dirs
<1>8. \A j \in Files : j # k => d = 0 \/ m_file[j].dir_wd # m_file[k].dir_wd
  BY <1>1 DEF LastOf
<1> HIDE DEF f, e
<1>9. Known'
  <2>1. \A i, j \in Files' : m_file'[i].id = m_file'[j].id => i = j
    BY <1>2, <1>4 DEF Known
  <2>2. \A i, j \in Dirs' : m_dir'[i].name = m_dir'[j].name => i = j
    BY <1>3, <1>5 DEF Known
  <2>3. \A i \in Files' : \E j \in Dirs' : m_dir'[j].wd = m_file'[i].dir_wd
    <3>1. SUFFICES ASSUME NEW i \in Files' PROVE \E j \in Dirs' : m_dir'[j].wd = m_file'[i].dir_wd
      OBVIOUS
    <3>2. PICK x \in Dirs : m_dir[x].wd = m_file[f(i)].dir_wd
      BY <1>2 DEF Known
    <3>3. x # d
      <4>1. d = 0 \/ m_file[f(i)].dir_wd # m_file[k].dir_wd
        BY <1>2, <1>8
      <4>2. QED
        BY <1>1, <3>2, <4>1 DEF Dirs
    <3>4. QED
      BY <1>2, <1>3, <1>7, <3>2, <3>3
  <2>4. \A i, j \in Files' :
           m_file'[i].dir_wd = m_file'[j].dir_wd /\ m_file'[i].name = m_file'[j].name =>
               i = j \/ m_file'[i].id \in shared'
    BY <1>2, <1>4 DEF Known
  <2>5. \A i \in Files' : path'[m_file'[i].id] \in Path /\ path'[m_file'[i].id].name = m_file'[i].name
    BY <1>2 DEF Known
  <2>6. QED
    BY <2>1, <2>2, <2>3, <2>4, <2>5 DEF Known
<1>10. ASSUME Agreed, Heard PROVE Agreed' /\ Heard'
  <2>1. \A i \in Files' : \A wd : wd = m_file'[i].dir_wd /\ StopPending(wd) => StopPending(wd)'
    BY <1>2
  <2>2. \A i, j \in Dirs' : m_dir'[i].wd = m_dir'[j].wd => i = j
    BY <1>3, <1>5, <1>10 DEF Agreed
  <2>other. \A i \in Dirs' : d = 0 \/ m_dir'[i].wd # m_file[k].dir_wd
    BY <1>1, <1>3, <1>10 DEF Agreed, Dirs
  <2>3. \A i \in Dirs' : \E j \in Files' : m_file'[j].dir_wd = m_dir'[i].wd
    <3>1. SUFFICES ASSUME NEW i \in Dirs' PROVE \E j \in Files' : m_file'[j].dir_wd = m_dir'[i].wd
      OBVIOUS
    <3>2. \E x \in Files : x # k /\ m_file[x].dir_wd = m_dir'[i].wd
      <4>1. PICK x \in Files : m_file[x].dir_wd = m_dir'[i].wd
        BY <1>3, <1>10 DEF Agreed
      <4>2. CASE d # 0
        BY <2>other, <4>1, <4>2
      <4>3. CASE d = 0
        BY <1>1, <4>1, <4>3 DEF LastOf
      <4>4. QED
        BY <4>2, <4>3
    <3>3. QED
      BY <1>2, <1>6, <3>2
  <2>4. \A wd \in DOMAIN watched' : \E i \in Dirs' : m_dir'[i].wd = wd
    <3>1. SUFFICES ASSUME NEW wd \in DOMAIN watched' PROVE \E i \in Dirs' : m_dir'[i].wd = wd
      OBVIOUS
    <3>2. wd \in DOMAIN watched /\ (d = 0 \/ wd # m_file[k].dir_wd)
      BY <1>1 DEF WithoutWatch
    <3>3. PICK x \in Dirs : m_dir[x].wd = wd
      BY <1>10, <3>2 DEF Agreed
    <3>4. x # d
      BY <1>1, <3>2, <3>3 DEF Dirs
    <3>5. QED
      BY <1>3, <1>7, <3>3, <3>4
  <2>5. \A i \in Dirs' : Watching(m_dir[i])'
    <3>1. SUFFICES ASSUME NEW i \in Dirs' PROVE Watching(m_dir[i])'
      OBVIOUS
    <3>2. m_dir'[i] = m_dir[e(i)] /\ Watching(m_dir[e(i)])
      BY <1>3, <1>10 DEF Agreed
    <3>3. CASE m_dir'[i].wd \in DOMAIN watched /\ watched[m_dir'[i].wd] = inode[m_dir'[i].name]
      <4>1. m_dir'[i].wd \in DOMAIN watched' /\ watched'[m_dir'[i].wd] = watched[m_dir'[i].wd]
        BY <1>1, <2>other, <3>3 DEF WithoutWatch
      <4>2. QED
        BY <3>3, <4>1 DEF Watching
    <3>4. ASSUME NEW wd, wd = m_dir'[i].wd, StopPending(wd) PROVE StopPending(wd)'
      BY <2>1, <2>3, <3>4
    <3>5. CASE StopPending(m_dir'[i].wd)
      BY <3>4, <3>5 DEF Watching, StopPending
    <3>6. QED
      BY <3>2, <3>3, <3>5 DEF Watching
  <2>6. \A i \in Files' :
           \E j \in Dirs' : m_dir'[j] = [wd |-> m_file'[i].dir_wd, name |-> path'[m_file'[i].id].dir]
    <3>1. SUFFICES ASSUME NEW i \in Files'
                   PROVE  \E j \in Dirs' : m_dir'[j] = [wd |-> m_file'[i].dir_wd,
                                                       name |-> path'[m_file'[i].id].dir]
      OBVIOUS
    <3>2. PICK x \in Dirs : m_dir[x] = [wd |-> m_file[f(i)].dir_wd, name |-> path[m_file[f(i)].id].dir]
      BY <1>2, <1>10 DEF Agreed
    <3>3. x # d
      <4>1. m_dir[x].wd = m_file[f(i)].dir_wd
        BY <3>2
      <4>2. d = 0 \/ m_file[f(i)].dir_wd # m_file[k].dir_wd
        BY <1>2, <1>8
      <4>3. QED
        BY <1>1, <4>1, <4>2 DEF Dirs
    <3>4. QED
      BY <1>2, <1>3, <1>7, <3>2, <3>3
  <2>7. Agreed'
    BY <2>2, <2>3, <2>4, <2>5, <2>6 DEF Agreed
  <2>8. Heard'
    <3>1. SUFFICES ASSUME NEW i \in Files', m_file'[i].id \notin shared'
                   PROVE  \/ heard'[m_file'[i].id] + Pending(m_file[i].dir_wd, m_file[i].name)'
                                 = raised'[m_file'[i].id]
                          \/ StopPending(m_file[i].dir_wd)'
      BY DEF Heard
    <3>2. \/ heard[m_file[f(i)].id] + Pending(m_file[f(i)].dir_wd, m_file[f(i)].name)
                  = raised[m_file[f(i)].id]
          \/ StopPending(m_file[f(i)].dir_wd)
      BY <1>2, <1>10, <3>1 DEF Heard
    <3>3. CASE heard[m_file[f(i)].id] + Pending(m_file[f(i)].dir_wd, m_file[f(i)].name)
                  = raised[m_file[f(i)].id]
      <4>1. \A wd, name : Pending(wd, name)' = Pending(wd, name)
        BY ErasedEvents
      <4>2. QED
        BY <1>2, <3>3, <4>1
    <3>4. CASE StopPending(m_file[f(i)].dir_wd)
      BY <1>2, <2>1, <3>4
    <3>5. QED
      BY <3>2, <3>3, <3>4
  <2>9. QED
    BY <2>7, <2>8
<1>11. QED
  BY <1>9, <1>10

\* A prefix of what is left when element k is removed
LEMMA PrefixOfRemoveAt ==
    ASSUME NEW T, NEW s \in Seq(T), NEW k \in 1..Len(s), NEW n \in 0 .. Len(s) - 1
    PROVE  SubSeq(RemoveAt(s, k), 1, n) = IF n + 1 < k THEN SubSeq(s, 1, n)
                                         ELSE RemoveAt(SubSeq(s, 1, n + 1), k)
<1> DEFINE r == RemoveAt(s, k)
<1>1. /\ r \in Seq(T) /\ Len(r) = Len(s) - 1 /\ Len(s) \in Nat
      /\ \A j \in 1 .. Len(s) - 1 : r[j] = IF j < k THEN s[j] ELSE s[j + 1]
  <2>1. Len(s) \in Nat
    OBVIOUS
  <2>2. QED
    BY <2>1, RemoveAtProperties
<1> HIDE DEF r
<1>2. /\ SubSeq(r, 1, n) \in Seq(T) /\ Len(SubSeq(r, 1, n)) = n
      /\ \A j \in 1..n : SubSeq(r, 1, n)[j] = r[j]
  BY <1>1
<1>3. CASE n + 1 < k
  <2>1. /\ SubSeq(s, 1, n) \in Seq(T) /\ Len(SubSeq(s, 1, n)) = n
        /\ \A j \in 1..n : SubSeq(s, 1, n)[j] = s[j]
    OBVIOUS
  <2>2. \A j \in 1..n : SubSeq(r, 1, n)[j] = SubSeq(s, 1, n)[j]
    BY <1>1, <1>2, <1>3, <2>1
  <2>3. SubSeq(r, 1, n) = SubSeq(s, 1, n)
    BY <1>2, <2>1, <2>2, SeqEqual
  <2>4. QED
    BY <1>3, <2>3 DEF r
<1>4. CASE ~(n + 1 < k)
  <2> DEFINE a == SubSeq(s, 1, n + 1)
             b == RemoveAt(a, k)
  <2>1. a \in Seq(T) /\ Len(a) = n + 1 /\ k \in 1..Len(a) /\ \A j \in 1 .. n + 1 : a[j] = s[j]
    BY <1>4
  <2> HIDE DEF a
  <2>2. /\ b \in Seq(T) /\ Len(b) = n
        /\ \A j \in 1..n : b[j] = IF j < k THEN a[j] ELSE a[j + 1]
    <3>1. (n + 1) - 1 = n
      OBVIOUS
    <3>2. QED
      BY <2>1, <3>1, RemoveAtProperties
  <2> HIDE DEF b
  <2>3. \A j \in 1..n : SubSeq(r, 1, n)[j] = b[j]
    BY <1>1, <1>2, <2>1, <2>2
  <2>4. SubSeq(r, 1, n) = b
    BY <1>2, <2>2, <2>3, SeqEqual
  <2>5. QED
    BY <1>4, <2>4 DEF r, a, b
<1>5. QED
  BY <1>3, <1>4

LEMMA RemoveCalledKept ==
    ASSUME Typed, NothingLeft, ListsKept, NEW p \in Path, RemoveCalled(p)
    PROVE  ListsKept'
<1> DEFINE k == RemovedIndex(Lists, p)
<1>known. Known /\ CallbackRuns /\ CalledInOrder
  BY DEF ListsKept
<1>1. k \in Files /\ k # 0 /\ m_file[k].id # calling
  BY <1>known, RemovedIndexOf, PathAssumption DEF RemoveCalled, RemoveWatch
<1>2. SetLists(EraseFile(Lists, k))
  BY <1>1 DEF RemoveCalled, RemoveWatch, RemovePath
<1>3. /\ UNCHANGED <<inode, batch, handling, calling, gone, added>>
      /\ UNCHANGED <<path, raised, heard, stopped, shared, aliased>>
  BY DEF RemoveCalled, RemoveWatch, history
<1>4. calling # 0 \/ handling = None
  BY DEF RemoveCalled, MayCall, NothingLeft
<1> HIDE DEF k
<1>fields. /\ \A i \in Files : m_file[i] \in FileRecord /\ m_file[i].name \in FileName
           /\ m_file \in Seq(FileRecord) /\ m_dir \in Seq(DirRecord)
           /\ m_file' = RemoveAt(m_file, k)
           /\ Len(m_file') = Len(m_file) - 1 /\ Len(m_file) \in Nat
           /\ m_file' \in Seq(FileRecord)
  <2>1. m_file \in Seq(FileRecord) /\ m_dir \in Seq(DirRecord)
    BY DEF Typed, WatchTyped
  <2>2. m_file' = RemoveAt(m_file, k)
    BY <1>1, <1>2, Erased
  <2>3. /\ m_file' \in Seq(FileRecord) /\ Len(m_file') = Len(m_file) - 1
    BY <1>1, <2>1, <2>2, RemoveAtProperties DEF Files
  <2>4. Len(m_file) \in Nat
    BY <2>1
  <2>5. \A i \in Files : m_file[i] \in FileRecord /\ m_file[i].name \in FileName
    BY FileFields
  <2>6. QED
    BY <2>1, <2>2, <2>3, <2>4, <2>5
<1>5. Known' /\ (~aliased' => Agreed' /\ Heard')
  <2>1. \A wd : StopPending(wd) => StopPending(wd)'
    BY <1>1, <1>2, <1>3, ErasedEvents
  <2>2. QED
    BY <1>1, <1>2, <1>3, <1>known, <2>1, EraseKept DEF ListsKept
<1>6. PICK d \in 0..Len(m_dir) :
               /\ Embeds(m_file, m_file', k)
               /\ Embeds(m_dir, m_dir', d)
               /\ d # 0 <=> LastOf(k)
               /\ d # 0 => m_dir[d].wd = m_file[k].dir_wd
  BY <1>1, <1>2, <1>known, ErasedEmbeds
<1>7. CallbackRuns'
  <2>1. calling # 0 => \E i \in Files' : m_file'[i].id = calling /\ m_file'[i].dir_wd = handling.wd
    <3>1. SUFFICES ASSUME calling # 0
                   PROVE  \E i \in Files' : m_file'[i].id = calling /\ m_file'[i].dir_wd = handling.wd
      OBVIOUS
    <3>2. PICK c \in Files : m_file[c].id = calling /\ m_file[c].dir_wd = handling.wd
      BY <1>known, <3>1 DEF CallbackRuns
    <3>3. c # k
      BY <1>1, <3>2
    <3>4. PICK j \in 1..Len(m_file') : Before(k, j) = c /\ m_file'[j] = m_file[Before(k, j)]
      BY <1>6, <3>2, <3>3 DEF Embeds, Files
    <3>5. QED
      BY <3>2, <3>4 DEF Files
  <2>2. QED
    BY <1>3, <1>known, <2>1 DEF CallbackRuns
<1>8. CASE ~Stopping
  <2>1. \A i \in Files' : m_file'[i].id \notin stopped
    BY <1>6, <1>8, <1>known DEF CalledInOrder, Embeds, Files
  <2>2. CalledInOrder'
    BY <1>3, <1>8, <2>1 DEF CalledInOrder, Stopping
  <2>3. QED
    BY <1>5, <1>7, <2>2 DEF ListsKept
<1>9. CASE Stopping
  <2>1. calling # 0 /\ Stopping'
    BY <1>3, <1>4, <1>9 DEF Stopping
  <2>2. PICK c \in Files : m_file[c].id = calling /\ m_file[c].dir_wd = handling.wd
    BY <1>known, <2>1 DEF CallbackRuns
  <2>3. c # k /\ (m_file[k].dir_wd = handling.wd => d = 0)
    BY <1>1, <1>6, <2>2 DEF LastOf
  <2>4. \A i \in Files' :
           m_file'[i].id \in stopped =>
               /\ m_file'[i].dir_wd = handling.wd
               /\ \A at \in Files' : m_file'[at].id = calling => i <= at
    <3>1. SUFFICES ASSUME NEW i \in Files', m_file'[i].id \in stopped
                   PROVE  /\ m_file'[i].dir_wd = handling.wd
                          /\ \A at \in Files' : m_file'[at].id = calling => i <= at
      OBVIOUS
    <3>2. /\ \A j \in Files' : Before(k, j) \in Files /\ m_file'[j] = m_file[Before(k, j)]
          /\ \A j \in Files' : i <= j <=> Before(k, i) <= Before(k, j)
      BY <1>6 DEF Embeds, Files
    <3>3. /\ m_file[Before(k, i)].dir_wd = handling.wd
          /\ \A at \in Files : m_file[at].id = calling => Before(k, i) <= at
      BY <1>known, <3>1, <3>2 DEF CalledInOrder
    <3>4. QED
      BY <3>2, <3>3
  <2>5. ASSUME NEW i \in Files', NEW j \in Dirs', m_dir'[j].wd = handling.wd
        PROVE  \/ \E x \in 1 .. j - 1 : m_dir'[x].wd = handling.wd
               \/ \A x \in DOMAIN gone : gone[x].dir = m_dir'[j].name
    <3> DEFINE y == Before(d, j)
    <3>1. y \in Dirs /\ m_dir[y].wd = handling.wd /\ m_dir[y] = m_dir'[j]
      BY <1>6, <2>5 DEF Embeds, Dirs
    <3>2. CASE \A x \in DOMAIN gone : gone[x].dir = m_dir[y].name
      BY <3>1, <3>2
    <3>3. CASE \E x \in 1 .. y - 1 : m_dir[x].wd = handling.wd
      <4>1. PICK x \in 1 .. y - 1 : m_dir[x].wd = handling.wd
        BY <3>3
      <4>2. x \in Dirs /\ y \in Nat /\ x # d /\ x < y
        <5>1. y \in Nat /\ y <= Len(m_dir) /\ Len(m_dir) \in Nat
          BY <1>fields, <3>1 DEF Dirs
        <5>2. x \in Dirs /\ x < y
          BY <5>1 DEF Dirs
        <5>3. x # d
          BY <1>6, <2>3, <4>1, <5>2 DEF Dirs
        <5>4. QED
          BY <5>1, <5>2, <5>3
      <4>3. PICK z \in 1..Len(m_dir') : Before(d, z) = x
        BY <1>6, <4>2 DEF Embeds, Dirs
      <4>4. z < j
        <5>1. ~(j <= z)
          <6>1. ~(y <= x)
            BY <4>2 DEF Dirs
          <6>2. QED
            BY <1>6, <4>3, <6>1 DEF Embeds, Dirs
        <5>2. z \in Nat /\ j \in Nat
          BY DEF Dirs
        <5>3. QED
          BY <5>1, <5>2
      <4>5. z \in 1 .. j - 1 /\ m_dir'[z] = m_dir[x]
        <5>1. z \in 1 .. j - 1
          BY <4>4 DEF Dirs
        <5>2. QED
          BY <1>6, <4>3, <5>1 DEF Embeds
      <4>6. QED
        BY <4>1, <4>5
    <3>4. QED
      BY <1>known, <1>9, <2>2, <3>1, <3>2, <3>3 DEF CalledInOrder
  <2>6. ASSUME NEW name \in FileName, NEW n \in 0..Len(m_file'),
               n < Len(m_file') /\ m_file'[n + 1].id = calling
        PROVE  Count(SubSeq(m_file', 1, n), Named(handling.wd, name)) <= Count(gone, PathsNamed(name))
    <3> DEFINE S == Named(handling.wd, name)
    <3>1. n + 1 \in 1..Len(m_file')
      BY <1>fields, <2>6
    <3>2. Before(k, n + 1) \in Files /\ m_file[Before(k, n + 1)].id = calling
      BY <1>6, <2>6, <3>1 DEF Embeds, Files
    <3>3. Before(k, n + 1) = c
      BY <1>known, <2>2, <3>2 DEF Known
    <3>4. Count(SubSeq(m_file, 1, c - 1), S) <= Count(gone, PathsNamed(name))
      <4>1. c - 1 \in 0..Len(m_file) /\ c - 1 < Len(m_file) /\ (c - 1) + 1 = c
        BY <1>fields DEF Files
      <4>2. m_file[(c - 1) + 1].id = calling
        BY <2>2, <4>1
      <4>3. QED
        BY <1>known, <1>9, <4>1, <4>2 DEF CalledInOrder
    <3>5. Count(SubSeq(m_file', 1, n), S) <= Count(SubSeq(m_file, 1, c - 1), S)
      <4>1. SubSeq(m_file', 1, n) = IF n + 1 < k THEN SubSeq(m_file, 1, c - 1)
                                    ELSE RemoveAt(SubSeq(m_file, 1, c - 1), k)
        <5>1. n \in 0 .. Len(m_file) - 1 /\ k \in 1..Len(m_file)
          BY <1>1, <1>fields, <3>1 DEF Files
        <5>2. SubSeq(m_file', 1, n) = IF n + 1 < k THEN SubSeq(m_file, 1, n)
                                      ELSE RemoveAt(SubSeq(m_file, 1, n + 1), k)
          BY <1>fields, <5>1, PrefixOfRemoveAt
        <5>3. IF n + 1 < k THEN n = c - 1 ELSE n + 1 = c - 1
          BY <1>1, <1>fields, <3>1, <3>3 DEF Before, Files
        <5>4. QED
          BY <5>2, <5>3
      <4>2. SubSeq(m_file, 1, c - 1) \in Seq(FileRecord) /\ Len(SubSeq(m_file, 1, c - 1)) = c - 1
        BY <1>fields DEF Files
      <4>3. Count(SubSeq(m_file, 1, c - 1), S) \in Nat
        BY <4>2, CountFinite
      <4>4. CASE n + 1 < k
        <5>1. Count(SubSeq(m_file', 1, n), S) = Count(SubSeq(m_file, 1, c - 1), S)
          BY <4>1, <4>4
        <5>2. QED
          BY <4>3, <5>1
      <4>5. CASE ~(n + 1 < k)
        <5> DEFINE s == SubSeq(m_file, 1, c - 1)
        <5>1. k \in 1..Len(s)
          BY <1>1, <1>fields, <3>1, <3>3, <4>2, <4>5 DEF Before, Files
        <5>2. s \in Seq(FileRecord)
          BY <4>2
        <5> HIDE DEF s, S
        <5>3. Count(s, S) = Count(RemoveAt(s, k), S) + IF s[k] \in S THEN 1 ELSE 0
          BY <5>1, <5>2, CountRemoveAt
        <5>4. RemoveAt(s, k) \in Seq(FileRecord)
          BY <5>1, <5>2, RemoveAtProperties
        <5>5. Count(RemoveAt(s, k), S) \in Nat
          BY <5>4, CountFinite
        <5>6. Count(RemoveAt(s, k), S) <= Count(s, S)
          BY <5>3, <5>5
        <5>7. QED
          BY <4>1, <4>5, <5>6 DEF s
      <4>6. QED
        BY <4>4, <4>5
    <3>6. /\ Count(SubSeq(m_file', 1, n), S) \in Nat
          /\ Count(SubSeq(m_file, 1, c - 1), S) \in Nat
      <4>1. SubSeq(m_file', 1, n) \in Seq(FileRecord)
        BY <1>fields
      <4>2. SubSeq(m_file, 1, c - 1) \in Seq(FileRecord)
        BY <1>fields DEF Files
      <4>3. Count(SubSeq(m_file', 1, n), S) \in Nat
        BY <4>1, CountFinite
      <4>4. Count(SubSeq(m_file, 1, c - 1), S) \in Nat
        BY <4>2, CountFinite
      <4>5. QED
        BY <4>3, <4>4
    <3>7. Count(gone, PathsNamed(name)) \in Nat
      <4>1. gone \in Seq([dir : DirName, name : FileName])
        BY DEF Typed, WatchTyped
      <4>2. QED
        BY <4>1, CountFinite
    <3> HIDE DEF S
    <3>8. Count(SubSeq(m_file', 1, n), S) <= Count(gone, PathsNamed(name))
      BY <3>4, <3>5, <3>6, <3>7
    <3>9. QED
      BY <3>8 DEF S
  <2>7. CalledInOrder'
    BY <1>3, <2>1, <2>4, <2>5, <2>6 DEF CalledInOrder
  <2>8. QED
    BY <1>5, <1>7, <2>7 DEF ListsKept
<1>10. QED
  BY <1>8, <1>9

LEMMA TailElements ==
    ASSUME NEW T, NEW s \in Seq(T), s # <<>>
    PROVE  \A i \in DOMAIN Tail(s) : i + 1 \in DOMAIN s /\ Tail(s)[i] = s[i + 1]
OBVIOUS

\* What RemoveGone leaves: of the files in the directory of the event, only
\* those whose paths are still in the list.
LEMMA RemoveGoneCounts ==
    ASSUME Typed, ListsKept, RemoveGone
    PROVE  /\ Stopping
           /\ \/ UNCHANGED <<m_file, m_dir, watched, queue>>
              \/ \E k \in Files :
                     /\ SetLists(EraseFile(Lists, k))
                     /\ (\E i \in Files : m_file[i].dir_wd = handling.wd) =>
                            m_file[k].dir_wd = handling.wd
           /\ m_file' \in Seq(FileRecord)
           /\ gone' \in Seq([dir : DirName, name : FileName])
           /\ \A i \in 1..Len(m_file') : \E j \in Files : m_file'[i] = m_file[j]
           /\ \A name \in FileName :
                  Count(m_file', Named(handling.wd, name)) <= Count(gone', PathsNamed(name))
<1> DEFINE p == Head(gone)
           k == RemovedIndex(Lists, p)
           GonePath == [dir : DirName, name : FileName]
<1>known. Known /\ CallbackRuns /\ CalledInOrder
  BY DEF ListsKept
<1>1. /\ handling # None /\ calling = 0 /\ gone # <<>>
      /\ SetLists(RemovePath(Lists, p)) /\ gone' = Tail(gone)
  BY DEF RemoveGone
<1>2. Stopping
  BY <1>1, <1>known DEF CallbackRuns, Stopping
<1>typed. m_file \in Seq(FileRecord) /\ m_dir \in Seq(DirRecord) /\ gone \in Seq(GonePath)
  BY DEF Typed, WatchTyped
<1>3. p \in GonePath /\ gone' \in Seq(GonePath)
  <2> HIDE DEF GonePath
  <2>1. QED
    BY <1>1, <1>typed
<1>4. /\ k = 0 \/ k \in Files
      /\ \A d \in Dirs, j \in Files :
             m_dir[d].name = p.dir /\ m_file[j].dir_wd = m_dir[d].wd
                 /\ m_file[j].name = p.name => k # 0 /\ k <= j
      /\ k # 0 => \E d \in Dirs : m_dir[d].name = p.dir /\ m_file[k].dir_wd = m_dir[d].wd
                                  /\ m_file[k].name = p.name
  BY <1>3, <1>known, RemovedIndexOf
<1> HIDE DEF k
<1>5. /\ k = 0 => UNCHANGED <<m_file, m_dir, watched, queue>>
      /\ k # 0 => SetLists(EraseFile(Lists, k)) /\ m_file' = RemoveAt(m_file, k)
  <2>1. CASE k = 0
    BY <1>1, <2>1 DEF RemovePath, SetLists, Lists, k
  <2>2. CASE k # 0
    <3>1. SetLists(EraseFile(Lists, k))
      BY <1>1, <2>2 DEF RemovePath, k
    <3>2. QED
      BY <1>4, <2>2, <3>1, Erased
  <2>3. QED
    BY <2>1, <2>2
<1>6. /\ m_file' \in Seq(FileRecord)
      /\ \A i \in 1..Len(m_file') : \E j \in Files : m_file'[i] = m_file[j]
  <2>1. CASE k = 0
    BY <1>5, <1>typed, <2>1 DEF Files
  <2>2. CASE k # 0
    <3>1. k \in 1..Len(m_file) /\ m_file' = RemoveAt(m_file, k)
      BY <1>4, <1>5, <2>2 DEF Files
    <3>2. m_file' \in Seq(FileRecord)
      BY <1>typed, <3>1, RemoveAtProperties
    <3>3. Embeds(m_file, m_file', k)
      BY <1>typed, <3>1, RemoveAtEmbeds
    <3>4. QED
      BY <3>2, <3>3 DEF Embeds, Files
  <2>3. QED
    BY <2>1, <2>2
\* The first entry of the directory in m_dir has the name in the list.
<1>7. ASSUME NEW i \in Files, m_file[i].dir_wd = handling.wd
      PROVE  \E d \in Dirs : m_dir[d].wd = handling.wd /\ m_dir[d].name = p.dir
  <2> DEFINE I == {j \in Dirs : m_dir[j].wd = handling.wd}
             d == Min(I)
  <2>1. I # {} /\ I \in SUBSET Nat
    BY <1>7, <1>known DEF Known, Dirs
  <2>2. d \in I /\ \A j \in I : d <= j
    BY <2>1, LeastOf
  <2> HIDE DEF d
  <2>3. ~ \E x \in 1 .. d - 1 : m_dir[x].wd = handling.wd
    <3>1. SUFFICES ASSUME NEW x \in 1 .. d - 1, m_dir[x].wd = handling.wd PROVE FALSE
      OBVIOUS
    <3>2. x \in I /\ ~(d <= x)
      BY <1>typed, <2>2, <3>1 DEF Dirs
    <3>3. QED
      BY <2>2, <3>2
  <2>4. \A x \in DOMAIN gone : gone[x].dir = m_dir[d].name
    BY <1>2, <1>7, <1>known, <2>2, <2>3 DEF CalledInOrder
  <2>5. p = gone[1] /\ 1 \in DOMAIN gone
    <3> HIDE DEF GonePath
    <3>1. QED
      BY <1>1, <1>typed
  <2>6. QED
    BY <2>2, <2>4, <2>5
<1>8. ASSUME NEW name \in FileName
      PROVE  Count(m_file', Named(handling.wd, name)) <= Count(gone', PathsNamed(name))
  <2> DEFINE S == Named(handling.wd, name)
             U == PathsNamed(name)
  <2>1. Count(m_file, S) <= Count(gone, U)
    <3>1. Len(m_file) \in 0..Len(m_file) /\ SubSeq(m_file, 1, Len(m_file)) = m_file
      BY <1>typed
    <3>2. Count(SubSeq(m_file, 1, Len(m_file)), S) <= Count(gone, U)
      BY <1>1, <1>2, <1>known, <3>1 DEF CalledInOrder
    <3>3. QED
      BY <3>1, <3>2
  <2>2. Count(gone, U) = Count(gone', U) + IF p \in U THEN 1 ELSE 0
    <3> HIDE DEF GonePath, U
    <3>1. QED
      BY <1>1, <1>typed, CountTail
  <2>3. Count(m_file, S) \in Nat
    BY <1>typed, CountFinite
  <2>4. Count(m_file', S) \in Nat
    BY <1>6, CountFinite
  <2>5. Count(gone', U) \in Nat
    BY <1>3, CountFinite
  <2>6. p \in U <=> p.name = name
    BY <1>3 DEF PathsNamed
  <2>7. CASE k # 0
    <3>1. k \in 1..Len(m_file) /\ m_file' = RemoveAt(m_file, k)
      BY <1>4, <1>5, <2>7 DEF Files
    <3>2. Count(m_file, S) = Count(m_file', S) + IF m_file[k] \in S THEN 1 ELSE 0
      BY <1>typed, <3>1, CountRemoveAt
    <3>3. CASE \E i \in Files : m_file[i].dir_wd = handling.wd
      <4>1. PICK d \in Dirs : m_dir[d].wd = handling.wd /\ m_dir[d].name = p.dir
        BY <1>7, <3>3
      <4>2. m_file[k].dir_wd = handling.wd /\ m_file[k].name = p.name
        BY <1>4, <1>known, <2>7, <4>1 DEF Known
      <4>3. m_file[k] \in S <=> p \in U
        BY <1>typed, <2>6, <3>1, <4>2 DEF Named
      <4> HIDE DEF S, U
      <4>4. Count(m_file', S) <= Count(gone', U)
        BY <2>1, <2>2, <2>3, <2>4, <2>5, <3>2, <4>3
      <4>5. QED
        BY <4>4 DEF S, U
    <3>4. CASE ~ \E i \in Files : m_file[i].dir_wd = handling.wd
      <4>1. \A i \in 1..Len(m_file') : m_file'[i] \notin S
        BY <1>6, <3>4 DEF Named
      <4>2. Count(m_file', S) = 0
        BY <1>6, <4>1, CountFinite
      <4> HIDE DEF S, U
      <4>3. Count(m_file', S) <= Count(gone', U)
        BY <2>5, <4>2
      <4>4. QED
        BY <4>3 DEF S, U
    <3>5. QED
      BY <3>3, <3>4
  <2>8. CASE k = 0
    <3>1. m_file' = m_file
      BY <1>5, <2>8
    <3>2. CASE p.name = name
      <4>1. \A i \in 1..Len(m_file) : m_file[i] \notin S
        <5>1. SUFFICES ASSUME NEW i \in 1..Len(m_file), m_file[i] \in S PROVE FALSE
          OBVIOUS
        <5>2. i \in Files /\ m_file[i].dir_wd = handling.wd /\ m_file[i].name = p.name
          BY <3>2, <5>1 DEF Files, Named
        <5>3. QED
          BY <1>4, <1>7, <2>8, <5>2
      <4>2. Count(m_file, S) = 0
        BY <1>typed, <4>1, CountFinite
      <4> HIDE DEF S, U
      <4>3. Count(m_file', S) <= Count(gone', U)
        BY <2>5, <3>1, <4>2
      <4>4. QED
        BY <4>3 DEF S, U
    <3>3. CASE p.name # name
      <4> HIDE DEF S, U
      <4>1. Count(m_file', S) <= Count(gone', U)
        BY <2>1, <2>2, <2>3, <2>5, <2>6, <3>1, <3>3
      <4>2. QED
        BY <4>1 DEF S, U
    <3>4. QED
      BY <3>2, <3>3
  <2>9. QED
    BY <2>7, <2>8
<1>9. k # 0 /\ (\E i \in Files : m_file[i].dir_wd = handling.wd) => m_file[k].dir_wd = handling.wd
  <2>1. SUFFICES ASSUME k # 0, NEW i \in Files, m_file[i].dir_wd = handling.wd
                 PROVE  m_file[k].dir_wd = handling.wd
    OBVIOUS
  <2>2. QED
    BY <1>4, <1>7, <1>known, <2>1 DEF Known
<1>10. QED
  BY <1>2, <1>3, <1>4, <1>5, <1>6, <1>8, <1>9

\* When the event is done, no file of its directory is left.
LEMMA GoneAll ==
    ASSUME Typed, ListsKept, RemoveGone, handling' = None
    PROVE  \A i \in Files' : m_file'[i].dir_wd # handling.wd
<1>1. gone' = <<>>
  BY DEF RemoveGone, ListsKept, CallbackRuns, Stopping
<1>2. SUFFICES ASSUME NEW i \in Files', m_file'[i].dir_wd = handling.wd PROVE FALSE
  OBVIOUS
<1> DEFINE name == m_file'[i].name
           S == Named(handling.wd, name)
<1>3. m_file' \in Seq(FileRecord) /\ i \in 1..Len(m_file')
  BY RemoveGoneCounts DEF Files
<1>4. m_file'[i] \in FileRecord
  BY <1>3
<1>5. name \in FileName /\ m_file'[i] \in S
  BY <1>2, <1>4 DEF FileRecord, Named
<1>6. Count(m_file', S) <= 0
  BY <1>1, <1>5, RemoveGoneCounts, CountNone
<1>7. Count(m_file', S) \in Nat /\ Count(m_file', S) # 0
  BY <1>3, <1>5, CountFinite
<1>8. QED
  BY <1>6, <1>7

LEMMA RemoveGoneKept ==
    ASSUME Typed, Typed', ListsKept, Handle, RemoveGone
    PROVE  ListsKept'
<1>known. Known /\ CallbackRuns /\ CalledInOrder
  BY DEF ListsKept
<1>1. /\ calling = 0 /\ calling' = 0 /\ UNCHANGED <<inode, batch, added>>
      /\ gone' = Tail(gone) /\ gone # <<>>
      /\ handling' = IF Tail(gone) = <<>> THEN None ELSE handling
      /\ UNCHANGED <<path, raised, shared, aliased>>
  BY DEF RemoveGone, Handle
<1>2. UNCHANGED <<heard, stopped>>
  BY <1>1 DEF Handle, Called
<1>3. /\ Stopping
      /\ \/ UNCHANGED <<m_file, m_dir, watched, queue>>
         \/ \E k \in Files :
                /\ SetLists(EraseFile(Lists, k))
                /\ (\E i \in Files : m_file[i].dir_wd = handling.wd) =>
                       m_file[k].dir_wd = handling.wd
      /\ m_file' \in Seq(FileRecord)
      /\ \A i \in 1..Len(m_file') : \E j \in Files : m_file'[i] = m_file[j]
      /\ \A name \in FileName :
             Count(m_file', Named(handling.wd, name)) <= Count(gone', PathsNamed(name))
  BY RemoveGoneCounts
<1>done. handling' = None => \A i \in Files' : m_file'[i].dir_wd # handling.wd
  BY GoneAll
<1>4. CallbackRuns'
  BY <1>1, <1>3, NamesAssumption DEF CallbackRuns, Stopping
<1>5. Known' /\ (~aliased' => Agreed' /\ Heard')
  <2>1. CASE UNCHANGED <<m_file, m_dir, watched, queue>>
    <3>1. Known'
      BY <1>1, <1>known, <2>1, KnownStays
    <3>2. \A j \in Files : StopPending(m_file[j].dir_wd) => StopPending(m_file[j].dir_wd)'
      <4>1. SUFFICES ASSUME NEW j \in Files, NEW wd \in Nat, wd = m_file[j].dir_wd, StopPending(wd)
                     PROVE  StopPending(wd)'
        BY <2>1, FileFields
      <4>2. CASE handling' = handling
        BY <1>1, <2>1, <4>1, <4>2 DEF StopPending
      <4>3. CASE handling' = None
        <5>1. handling # SelfEvent(wd)
          BY <1>done, <2>1, <4>1, <4>3 DEF SelfEvent, Files
        <5>2. QED
          BY <1>1, <2>1, <4>1, <5>1 DEF StopPending
      <4>4. QED
        BY <1>1, <4>2, <4>3
    <3>3. \A wd, name : Pending(wd, name)' = Pending(wd, name)
      BY <1>1, <2>1 DEF Pending, CountOf
    <3>4. QED
      BY <1>1, <1>2, <2>1, <3>1, <3>2, <3>3, EventsMoveOn DEF ListsKept
  <2>2. CASE \E k \in Files : SetLists(EraseFile(Lists, k))
    <3>1. PICK k \in Files : SetLists(EraseFile(Lists, k))
      BY <2>2
    <3>2. ASSUME NEW j \in Files, j # k, NEW wd, wd = m_file[j].dir_wd, StopPending(wd)
          PROVE  StopPending(wd)'
      <4>1. CASE handling' = handling
        BY <1>1, <3>1, <3>2, <4>1, ErasedEvents
      <4>2. CASE handling' = None
        <5>1. Embeds(m_file, m_file', k)
          BY <1>known, <3>1, ErasedEmbeds
        <5>2. \E i \in Files' : m_file'[i] = m_file[j]
          BY <3>2, <5>1 DEF Embeds, Files
        <5>3. handling # SelfEvent(wd)
          BY <1>done, <3>2, <4>2, <5>2 DEF SelfEvent
        <5>4. \A i \in DOMAIN queue : i \in DOMAIN queue' /\ queue'[i] = queue[i]
          <6>1. queue' \in {queue, Append(queue, IgnoredEvent(m_file[k].dir_wd))}
            BY <3>1, Erased
          <6>2. queue \in Seq(Events)
            BY DEF Typed, KernelTyped
          <6>3. QED
            BY <6>1, <6>2
        <5>5. QED
          BY <1>1, <3>2, <5>3, <5>4 DEF StopPending
      <4>3. QED
        BY <1>1, <4>1, <4>2
    <3>3. QED
      BY <1>1, <1>2, <1>known, <3>1, <3>2, EraseKept DEF ListsKept
  <2>3. QED
    BY <1>3, <2>1, <2>2
<1>6. CalledInOrder'
  <2>1. \A i \in Files' : m_file'[i].id \in stopped' => m_file'[i].dir_wd = handling.wd
    BY <1>2, <1>3, <1>known DEF CalledInOrder, Files
  <2>2. CASE handling' = None
    <3>1. \A i \in Files' : m_file'[i].id \notin stopped'
      BY <1>done, <2>1, <2>2
    <3>2. QED
      BY <2>2, <3>1 DEF CalledInOrder, Stopping
  <2>3. CASE handling' # None
    <3>1. handling' = handling /\ Stopping'
      BY <1>1, <1>3, <2>3 DEF Stopping
    <3>2. \A at \in Files' : m_file'[at].id # calling'
      <4>1. \A at \in Files' : m_file'[at].id \in 1..added'
        BY DEF Typed, WatchTyped
      <4>2. added' \in Nat
        BY DEF Typed, WatchTyped
      <4>3. QED
        BY <1>1, <4>1, <4>2
    <3>3. ASSUME NEW i \in Files', NEW j \in Dirs', m_file'[i].dir_wd = handling.wd, m_dir'[j].wd = handling.wd
          PROVE  \/ \E x \in 1 .. j - 1 : m_dir'[x].wd = handling.wd
                 \/ \A x \in DOMAIN gone' : gone'[x].dir = m_dir'[j].name
      <4>1. PICK f \in Files : m_file'[i] = m_file[f]
        BY <1>3 DEF Files
      <4>2. UNCHANGED m_dir
        <5>1. CASE UNCHANGED m_file /\ UNCHANGED m_dir
          BY <5>1
        <5>2. ASSUME NEW k \in Files, SetLists(EraseFile(Lists, k)),
                     m_file[k].dir_wd = handling.wd
              PROVE  UNCHANGED m_dir
          <6>1. Embeds(m_file, m_file', k)
            BY <1>known, <5>2, ErasedEmbeds
          <6>2. Before(k, i) \in Files /\ Before(k, i) # k /\ m_file'[i] = m_file[Before(k, i)]
            BY <6>1 DEF Embeds, Files
          <6>3. ~LastOf(k)
            BY <3>3, <5>2, <6>2 DEF LastOf
          <6>4. QED
            BY <5>2, <6>3, Erased
        <5>3. QED
          BY <1>3, <3>3, <4>1, <5>1, <5>2
      <4>3. CASE \A x \in DOMAIN gone : gone[x].dir = m_dir[j].name
        <5>1. \A x \in DOMAIN gone' : x + 1 \in DOMAIN gone /\ gone'[x] = gone[x + 1]
          <6>1. gone \in Seq([dir : DirName, name : FileName])
            BY DEF Typed, WatchTyped
          <6>2. QED
            BY <1>1, <6>1, TailElements
        <5>2. QED
          BY <4>2, <4>3, <5>1
      <4>4. QED
        BY <1>3, <1>known, <3>3, <4>1, <4>2, <4>3 DEF CalledInOrder, Dirs
    <3>4. ASSUME NEW name \in FileName, NEW n \in 0..Len(m_file')
          PROVE  Count(SubSeq(m_file', 1, n), Named(handling.wd, name)) <= Count(gone', PathsNamed(name))
      <4> DEFINE S == Named(handling.wd, name)
                 U == PathsNamed(name)
                 N == Len(m_file')
      <4>1. N \in n .. N /\ N \in 0..N /\ SubSeq(m_file', 1, N) = m_file'
        BY <1>3
      <4>2. Count(SubSeq(m_file', 1, n), S) <= Count(SubSeq(m_file', 1, N), S)
        BY <1>3, <4>1, CountPrefix
      <4>3. Count(m_file', S) <= Count(gone', U)
        BY <1>3
      <4>4. Count(SubSeq(m_file', 1, n), S) \in Nat
        <5>1. SubSeq(m_file', 1, n) \in Seq(FileRecord)
          BY <1>3
        <5>2. QED
          BY <5>1, CountFinite
      <4>5. Count(m_file', S) \in Nat
        BY <1>3, CountFinite
      <4>6. Count(gone', U) \in Nat
        <5>1. gone' \in Seq([dir : DirName, name : FileName])
          BY DEF Typed, WatchTyped
        <5>2. QED
          BY <5>1, CountFinite
      <4> HIDE DEF S, U, N
      <4>7. Count(SubSeq(m_file', 1, n), S) <= Count(gone', U)
        <5> DEFINE prefix == Count(SubSeq(m_file', 1, n), S)
                   all == Count(m_file', S)
                   rest == Count(gone', U)
        <5>1. prefix <= all
          BY <4>1, <4>2, Zenon
        <5>2. prefix \in Nat /\ all \in Nat /\ rest \in Nat /\ all <= rest
          BY <4>3, <4>4, <4>5, <4>6
        <5> HIDE DEF prefix, all, rest
        <5>3. prefix <= rest
          BY <5>1, <5>2
        <5>4. QED
          BY <5>3 DEF prefix, rest
      <4>8. QED
        BY <4>7 DEF S, U
    <3>5. QED
      BY <2>1, <3>1, <3>2, <3>3, <3>4 DEF CalledInOrder
  <2>4. QED
    BY <1>1, <2>2, <2>3
<1>7. QED
  BY <1>4, <1>5, <1>6 DEF ListsKept

LEMMA TwoElements ==
    ASSUME NEW S, IsFiniteSet(S), NEW a \in S, NEW b \in S, a # b
    PROVE  Cardinality(S) > 1
<1>1. IsFiniteSet(S \ {a}) /\ Cardinality(S \ {a}) = Cardinality(S) - 1
  BY FS_RemoveElement
<1>2. Cardinality(S \ {a}) \in Nat /\ Cardinality(S \ {a}) # 0
  <2>1. S \ {a} # {}
    OBVIOUS
  <2>2. QED
    BY <1>1, <2>1, FS_EmptySet, FS_CardinalityType
<1>3. Cardinality(S) \in Nat
  BY FS_CardinalityType
<1>4. QED
  BY <1>1, <1>2, <1>3

-----------------------------------------------------------------------------
(* Adding a file *)

\* What FSWatch::add changes: w is the watch descriptor of the directory.
LEMMA AddedLists ==
    ASSUME Typed, NEW p \in Path, AddCalled(p)
    PROVE  \E w :
        /\ m_file' = Append(m_file, [id |-> added + 1, dir_wd |-> w, name |-> p.name])
        /\ \/ /\ UNCHANGED <<m_dir, watched>>
              /\ \E d \in Dirs : m_dir[d].wd = w /\ m_dir[d].name = p.dir
           \/ /\ m_dir' = Append(m_dir, [wd |-> w, name |-> p.dir])
              /\ \A d \in Dirs : m_dir[d].name # p.dir
              /\ watched' = [x \in DOMAIN watched \cup {w} |->
                                 IF x = w THEN inode[p.dir] ELSE watched[x]]
<1>typed. m_dir \in Seq(DirRecord)
  BY DEF Typed, WatchTyped
<1> DEFINE i == DirIndex(m_dir, p.dir)
<1>1. IsFirst(i, m_dir, {d \in DirRecord : d.name = p.dir})
  BY <1>typed, DirIndexFirst
<1>2. CASE AddToKnown(p)
  <2>1. i # 0 /\ m_file' = Append(m_file, [id |-> added + 1, dir_wd |-> m_dir[i].wd, name |-> p.name])
        /\ UNCHANGED <<m_dir, watched>>
    BY <1>2 DEF AddToKnown, AddFile
  <2> HIDE DEF i
  <2>2. i \in Dirs /\ m_dir[i].name = p.dir
    BY <1>typed, <1>1, <2>1 DEF IsFirst, Dirs
  <2>3. QED
    BY <2>1, <2>2
<1>3. CASE AddToNew(p)
  <2> DEFINE w == WatchDescriptor(p.dir)
  <2>1. /\ i = 0
        /\ m_file' = Append(m_file, [id |-> added + 1, dir_wd |-> w, name |-> p.name])
        /\ m_dir' = Append(m_dir, [wd |-> w, name |-> p.dir])
        /\ watched' = [x \in DOMAIN watched \cup {w} |->
                           IF x = w THEN inode[p.dir] ELSE watched[x]]
    BY <1>3 DEF AddToNew, AddFile, InotifyAddWatch
  <2> HIDE DEF i, w
  <2>2. \A d \in Dirs : m_dir[d].name # p.dir
    BY <1>typed, <1>1, <2>1 DEF IsFirst, Dirs
  <2>3. QED
    BY <2>1, <2>2
<1>4. QED
  BY <1>2, <1>3 DEF AddCalled, AddWatch

LEMMA AddCalledKept ==
    ASSUME Typed, Typed', NothingLeft, ListsKept, NEW p \in Path, AddCalled(p)
    PROVE  ListsKept'
<1>known. Known /\ CallbackRuns /\ CalledInOrder
  BY DEF ListsKept
<1>1. PICK w :
        /\ m_file' = Append(m_file, [id |-> added + 1, dir_wd |-> w, name |-> p.name])
        /\ \/ /\ UNCHANGED <<m_dir, watched>>
              /\ \E d \in Dirs : m_dir[d].wd = w /\ m_dir[d].name = p.dir
           \/ /\ m_dir' = Append(m_dir, [wd |-> w, name |-> p.dir])
              /\ \A d \in Dirs : m_dir[d].name # p.dir
              /\ watched' = [x \in DOMAIN watched \cup {w} |->
                                 IF x = w THEN inode[p.dir] ELSE watched[x]]
  BY AddedLists
<1> DEFINE id == added + 1
           N == Len(m_file) + 1
           new == [id |-> id, dir_wd |-> w, name |-> p.name]
           newdir == [wd |-> w, name |-> p.dir]
<1>2. /\ UNCHANGED <<inode, queue, batch, handling, calling, gone, heard, stopped>>
      /\ MayCall /\ added' = id
  BY DEF AddCalled, AddWatch, AddToKnown, AddToNew, AddFile
<1>typed. /\ m_file \in Seq(FileRecord) /\ m_dir \in Seq(DirRecord)
          /\ added \in Nat /\ id \in Watch /\ id \in Nat
          /\ \A i \in Files : m_file[i].id \in 1..added /\ m_file[i].id \in Watch
          /\ path \in [Watch -> Path \cup {None}] /\ raised \in [Watch -> Nat] /\ heard \in [Watch -> Nat]
          /\ stopped \subseteq 1..added /\ shared \subseteq 1..added /\ calling \in 0..added
          /\ p \in [dir : DirName, name : FileName]
  <2>1. m_file \in Seq(FileRecord) /\ m_dir \in Seq(DirRecord) /\ calling \in 0..added /\ added \in Nat
    BY DEF Typed, WatchTyped
  <2>2. id \in Watch /\ id \in Nat
    <3>1. added' \in 0..MaxWatches
      BY DEF Typed, WatchTyped
    <3>2. QED
      BY <1>2, <2>1, <3>1, WatchesAssumption DEF Watch
  <2>3. path \in [Watch -> Path \cup {None}] /\ raised \in [Watch -> Nat] /\ heard \in [Watch -> Nat]
        /\ stopped \subseteq 1..added /\ shared \subseteq 1..added
    BY DEF Typed, HistoryTyped
  <2>4. QED
    BY <2>1, <2>2, <2>3, FileFields, PathAssumption
<1> DEFINE twins == {f.id : f \in {m_file'[i] : i \in
                       {j \in DOMAIN m_file' : m_file'[j].dir_wd = w /\ m_file'[j].name = p.name}}}
<1>3. /\ Files' = Files \cup {N} /\ N \notin Files /\ DOMAIN m_file' = Files'
      /\ \A i \in Files : m_file'[i] = m_file[i]
      /\ m_file'[N] = new /\ Len(m_file') = N
  BY <1>1, <1>typed DEF Files
<1>4. /\ path' = [path EXCEPT ![id] = p]
      /\ raised' = [raised EXCEPT ![id] = Pending(w, p.name)]
      /\ shared' = IF Cardinality(twins) > 1 THEN shared \cup twins ELSE shared
      /\ aliased' = (aliased \/ \E i, j \in DOMAIN m_dir' : i # j /\ m_dir'[i].wd = m_dir'[j].wd)
  <2>1. m_file'[Len(m_file')].dir_wd = w
    BY <1>3
  <2> HIDE DEF new, N
  <2>2. QED
    BY <1>2, <2>1 DEF AddCalled
<1>5. new.id = id /\ new.dir_wd = w /\ new.name = p.name
  OBVIOUS
<1>6. \A i \in Files : m_file[i].id # id /\ m_file[i].id \in Watch
  BY <1>typed
<1>7. calling # id /\ id \notin stopped
  BY <1>typed
<1>8. ASSUME NEW i \in Files', NEW j \in Files', i # j,
             m_file'[i].dir_wd = m_file'[j].dir_wd, m_file'[i].name = m_file'[j].name
      PROVE  m_file'[i].id \in shared'
  <2>1. CASE i \in Files /\ j \in Files
    <3>1. m_file[i].id \in shared
      BY <1>3, <1>8, <1>known, <2>1 DEF Known
    <3>2. QED
      BY <1>3, <1>4, <2>1, <3>1
  <2>2. CASE i = N \/ j = N
    <3>1. m_file'[i].dir_wd = w /\ m_file'[i].name = p.name /\ m_file'[j].dir_wd = w /\ m_file'[j].name = p.name
      BY <1>3, <1>5, <1>8, <2>2
    <3>2. m_file'[i].id \in twins /\ m_file'[j].id \in twins
      BY <1>3, <3>1
    <3>3. m_file'[i].id # m_file'[j].id
      <4>1. CASE i = N
        BY <1>3, <1>5, <1>6, <1>8, <4>1
      <4>2. CASE j = N
        BY <1>3, <1>5, <1>6, <1>8, <4>2
      <4>3. QED
        BY <2>2, <4>1, <4>2
    <3>4. IsFiniteSet(twins)
      <4>1. \A x \in Files' : m_file'[x].id \in 1..id
        BY <1>2 DEF Typed, WatchTyped
      <4>2. twins \subseteq 1..id
        <5> HIDE DEF id
        <5>1. QED
          BY <1>3, <4>1
      <4>3. id \in Int /\ 1 \in Int
        BY <1>typed
      <4>4. IsFiniteSet(1..id)
        <5> HIDE DEF id, twins
        <5>1. QED
          BY <4>3, FS_Interval
      <4> HIDE DEF twins, id
      <4>5. QED
        BY <4>2, <4>4, FS_Subset
    <3> HIDE DEF twins
    <3>5. Cardinality(twins) > 1
      BY <3>2, <3>3, <3>4, TwoElements
    <3>6. QED
      BY <1>4, <3>2, <3>5
  <2>3. QED
    BY <1>3, <2>1, <2>2
<1>shared. \A x \in shared : x \in shared'
  BY <1>4
<1> HIDE DEF id, N, new, newdir, twins
<1>9. /\ \A i \in Files : path'[m_file[i].id] = path[m_file[i].id] /\ raised'[m_file[i].id] = raised[m_file[i].id]
      /\ path'[id] = p /\ raised'[id] = Pending(w, p.name)
  BY <1>4, <1>6, <1>typed
<1>10. \/ UNCHANGED <<m_dir, watched>> /\ \E d \in Dirs : m_dir[d] = newdir
       \/ /\ \A d \in Dirs : m_dir[d].name # p.dir
          /\ watched' = [x \in DOMAIN watched \cup {w} |-> IF x = w THEN inode[p.dir] ELSE watched[x]]
          /\ Dirs' = Dirs \cup {Len(m_dir) + 1} /\ Len(m_dir) + 1 \notin Dirs
          /\ \A d \in Dirs : m_dir'[d] = m_dir[d]
          /\ m_dir'[Len(m_dir) + 1] = newdir
  <2>1. CASE UNCHANGED <<m_dir, watched>> /\ \E d \in Dirs : m_dir[d].wd = w /\ m_dir[d].name = p.dir
    <3>1. PICK d \in Dirs : m_dir[d].wd = w /\ m_dir[d].name = p.dir
      BY <2>1
    <3>2. m_dir[d] \in DirRecord
      BY <1>typed DEF Dirs
    <3>3. m_dir[d] = newdir
      BY <3>1, <3>2 DEF DirRecord, newdir
    <3>4. QED
      BY <2>1, <3>3
  <2>2. CASE /\ m_dir' = Append(m_dir, newdir)
             /\ \A d \in Dirs : m_dir[d].name # p.dir
             /\ watched' = [x \in DOMAIN watched \cup {w} |-> IF x = w THEN inode[p.dir] ELSE watched[x]]
    BY <1>typed, <2>2 DEF Dirs
  <2>3. QED
    BY <1>1, <2>1, <2>2 DEF newdir
<1>newdir. newdir.wd = w /\ newdir.name = p.dir
  BY DEF newdir
<1>11. Known'
  <2>1. \A i, j \in Files' : m_file'[i].id = m_file'[j].id => i = j
    BY <1>3, <1>5, <1>6, <1>known DEF Known
  <2>2. \A i, j \in Dirs' : m_dir'[i].name = m_dir'[j].name => i = j
    <3>1. CASE UNCHANGED m_dir
      BY <1>known, <3>1 DEF Known, Dirs
    <3>2. CASE ~UNCHANGED m_dir
      BY <1>10, <1>known, <1>newdir, <3>2 DEF Known
    <3>3. QED
      BY <3>1, <3>2
  <2>3. \A i \in Files' : \E j \in Dirs' : m_dir'[j].wd = m_file'[i].dir_wd
    <3>1. \E j \in Dirs' : m_dir'[j].wd = w
      BY <1>10, <1>newdir DEF Dirs
    <3>2. \A d \in Dirs : d \in Dirs' /\ m_dir'[d] = m_dir[d]
      BY <1>10 DEF Dirs
    <3>3. QED
      BY <1>3, <1>5, <1>known, <3>1, <3>2 DEF Known
  <2>4. \A i \in Files' : path'[m_file'[i].id] \in Path /\ path'[m_file'[i].id].name = m_file'[i].name
    BY <1>3, <1>5, <1>9, <1>known DEF Known
  <2>5. QED
    BY <1>8, <2>1, <2>2, <2>3, <2>4 DEF Known
<1>12. CallbackRuns'
  BY <1>2, <1>3, <1>known DEF CallbackRuns
<1>events. /\ \A wd, name : Pending(wd, name)' = Pending(wd, name)
           /\ \A wd : StopPending(wd)' <=> StopPending(wd)
  BY <1>2 DEF Pending, CountOf, StopPending
<1>13. ASSUME ~aliased' PROVE Agreed' /\ Heard'
  <2>1. Agreed /\ Heard /\ ~aliased
    BY <1>4, <1>13 DEF ListsKept
  <2>2. \A i, j \in Dirs' : m_dir'[i].wd = m_dir'[j].wd => i = j
    <3>1. DOMAIN m_dir' = Dirs'
      BY DEF Typed, WatchTyped, Dirs
    <3>2. QED
      BY <1>4, <1>13, <3>1
  <2>3. \A d \in Dirs : d \in Dirs' /\ m_dir'[d] = m_dir[d]
    BY <1>10 DEF Dirs
  <2>4. \A i \in Files : i \in Files' /\ m_file'[i] = m_file[i]
    BY <1>3
  <2>5. N \in Files' /\ m_file'[N] = new
    BY <1>3
  <2>6. PICK D \in Dirs' : m_dir'[D] = newdir /\ \A i \in Dirs' : i \in Dirs \/ i = D
    BY <1>10 DEF Dirs
  <2>7. \/ watched' = watched /\ D \in Dirs
        \/ /\ w \notin DOMAIN watched
           /\ DOMAIN watched' = DOMAIN watched \cup {w}
           /\ watched'[w] = inode[p.dir]
           /\ \A x \in DOMAIN watched : watched'[x] = watched[x]
    <3>1. CASE D \in Dirs
      <4>1. UNCHANGED watched
        BY <1>10, <1>newdir, <2>3, <2>6, <3>1
      <4>2. QED
        BY <3>1, <4>1
    <3>2. CASE D \notin Dirs
      <4>1. watched' = [x \in DOMAIN watched \cup {w} |-> IF x = w THEN inode[p.dir] ELSE watched[x]]
        BY <1>10, <3>2 DEF Dirs
      <4>2. w \notin DOMAIN watched
        <5>1. SUFFICES ASSUME w \in DOMAIN watched PROVE FALSE
          OBVIOUS
        <5>2. PICK d \in Dirs : m_dir[d].wd = w
          BY <2>1, <5>1 DEF Agreed
        <5>3. QED
          BY <1>newdir, <2>2, <2>3, <2>6, <3>2, <5>2
      <4>3. QED
        BY <4>1, <4>2
    <3>3. QED
      BY <3>1, <3>2
  <2>8. \A i \in Dirs' : \E j \in Files' : m_file'[j].dir_wd = m_dir'[i].wd
    BY <1>5, <1>newdir, <2>1, <2>3, <2>4, <2>5, <2>6 DEF Agreed
  <2>9. \A wd \in DOMAIN watched' : \E i \in Dirs' : m_dir'[i].wd = wd
    BY <1>newdir, <2>1, <2>3, <2>6, <2>7 DEF Agreed
  <2>10. \A i \in Dirs' : Watching(m_dir[i])'
    <3>1. SUFFICES ASSUME NEW i \in Dirs' PROVE Watching(m_dir[i])'
      OBVIOUS
    <3>2. CASE i \in Dirs
      <4>1. m_dir'[i] = m_dir[i] /\ Watching(m_dir[i])
        BY <2>1, <2>3, <3>2 DEF Agreed
      <4>2. m_dir'[i].wd \in DOMAIN watched => /\ m_dir'[i].wd \in DOMAIN watched'
                                               /\ watched'[m_dir'[i].wd] = watched[m_dir'[i].wd]
        BY <2>7
      <4>3. QED
        BY <1>2, <1>events, <4>1, <4>2 DEF Watching, StopPending
    <3>3. CASE i \notin Dirs
      <4>1. i = D /\ m_dir'[i] = newdir
        BY <2>6, <3>3
      <4>2. w \in DOMAIN watched' /\ watched'[w] = inode'[p.dir]
        BY <1>2, <2>7, <3>3, <4>1
      <4>3. QED
        BY <1>newdir, <4>1, <4>2 DEF Watching
    <3>4. QED
      BY <3>2, <3>3
  <2>11. \A i \in Files' :
           \E j \in Dirs' : m_dir'[j] = [wd |-> m_file'[i].dir_wd, name |-> path'[m_file'[i].id].dir]
    <3>1. \A i \in Files : \E j \in Dirs' :
              m_dir'[j] = [wd |-> m_file'[i].dir_wd, name |-> path'[m_file'[i].id].dir]
      BY <1>9, <2>1, <2>3, <2>4 DEF Agreed
    <3>2. m_dir'[D] = [wd |-> m_file'[N].dir_wd, name |-> path'[m_file'[N].id].dir]
      BY <1>5, <1>9, <2>5, <2>6 DEF newdir
    <3>3. QED
      BY <1>3, <2>6, <3>1, <3>2
  <2>12. Agreed'
    BY <2>2, <2>8, <2>9, <2>10, <2>11 DEF Agreed
  <2>13. Heard'
    <3>1. SUFFICES ASSUME NEW i \in Files', m_file'[i].id \notin shared'
                   PROVE  \/ heard'[m_file'[i].id] + Pending(m_file[i].dir_wd, m_file[i].name)'
                                 = raised'[m_file'[i].id]
                          \/ StopPending(m_file[i].dir_wd)'
      BY DEF Heard
    <3>2. CASE i \in Files
      <4>1. /\ m_file'[i] = m_file[i]
            /\ \/ heard[m_file[i].id] + Pending(m_file[i].dir_wd, m_file[i].name) = raised[m_file[i].id]
               \/ StopPending(m_file[i].dir_wd)
        BY <1>3, <1>shared, <2>1, <3>1, <3>2 DEF Heard
      <4>2. QED
        BY <1>2, <1>9, <1>events, <3>2, <4>1
    <3>3. CASE i = N
      <4>1. heard[id] = 0
        BY <1>typed DEF Typed, HistoryTyped, id
      <4>2. m_file'[i] = new /\ Pending(w, p.name) \in Nat
        <5>1. batch \in Seq(Events) /\ queue \in Seq(Events)
          BY DEF Typed, KernelTyped, WatchTyped
        <5>2. QED
          BY <1>3, <3>3, <5>1, PendingCount
      <4>3. heard'[id] + Pending(w, p.name) = raised'[id]
        BY <1>2, <1>9, <4>1, <4>2
      <4>4. QED
        BY <1>5, <1>events, <4>2, <4>3
    <3>4. QED
      BY <1>3, <3>2, <3>3
  <2>14. QED
    BY <2>12, <2>13
<1>14. CalledInOrder'
  <2>1. \A i \in Files' : m_file'[i].id \in stopped => i \in Files
    BY <1>3, <1>5, <1>7
  <2>2. \A i \in Files' : m_file'[i].id = calling => i \in Files
    BY <1>3, <1>5, <1>7
  <2>3. Stopping' <=> Stopping
    BY <1>2 DEF Stopping
  <2>4. \A i \in Files' :
           m_file'[i].id \in stopped' =>
               /\ Stopping' /\ m_file'[i].dir_wd = handling'.wd
               /\ \A at \in Files' : m_file'[at].id = calling' => i <= at
    BY <1>2, <1>3, <1>known, <2>1, <2>2, <2>3 DEF CalledInOrder
  <2>5. CASE ~Stopping
    BY <2>3, <2>4, <2>5 DEF CalledInOrder
  <2>6. CASE Stopping
    <3>1. calling # 0
      BY <1>2, <2>6 DEF MayCall, NothingLeft, Stopping
    <3>2. PICK c \in Files : m_file[c].id = calling /\ m_file[c].dir_wd = handling.wd
      BY <1>known, <3>1 DEF CallbackRuns
    <3>3. ASSUME NEW j \in Dirs', m_dir'[j].wd = handling.wd
          PROVE  \/ \E x \in 1 .. j - 1 : m_dir'[x].wd = handling.wd
                 \/ \A x \in DOMAIN gone : gone[x].dir = m_dir'[j].name
      <4>1. \A d \in Dirs : d \in Dirs' /\ m_dir'[d] = m_dir[d]
        BY <1>10 DEF Dirs
      <4>2. CASE j \in Dirs
        <5>1. \A x \in 1 .. j - 1 : x \in Dirs
          BY <1>typed, <4>2 DEF Dirs
        <5>2. QED
          BY <1>known, <2>6, <3>2, <3>3, <4>1, <4>2, <5>1 DEF CalledInOrder
      <4>3. CASE j \notin Dirs
        <5>1. PICK d \in Dirs : m_dir[d].wd = handling.wd
          BY <1>known, <3>2 DEF Known
        <5>2. j = Len(m_dir) + 1
          BY <1>10, <4>3 DEF Dirs
        <5>3. d \in 1 .. j - 1
          BY <1>typed, <5>2 DEF Dirs
        <5>4. QED
          BY <4>1, <5>1, <5>3
      <4>4. QED
        BY <4>2, <4>3
    <3>4. ASSUME NEW name \in FileName, NEW n \in 0..Len(m_file'),
                 n < Len(m_file') /\ m_file'[n + 1].id = calling
          PROVE  Count(SubSeq(m_file', 1, n), Named(handling.wd, name)) <= Count(gone, PathsNamed(name))
      <4>1. n + 1 \in Files'
        BY <1>3, <1>typed, <3>4 DEF Files, N
      <4>2. n + 1 \in Files /\ m_file[n + 1].id = calling
        BY <1>3, <2>2, <3>4, <4>1
      <4>3. n \in 0..Len(m_file) /\ n < Len(m_file)
        BY <1>typed, <4>2 DEF Files
      <4>4. SubSeq(m_file', 1, n) = SubSeq(m_file, 1, n)
        <5>1. m_file' \in Seq(FileRecord)
          BY DEF Typed, WatchTyped
        <5>2. \A i \in 1..n : m_file'[i] = m_file[i]
          BY <1>3, <1>typed, <4>3 DEF Files
        <5>3. n <= Len(m_file')
          BY <1>3, <1>typed, <4>3 DEF N
        <5>4. /\ SubSeq(m_file', 1, n) \in Seq(FileRecord) /\ Len(SubSeq(m_file', 1, n)) = n
              /\ \A i \in 1..n : SubSeq(m_file', 1, n)[i] = m_file'[i]
          BY <4>3, <5>1, <5>3
        <5>5. /\ SubSeq(m_file, 1, n) \in Seq(FileRecord) /\ Len(SubSeq(m_file, 1, n)) = n
              /\ \A i \in 1..n : SubSeq(m_file, 1, n)[i] = m_file[i]
          BY <1>typed, <4>3
        <5>6. \A i \in 1..n : SubSeq(m_file', 1, n)[i] = SubSeq(m_file, 1, n)[i]
          BY <5>2, <5>4, <5>5
        <5>7. QED
          BY <5>4, <5>5, <5>6, SeqEqual
      <4>5. QED
        BY <1>known, <2>6, <4>2, <4>3, <4>4 DEF CalledInOrder
    <3>5. QED
      BY <1>2, <2>4, <3>1, <3>3, <3>4 DEF CalledInOrder
  <2>7. QED
    BY <2>5, <2>6
<1>15. QED
  BY <1>11, <1>12, <1>13, <1>14 DEF ListsKept

-----------------------------------------------------------------------------
(* Changes of the file system *)

\* What other programs do only adds events: none which is on its way is lost.
LEMMA QueueGrows ==
    ASSUME NEW T, queue \in Seq(T), NEW s \in Seq(T), queue' = queue \o s,
           UNCHANGED <<batch, handling>>
    PROVE  /\ \A wd : StopPending(wd) => StopPending(wd)'
           /\ \A wd : (\E i \in 1..Len(s) : s[i] = SelfEvent(wd)) => StopPending(wd)'
<1>1. \A i \in DOMAIN queue : i \in DOMAIN queue' /\ queue'[i] = queue[i]
  OBVIOUS
<1>2. \A i \in 1..Len(s) : i + Len(queue) \in DOMAIN queue' /\ queue'[i + Len(queue)] = s[i]
  OBVIOUS
<1>3. \A wd : StopPending(wd) => StopPending(wd)'
  BY <1>1 DEF StopPending
<1>4. ASSUME NEW wd, NEW i \in 1..Len(s), s[i] = SelfEvent(wd) PROVE StopPending(wd)'
  BY <1>2, <1>4 DEF StopPending
<1>5. QED
  BY <1>3, <1>4

LEMMA AgreedStays ==
    ASSUME Agreed, UNCHANGED <<m_file, m_dir, path>>,
           DOMAIN watched' \subseteq DOMAIN watched,
           \A i \in Dirs : Watching(m_dir[i])'
    PROVE  Agreed'
BY DEF Agreed, Files, Dirs

\* A directory which is watched under its name has the descriptor of its inode.
LEMMA WatchedUnderName ==
    ASSUME Typed, NEW wd \in DOMAIN watched, NEW d \in DirName, watched[wd] = inode[d]
    PROVE  /\ inode[d] # None
           /\ WatchesOf(inode[d]) # {}
           /\ WatchDescriptor(d) = wd
<1>1. inode[d] # None
  BY NamesAssumption DEF Typed, KernelTyped
<1>2. wd \in WatchesOf(inode[d])
  BY DEF WatchesOf
<1>3. WatchDescriptor(d) \in DOMAIN watched /\ watched[WatchDescriptor(d)] = inode[d]
  BY <1>2, DescriptorOf
<1> DEFINE w == WatchDescriptor(d)
<1> HIDE DEF w
<1>4. w = wd
  BY <1>3 DEF Typed, KernelTyped, w
<1>5. QED
  BY <1>1, <1>2, <1>4 DEF w

LEMMA ChangeFileKept ==
    ASSUME Typed, ListsKept, NEW p \in Path, ChangeFile(p)
    PROVE  ListsKept'
<1>1. /\ UNCHANGED <<inode, watched, watchVars, path, heard, stopped, shared, aliased>>
      /\ inode[p.dir] # None
      /\ p \in [dir : DirName, name : FileName]
  BY PathAssumption DEF ChangeFile, Touch
<1>vars. UNCHANGED <<m_file, m_dir, batch, handling, calling, gone>>
  BY <1>1 DEF watchVars
<1>raised. raised' = [id \in Watch |-> IF id \in Registered /\ path[id] = p
                                       THEN raised[id] + 1 ELSE raised[id]]
  BY DEF ChangeFile
<1> DEFINE w == WatchDescriptor(p.dir)
           ev == FileEvent(w, p.name)
           seen == WatchesOf(inode[p.dir]) # {}
           s == IF seen THEN <<ev>> ELSE <<>>
<1>typed. /\ queue \in Seq(Events) /\ batch \in Seq(Events) /\ queue' \in Seq(Events)
          /\ m_file \in Seq(FileRecord)
          /\ heard \in [Watch -> Nat] /\ raised \in [Watch -> Nat]
  <2>1. Typed'
    BY ChangeTyped
  <2>2. queue \in Seq(Events) /\ batch \in Seq(Events) /\ queue' \in Seq(Events)
    BY <2>1 DEF Typed, KernelTyped, WatchTyped
  <2>3. QED
    BY <2>2 DEF Typed, WatchTyped, HistoryTyped
<1>2. queue' = IF seen THEN Append(queue, ev) ELSE queue
  BY DEF ChangeFile, Touch
<1>3. seen => ev \in Events /\ w \in DOMAIN watched /\ watched[w] = inode[p.dir]
  <2>1. seen => w \in DOMAIN watched /\ watched[w] = inode[p.dir]
    BY DescriptorOf
  <2>2. DOMAIN watched \subseteq Nat
    BY DEF Typed, KernelTyped
  <2>3. QED
    BY <1>1, <2>1, <2>2, EventsTyped
<1> HIDE DEF ev, seen, w
<1>4. queue' = queue \o s /\ s \in Seq(Events)
  <2>1. CASE seen
    BY <1>2, <1>3, <1>typed, <2>1
  <2>2. CASE ~seen
    BY <1>2, <1>typed, <2>2
  <2>3. QED
    BY <2>1, <2>2
<1> HIDE DEF s
<1>5. \A wd : StopPending(wd) => StopPending(wd)'
  BY <1>4, <1>typed, <1>vars, QueueGrows
<1>6. Known' /\ CallbackRuns' /\ CalledInOrder'
  BY <1>1, <1>vars, ListsStay, KnownStays DEF ListsKept
<1>7. ASSUME ~aliased' PROVE Agreed' /\ Heard'
  <2>1. Agreed /\ Heard /\ Known
    BY <1>1, <1>7 DEF ListsKept
  <2>2. \A i \in Dirs : Watching(m_dir[i])'
    <3>1. \A i \in Dirs : Watching(m_dir[i])
      BY <2>1 DEF Agreed
    <3>2. QED
      BY <1>1, <1>5, <1>vars, <3>1 DEF Watching
  <2>3. Agreed'
    BY <1>1, <1>vars, <2>1, <2>2, AgreedStays
  <2>4. Heard'
    <3>1. SUFFICES ASSUME NEW i \in Files, m_file[i].id \notin shared, ~StopPending(m_file[i].dir_wd)
                   PROVE  heard[m_file[i].id] + Pending(m_file[i].dir_wd, m_file[i].name)'
                              = raised'[m_file[i].id]
      BY <1>1, <1>5, <1>vars DEF Heard, Files
    <3>new. PICK id, wd, name : id = m_file[i].id /\ wd = m_file[i].dir_wd /\ name = m_file[i].name
      OBVIOUS
    <3>2. heard[id] + Pending(wd, name) = raised[id] /\ id \in Watch /\ id \in Registered
      <4>1. i \in DOMAIN m_file
        BY <1>typed DEF Files
      <4>2. id \in Watch /\ id \in Registered
        BY <3>new, <4>1, FileFields DEF Registered
      <4>3. QED
        BY <2>1, <3>1, <3>new, <4>2 DEF Heard
    <3>3. path[id] \in [dir : DirName, name : FileName] /\ path[id].name = name
      BY <2>1, <3>new, PathAssumption DEF Known
    <3>4. wd \in DOMAIN watched /\ watched[wd] = inode[path[id].dir]
      <4>1. PICK j \in Dirs : m_dir[j] = [wd |-> wd, name |-> path[id].dir]
        BY <2>1, <3>new DEF Agreed
      <4>2. Watching(m_dir[j]) /\ m_dir[j].wd = wd /\ m_dir[j].name = path[id].dir
        BY <2>1, <4>1 DEF Agreed
      <4>3. QED
        BY <3>1, <3>new, <4>2 DEF Watching
    <3>5. /\ Pending(wd, name) = Count(batch, {FileEvent(wd, name)}) + Count(queue, {FileEvent(wd, name)})
          /\ Pending(wd, name)' = Count(batch', {FileEvent(wd, name)}) + Count(queue', {FileEvent(wd, name)})
      <4>1. Pending(wd, name) = Count(batch, {FileEvent(wd, name)}) + Count(queue, {FileEvent(wd, name)})
        BY <1>typed, PendingCount
      <4>2. batch' \in Seq(Events)
        BY <1>typed, <1>vars
      <4>3. Pending(wd, name)' = Count(batch', {FileEvent(wd, name)}) + Count(queue', {FileEvent(wd, name)})
        BY <1>typed, <4>2, PendingCountNext
      <4>4. QED
        BY <4>1, <4>3
    <3>6. /\ Count(batch, {FileEvent(wd, name)}) \in Nat /\ Count(queue, {FileEvent(wd, name)}) \in Nat
      <4>1. Count(batch, {FileEvent(wd, name)}) \in Nat
        BY <1>typed, CountFinite
      <4>2. Count(queue, {FileEvent(wd, name)}) \in Nat
        BY <1>typed, CountFinite
      <4>3. QED
        BY <4>1, <4>2
    <3>7. heard[id] \in Nat /\ raised[id] \in Nat
      BY <1>typed, <3>2
    <3>8. CASE path[id] = p
      <4>1. seen /\ ev = FileEvent(wd, name)
        <5>1. WatchesOf(inode[p.dir]) # {} /\ WatchDescriptor(p.dir) = wd
          BY <1>1, <3>4, <3>8, WatchedUnderName
        <5>2. p.name = name
          BY <3>3, <3>8
        <5>3. QED
          BY <5>1, <5>2 DEF seen, ev, w
      <4>2. Count(queue', {FileEvent(wd, name)}) = Count(queue, {FileEvent(wd, name)}) + 1
        <5>1. Count(Append(queue, ev), {ev}) = Count(queue, {ev}) + 1
          BY <1>3, <1>typed, <4>1, CountAppend
        <5>2. QED
          BY <1>2, <4>1, <5>1
      <4>3. raised'[id] = raised[id] + 1
        BY <1>raised, <3>2, <3>8
      <4>4. batch' = batch
        BY <1>vars
      <4>5. QED
        BY <1>vars, <3>2, <3>5, <3>6, <3>7, <3>new, <4>2, <4>3, <4>4
    <3>9. CASE path[id] # p
      <4>1. seen => ev # FileEvent(wd, name)
        <5>1. SUFFICES ASSUME seen, ev = FileEvent(wd, name) PROVE FALSE
          OBVIOUS
        <5>2. w = wd /\ p.name = name
          BY <5>1 DEF ev, FileEvent
        <5>3. inode[path[id].dir] = inode[p.dir]
          BY <1>3, <3>4, <5>1, <5>2
        <5>4. path[id].dir \in DirName /\ p.dir \in DirName
          BY <1>1, <3>3
        <5>5. path[id].dir = p.dir
          BY <1>1, <5>3, <5>4 DEF Typed, KernelTyped
        <5>6. QED
          BY <1>1, <3>3, <3>9, <5>2, <5>5
      <4>2. Count(queue', {FileEvent(wd, name)}) = Count(queue, {FileEvent(wd, name)})
        <5>1. CASE seen
          <6>1. Count(Append(queue, ev), {FileEvent(wd, name)}) = Count(queue, {FileEvent(wd, name)}) + 0
            <7>1. ev \notin {FileEvent(wd, name)} /\ ev \in Events
              BY <1>3, <4>1, <5>1
            <7>2. QED
              BY <1>typed, <7>1, CountAppend
          <6>2. QED
            BY <1>2, <3>6, <5>1, <6>1
        <5>2. CASE ~seen
          BY <1>2, <5>2
        <5>3. QED
          BY <5>1, <5>2
      <4>3. raised'[id] = raised[id]
        BY <1>raised, <3>2, <3>9
      <4>4. batch' = batch
        BY <1>vars
      <4>5. QED
        BY <1>vars, <3>2, <3>5, <3>6, <3>7, <3>new, <4>2, <4>3, <4>4
    <3>10. QED
      BY <3>8, <3>9
  <2>5. QED
    BY <2>3, <2>4
<1>8. QED
  BY <1>6, <1>7 DEF ListsKept

\* A directory which loses its name while it is watched is told to be gone.
LEMMA ChangeDirKept ==
    ASSUME Typed, ListsKept, NEW d \in DirName, ChangeDir(d)
    PROVE  ListsKept'
<1> DEFINE Loses == RemoveDir(d) \/ \E e \in DirName : MoveDir(d, e)
<1>1. /\ UNCHANGED <<watchVars, history>>
      /\ Loses \/ MakeDir(d) \/ ChangeAttributes(d)
  BY DEF ChangeDir
<1>vars. UNCHANGED <<m_file, m_dir, batch, handling, calling, gone, path, raised, heard, stopped, shared, aliased>>
  BY <1>1 DEF watchVars, history
<1>w. PICK w : w = WatchDescriptor(d)
  OBVIOUS
<1> DEFINE seen == WatchesOf(inode[d]) # {}
<1>typed. /\ queue \in Seq(Events) /\ batch \in Seq(Events) /\ queue' \in Seq(Events)
          /\ inode \in [DirName -> 0..changes \cup {None}]
  <2>1. Typed'
    BY ChangeTyped
  <2>2. QED
    BY <2>1 DEF Typed, KernelTyped, WatchTyped
<1>2. seen => SelfEvent(w) \in Events /\ IgnoredEvent(w) \in Events /\ AttribEvent(w) \in Events
              /\ w \in Nat /\ w \in DOMAIN watched /\ watched[w] = inode[d]
  <2>1. seen => w \in DOMAIN watched /\ watched[w] = inode[d]
    BY <1>w, DescriptorOf
  <2>2. DOMAIN watched \subseteq Nat
    BY DEF Typed, KernelTyped
  <2>3. QED
    BY <2>1, <2>2, EventsTyped
<1> DEFINE Appended(s) ==
             /\ queue' = queue \o s /\ s \in Seq(Events)
             /\ \/ s = <<>>
                \/ seen /\ s = <<SelfEvent(w)>>
                \/ seen /\ s = <<SelfEvent(w), IgnoredEvent(w)>>
                \/ seen /\ s = <<AttribEvent(w)>>
             /\ Loses /\ seen => StopPending(w) \/ (s # <<>> /\ s[1] = SelfEvent(w))
<1> HIDE DEF seen, Loses
<1>3. PICK s : Appended(s)
  <2>1. \/ queue' = queue /\ (Loses /\ seen => LastUnread(SelfEvent(w)))
        \/ seen /\ queue' = Append(queue, SelfEvent(w))
        \/ seen /\ queue' = queue \o <<SelfEvent(w), IgnoredEvent(w)>>
        \/ seen /\ ~Loses /\ queue' = Append(queue, AttribEvent(w))
    <3>1. CASE RemoveDir(d)
      BY <1>w, <3>1 DEF RemoveDir, seen
    <3>2. CASE \E e \in DirName : MoveDir(d, e)
      BY <1>w, <3>2 DEF MoveDir, Queued, seen
    <3>3. CASE ~Loses /\ MakeDir(d)
      BY <3>3 DEF MakeDir
    <3>4. CASE ~Loses /\ ChangeAttributes(d)
      BY <1>w, <3>4 DEF ChangeAttributes, Queued, seen
    <3>5. QED
      BY <1>1, <3>1, <3>2, <3>3, <3>4 DEF Loses
  <2>2. LastUnread(SelfEvent(w)) => StopPending(w)
    <3>1. queue # <<>> => Len(queue) \in DOMAIN queue
      BY <1>typed
    <3>2. QED
      BY <3>1 DEF LastUnread, StopPending
  <2>3. CASE queue' = queue /\ (Loses /\ seen => LastUnread(SelfEvent(w)))
    <3>1. WITNESS <<>>
    <3>2. queue' = queue \o <<>> /\ <<>> \in Seq(Events)
      BY <1>typed, <2>3, ConcatEmptySeq
    <3>3. QED
      BY <2>2, <2>3, <3>2
  <2>4. CASE seen /\ queue' = Append(queue, SelfEvent(w))
    <3>1. WITNESS <<SelfEvent(w)>>
    <3>2. queue' = queue \o <<SelfEvent(w)>> /\ <<SelfEvent(w)>> \in Seq(Events)
          /\ <<SelfEvent(w)>> # <<>> /\ <<SelfEvent(w)>>[1] = SelfEvent(w)
      BY <1>2, <1>typed, <2>4, AppendIsConcat
    <3>3. QED
      BY <2>4, <3>2
  <2>5. CASE seen /\ queue' = queue \o <<SelfEvent(w), IgnoredEvent(w)>>
    <3>1. WITNESS <<SelfEvent(w), IgnoredEvent(w)>>
    <3>2. /\ <<SelfEvent(w), IgnoredEvent(w)>> \in Seq(Events)
          /\ <<SelfEvent(w), IgnoredEvent(w)>> # <<>>
          /\ <<SelfEvent(w), IgnoredEvent(w)>>[1] = SelfEvent(w)
      BY <1>2, <2>5
    <3>3. QED
      BY <2>5, <3>2
  <2>6. CASE seen /\ ~Loses /\ queue' = Append(queue, AttribEvent(w))
    <3>1. WITNESS <<AttribEvent(w)>>
    <3>2. queue' = queue \o <<AttribEvent(w)>> /\ <<AttribEvent(w)>> \in Seq(Events)
      BY <1>2, <1>typed, <2>6, AppendIsConcat
    <3>3. QED
      BY <2>6, <3>2
  <2>7. QED
    BY <2>1, <2>3, <2>4, <2>5, <2>6
<1>4. \A wd : StopPending(wd) => StopPending(wd)'
  BY <1>3, <1>typed, <1>vars, QueueGrows
<1>5. Loses /\ seen => StopPending(w)'
  <2>1. s # <<>> => 1 \in 1..Len(s)
    BY <1>3
  <2>2. \A wd : (\E i \in 1..Len(s) : s[i] = SelfEvent(wd)) => StopPending(wd)'
    BY <1>3, <1>typed, <1>vars, QueueGrows
  <2>3. QED
    BY <1>3, <1>4, <2>1, <2>2
<1>6. \A wd, name : Pending(wd, name)' = Pending(wd, name)
  <2>1. SUFFICES ASSUME NEW wd, NEW name PROVE Pending(wd, name)' = Pending(wd, name)
    OBVIOUS
  <2> DEFINE S == {FileEvent(wd, name)}
  <2>2. Pending(wd, name) = Count(batch, S) + Count(queue, S)
    BY <1>typed, PendingCount
  <2>3. Pending(wd, name)' = Count(batch', S) + Count(queue', S)
    BY <1>typed, <1>vars, PendingCountNext
  <2>4. Count(queue', S) = Count(queue, S) + Count(s, S)
    <3>1. s \in Seq(Events) /\ queue' = queue \o s
      BY <1>3
    <3>2. Count(queue \o s, S) = Count(queue, S) + Count(s, S)
      BY <1>typed, <3>1, CountConcat
    <3>3. QED
      BY <3>1, <3>2
  <2>5. Count(s, S) = 0
    <3>1. \A i \in 1..Len(s) : s[i] \notin S
      <4>1. seen => SelfEvent(w) \notin S /\ IgnoredEvent(w) \notin S /\ AttribEvent(w) \notin S
        BY <1>2, EventsTyped
      <4>2. CASE s = <<>>
        BY <4>2
      <4>3. CASE seen /\ s = <<SelfEvent(w)>>
        BY <4>1, <4>3
      <4>4. CASE seen /\ s = <<SelfEvent(w), IgnoredEvent(w)>>
        BY <4>1, <4>4
      <4>5. CASE seen /\ s = <<AttribEvent(w)>>
        BY <4>1, <4>5
      <4>6. QED
        BY <1>3, <4>2, <4>3, <4>4, <4>5
    <3>2. QED
      BY <1>3, <3>1, CountFinite
  <2>6. Count(batch, S) \in Nat /\ Count(queue, S) \in Nat
    <3>1. Count(batch, S) \in Nat
      BY <1>typed, CountFinite
    <3>2. Count(queue, S) \in Nat
      BY <1>typed, CountFinite
    <3>3. QED
      BY <3>1, <3>2
  <2> HIDE DEF S
  <2>7. QED
    BY <1>vars, <2>2, <2>3, <2>4, <2>5, <2>6
<1>7. Known' /\ CallbackRuns' /\ CalledInOrder'
  BY <1>vars, ListsStay, KnownStays DEF ListsKept
<1>8. ASSUME ~aliased' PROVE Agreed' /\ Heard'
  <2>1. Agreed /\ Heard
    BY <1>vars, <1>8 DEF ListsKept
  <2>2. DOMAIN watched' \subseteq DOMAIN watched
    BY <1>1 DEF Loses, RemoveDir, MakeDir, MoveDir, ChangeAttributes, WithoutWatch
  <2>3. \A i \in Dirs : Watching(m_dir[i])'
    <3>1. SUFFICES ASSUME NEW i \in Dirs, ~StopPending(m_dir[i].wd) PROVE Watching(m_dir[i])'
      BY <1>4, <1>vars DEF Watching
    <3>new. PICK wd, name : wd = m_dir[i].wd /\ name = m_dir[i].name
      OBVIOUS
    <3>2. wd \in DOMAIN watched /\ watched[wd] = inode[name]
      BY <2>1, <3>1, <3>new DEF Agreed, Watching
    <3>3. name \in DirName
      BY <3>new, FileFields
    <3>4. wd = m_dir'[i].wd /\ name = m_dir'[i].name
      BY <1>vars, <3>new
    <3>5. inode[name] # None
      BY <3>2, <3>3, WatchedUnderName
    <3>6. name = d => seen /\ w = wd
      BY <1>w, <3>2, <3>3, WatchedUnderName DEF seen
    <3>7. SUFFICES \/ wd \in DOMAIN watched' /\ watched'[wd] = inode'[name]
                   \/ StopPending(wd)'
      BY <3>4 DEF Watching
    <3>8. CASE RemoveDir(d) /\ wd # w
      <4>1. name # d /\ inode' = [inode EXCEPT ![d] = None]
        BY <3>6, <3>8 DEF RemoveDir
      <4>2. wd \in DOMAIN watched' /\ watched'[wd] = watched[wd]
        BY <1>w, <3>2, <3>8 DEF RemoveDir, WithoutWatch
      <4>3. QED
        BY <1>typed, <3>2, <3>3, <4>1, <4>2
    <3>9. CASE RemoveDir(d) /\ ~seen
      <4>1. name # d /\ inode' = [inode EXCEPT ![d] = None] /\ watched' = watched
        BY <3>6, <3>9 DEF RemoveDir, seen
      <4>2. QED
        BY <1>typed, <3>2, <3>3, <4>1
    <3>10. CASE MakeDir(d)
      <4>1. name # d /\ inode' = [inode EXCEPT ![d] = changes + 1] /\ watched' = watched
        BY <3>5, <3>10 DEF MakeDir
      <4>2. QED
        BY <1>typed, <3>2, <3>3, <4>1
    <3>11. CASE name # d /\ \E e \in DirName : MoveDir(d, e)
      <4>1. PICK e \in DirName : MoveDir(d, e)
        BY <3>11
      <4>2. name # e /\ inode' = [inode EXCEPT ![d] = None, ![e] = inode[d]] /\ watched' = watched
        BY <3>5, <4>1 DEF MoveDir
      <4>3. inode'[name] = inode[name]
        BY <1>typed, <3>3, <3>11, <4>2
      <4>4. QED
        BY <3>2, <4>2, <4>3
    <3>14. CASE ChangeAttributes(d)
      BY <3>2, <3>14 DEF ChangeAttributes
    <3>12. CASE Loses /\ seen /\ wd = w
      <4>1. StopPending(w)'
        BY <1>5, <3>12
      <4>2. QED
        BY <3>4, <3>12, <4>1
    <3>13. QED
      BY <1>1, <3>6, <3>8, <3>9, <3>10, <3>11, <3>12, <3>14 DEF Loses
  <2>4. Agreed'
    BY <1>vars, <2>1, <2>2, <2>3, AgreedStays
  <2>5. Heard'
    BY <1>4, <1>6, <1>vars, <2>1 DEF Heard, Files
  <2>6. QED
    BY <2>4, <2>5
<1>9. QED
  BY <1>7, <1>8 DEF ListsKept

-----------------------------------------------------------------------------
(* The invariant *)

LEMMA ListsInit == Init => ListsKept
<1> SUFFICES ASSUME Init PROVE ListsKept
  OBVIOUS
<1>1. /\ m_file = <<>> /\ m_dir = <<>> /\ watched = <<>> /\ handling = None /\ calling = 0
      /\ stopped = {}
  BY DEF Init, WatchInit, KernelInit
<1>2. Files = {} /\ Dirs = {} /\ DOMAIN watched = {}
  BY <1>1 DEF Files, Dirs
<1>3. Known /\ Agreed /\ Heard
  BY <1>2 DEF Known, Agreed, Heard
<1>4. CallbackRuns /\ CalledInOrder
  BY <1>1, <1>2 DEF CallbackRuns, CalledInOrder, Stopping
<1>5. QED
  BY <1>3, <1>4 DEF ListsKept

LEMMA IInvInit == Init => IInv
<1>1. Init => "fs" \in alive
  BY DEF Init
<1>2. QED
  BY <1>1, TypedInit, LoopInit, ListsInit DEF IInv

LEMMA HandleKept ==
    ASSUME Typed, Typed', ListsKept, Handle
    PROVE  ListsKept'
<1>1. CASE HandleEvent
  BY <1>1, HandleEventKept
<1>2. CASE SkipEvent
  BY <1>2, SkipEventKept
<1>3. CASE FileCallbackReturns
  BY <1>3, FileCallbackReturnsKept
<1>4. CASE StoppedReturns
  BY <1>4, StoppedReturnsKept
<1>5. CASE RemoveGone
  BY <1>5, RemoveGoneKept
<1>6. QED
  BY <1>1, <1>2, <1>3, <1>4, <1>5 DEF Handle

LEMMA ListsStep ==
    ASSUME IInv, [Next]_vars, "fs" \in alive'
    PROVE  ListsKept'
<1>typed. Typed /\ NothingLeft /\ Typed'
  BY TypedStep DEF IInv
<1>1. ASSUME UNCHANGED <<kernelVars, watchVars, history, alive>> PROVE ListsKept'
  BY <1>1, ListsIdle DEF IInv, kernelVars
<1>2. CASE NotifyFS
  BY <1>2, <1>typed, ReadKept DEF NotifyFS, IInv
<1>3. CASE Handle
  BY <1>3, <1>typed, HandleKept DEF Handle, IInv
<1>4. CASE DestroyFSWatch \/ Join
  BY <1>4 DEF DestroyFSWatch, Join
<1>5. ASSUME NEW p \in Path, AddCalled(p) PROVE ListsKept'
  BY <1>5, <1>typed, AddCalledKept DEF AddCalled, MayCall, IInv
<1>6. ASSUME NEW p \in Path, RemoveCalled(p) PROVE ListsKept'
  BY <1>6, <1>typed, RemoveCalledKept DEF RemoveCalled, MayCall, IInv
<1>7. ASSUME NEW p \in Path, ChangeFile(p) PROVE ListsKept'
  BY <1>7, <1>typed, ChangeFileKept DEF ChangeFile, IInv
<1>8. ASSUME NEW d \in DirName, ChangeDir(d) PROVE ListsKept'
  BY <1>8, <1>typed, ChangeDirKept DEF ChangeDir, IInv
<1>9. CASE EpollWait \/ Exit \/ NotifyQuit \/ NotifiedAll \/ UseDestroyed
  BY <1>1, <1>9 DEF EpollWait, Exit, NotifyQuit, NotifiedAll, UseDestroyed
<1>10. CASE Fire \/ Terminated \/ UNCHANGED vars
  BY <1>1, <1>10 DEF Fire, Terminated, vars, loopVars
<1>11. ASSUME NEW p \in Path, RepeatChange(p) PROVE ListsKept'
  BY <1>11, ListsIdle DEF RepeatChange, TouchAgain, IInv
<1>12. QED
  BY <1>2, <1>3, <1>4, <1>5, <1>6, <1>7, <1>8, <1>9, <1>10, <1>11
     DEF Next, Thread, Destructor

\* The lists end with the file watch.
LEMMA DestroyedStep ==
    ASSUME IInv, [Next]_vars, "fs" \notin alive'
    PROVE  m_file' = <<>>
<1>1. ASSUME UNCHANGED <<m_file, alive>> PROVE m_file' = <<>>
  BY <1>1 DEF IInv
<1>2. CASE DestroyFSWatch
  BY <1>2 DEF DestroyFSWatch
<1>3. CASE Join
  <2>1. "fs" \notin alive
    BY <1>3 DEF Join, IInv, LoopState
  <2>2. QED
    BY <1>3, <2>1 DEF Join, IInv, watchVars
<1>4. CASE Handle \/ NotifyFS
  BY <1>4 DEF Handle, NotifyFS, loopVars
<1>5. ASSUME NEW p \in Path, AddCalled(p) \/ RemoveCalled(p) \/ ChangeFile(p) \/ RepeatChange(p)
      PROVE  m_file' = <<>>
  BY <1>5 DEF AddCalled, RemoveCalled, ChangeFile, RepeatChange, MayCall, loopVars
<1>6. ASSUME NEW d \in DirName, ChangeDir(d) PROVE m_file' = <<>>
  BY <1>6 DEF ChangeDir, loopVars
<1>7. CASE EpollWait \/ Exit \/ NotifyQuit \/ NotifiedAll \/ UseDestroyed
  BY <1>1, <1>7 DEF EpollWait, Exit, NotifyQuit, NotifiedAll, UseDestroyed, watchVars
<1>8. CASE Fire \/ Terminated \/ UNCHANGED vars
  BY <1>1, <1>8 DEF Fire, Terminated, vars, loopVars, watchVars
<1>9. QED
  BY <1>2, <1>3, <1>4, <1>5, <1>6, <1>7, <1>8 DEF Next, Thread, Destructor

LEMMA IInvStep == IInv /\ [Next]_vars => IInv'
<1> SUFFICES ASSUME IInv, [Next]_vars PROVE IInv'
  OBVIOUS
<1>1. Typed'
  BY TypedStep
<1>2. LoopState' /\ NothingLeft'
  BY LoopStep DEF IInv
<1>3. "fs" \in alive' => ListsKept'
  BY ListsStep
<1>4. "fs" \notin alive' => m_file' = <<>>
  BY DestroyedStep
<1>5. QED
  BY <1>1, <1>2, <1>3, <1>4 DEF IInv

\* The invariant holds in every reachable state of the thread and its owner.
THEOREM Invariance == Spec => []IInv
<1>1. Init => IInv
  BY IInvInit
<1>2. IInv /\ [Next]_vars => IInv'
  BY IInvStep
<1>3. QED
  BY <1>1, <1>2, PTL DEF Spec

-----------------------------------------------------------------------------
(* What the runs check *)

LEMMA IInvTypeOK == IInv => TypeOK
<1> SUFFICES ASSUME IInv PROVE TypeOK
  OBVIOUS
<1>typed. KernelTyped /\ WatchTyped /\ LoopState
  BY DEF IInv, Typed
<1>1. inode \in [DirName -> 0..MaxChanges \cup {None}]
  <2>1. 0..changes \subseteq 0..MaxChanges
    BY <1>typed, ChangesAssumption DEF KernelTyped
  <2>2. QED
    BY <1>typed, <2>1 DEF KernelTyped
<1>2. DOMAIN watched \subseteq 1..given /\ Range(watched) \subseteq 0..MaxChanges
  <2>1. 0..changes \subseteq 0..MaxChanges
    BY <1>typed, ChangesAssumption DEF KernelTyped
  <2>2. QED
    BY <1>typed, <2>1 DEF KernelTyped, Range
<1>3. Range(queue) \subseteq Events /\ Range(batch) \subseteq Events
  <2>1. queue \in Seq(Events) /\ batch \in Seq(Events)
    BY <1>typed DEF KernelTyped, WatchTyped
  <2>2. Range(queue) \subseteq Events
    BY <2>1, RangeFacts
  <2>3. Range(batch) \subseteq Events
    BY <2>1, RangeFacts
  <2>4. QED
    BY <2>2, <2>3
<1>4. Range(ready) \subseteq {"fs", "quit"}
  <2>1. ready \in Seq({"fs", "quit"})
    BY <1>typed DEF LoopState
  <2>2. QED
    BY <2>1, RangeFacts
<1>5. ASSUME NEW i \in DOMAIN m_file PROVE m_file[i] \in [id : 1..added, dir_wd : 1..given, name : FileName]
  <2>1. i \in Files
    BY <1>typed DEF WatchTyped, Files
  <2>2. m_file[i] \in FileRecord /\ m_file[i].id \in 1..added /\ m_file[i].dir_wd \in 1..given
    BY <1>typed, <2>1 DEF WatchTyped, Files
  <2>3. QED
    BY <2>2 DEF FileRecord
<1>6. ASSUME NEW i \in DOMAIN m_dir PROVE m_dir[i] \in [wd : 1..given, name : DirName]
  <2>1. i \in Dirs
    BY <1>typed DEF WatchTyped, Dirs
  <2>2. m_dir[i] \in DirRecord /\ m_dir[i].wd \in 1..given
    BY <1>typed, <2>1 DEF WatchTyped, Dirs
  <2>3. QED
    BY <2>2 DEF DirRecord
<1>7. /\ handling \in Events \cup {None} /\ calling \in 0..added
      /\ pc \in {"wait", "notify", "exited", "undefined"} /\ fired \in 0..1
  BY <1>typed DEF WatchTyped, LoopState
<1>8. QED
  BY <1>1, <1>2, <1>3, <1>4, <1>5, <1>6, <1>7 DEF TypeOK

\* The state of the thread, the lists and the kernel keep their types.
THEOREM TypeCorrect == Spec => []TypeOK
<1>1. IInv => TypeOK
  BY IInvTypeOK
<1>2. QED
  BY <1>1, Invariance, PTL

\* Between two results of epoll_wait nothing is half done, and the loop and the
\* quit event outlive the thread: only an FSWatch destroyed in the middle of its
\* own work can be used after its end.
THEOREM NothingDestroyedUsed == Spec => []SafeUnlessInterrupted
<1>1. IInv => SafeUnlessInterrupted
  BY DEF IInv, NothingLeft, SafeUnlessInterrupted
<1>2. QED
  BY <1>1, Invariance, PTL

LEMMA FileOfIndex ==
    ASSUME Typed, Known, NEW i \in Files
    PROVE  FileOf(m_file[i].id) = m_file[i]
<1>1. SelectInSeq(m_file, LAMBDA f : f.id = m_file[i].id) = i
  BY FileOfRegistered DEF Typed, WatchTyped, Known
<1>2. QED
  BY <1>1 DEF FileOf

LEMMA ListDomains ==
    ASSUME Typed
    PROVE  DOMAIN m_file = Files /\ DOMAIN m_dir = Dirs
BY DEF Typed, WatchTyped, Files, Dirs

LEMMA IInvHandledStays == IInv => HandledStays
<1> SUFFICES ASSUME IInv, "fs" \in alive, calling # 0
             PROVE  /\ calling \in Registered
                    /\ FileOf(calling).dir_wd = handling.wd
                    /\ KnownWd(handling.wd)
  BY DEF HandledStays
<1>1. Typed /\ Known /\ CallbackRuns
  BY DEF IInv, ListsKept
<1>2. PICK i \in Files, d \in Dirs :
          /\ m_file[i].id = calling /\ m_file[i].dir_wd = handling.wd
          /\ FileOf(calling) = m_file[i]
          /\ m_dir[d].wd = handling.wd
  BY <1>1, CalledFacts
<1>3. QED
  BY <1>1, <1>2, ListDomains DEF Registered, KnownWd

\* The file and the directory whose callback runs stay in the lists, whatever
\* the callback and other callers add and remove.
THEOREM HandledStaysListed == Spec => []HandledStays
<1>1. IInv => HandledStays
  BY IInvHandledStays
<1>2. QED
  BY <1>1, Invariance, PTL

LEMMA IInvWatchesExact == IInv => WatchesExact
<1> SUFFICES ASSUME IInv, "fs" \in alive, ~aliased
             PROVE  /\ {m_dir[i].wd : i \in DOMAIN m_dir} = {m_file[i].dir_wd : i \in DOMAIN m_file}
                    /\ \A i, j \in DOMAIN m_dir : m_dir[i].wd = m_dir[j].wd => i = j
                    /\ DOMAIN watched \subseteq {m_dir[i].wd : i \in DOMAIN m_dir}
                    /\ \A i \in DOMAIN m_dir :
                           \/ m_dir[i].wd \in DOMAIN watched /\ watched[m_dir[i].wd] = inode[m_dir[i].name]
                           \/ StopPending(m_dir[i].wd)
  BY DEF WatchesExact
<1>1. Typed /\ Known /\ Agreed
  BY DEF IInv, ListsKept
<1>2. DOMAIN m_file = Files /\ DOMAIN m_dir = Dirs
  BY <1>1, ListDomains
<1>3. {m_dir[i].wd : i \in Dirs} = {m_file[i].dir_wd : i \in Files}
  BY <1>1 DEF Known, Agreed
<1>4. \A i, j \in Dirs : m_dir[i].wd = m_dir[j].wd => i = j
  BY <1>1 DEF Agreed
<1>5. DOMAIN watched \subseteq {m_dir[i].wd : i \in Dirs}
  BY <1>1 DEF Agreed
<1>6. \A i \in Dirs : Watching(m_dir[i])
  BY <1>1 DEF Agreed
<1>7. QED
  BY <1>2, <1>3, <1>4, <1>5, <1>6 DEF Watching

\* As long as no directory has two names in m_dir, the kernel watches exactly
\* what has a registration: inotify_add_watch and inotify_rm_watch are paired.
THEOREM WatchesPaired == Spec => []WatchesExact
<1>1. IInv => WatchesExact
  BY IInvWatchesExact
<1>2. QED
  BY <1>1, Invariance, PTL

LEMMA IInvNoneLost == IInv => NoneLost
<1> SUFFICES ASSUME IInv, "fs" \in alive, ~aliased, NEW id \in Watch \ shared, id \in Registered
             PROVE  \/ heard[id] + Pending(FileOf(id).dir_wd, FileOf(id).name) = raised[id]
                    \/ StopPending(FileOf(id).dir_wd)
  BY DEF NoneLost, HeardAll
<1>1. Typed /\ Known /\ Heard
  BY DEF IInv, ListsKept
<1>2. PICK i \in Files : m_file[i].id = id
  BY <1>1, ListDomains DEF Registered
<1>3. FileOf(id) = m_file[i]
  BY <1>1, <1>2, FileOfIndex
<1>4. QED
  BY <1>1, <1>2, <1>3 DEF Heard

\* No change is lost on its way from the kernel to a callback, and none is told
\* twice, however many registrations and changes there are.
THEOREM NoChangeLost == Spec => []NoneLost
<1>1. IInv => NoneLost
  BY IInvNoneLost
<1>2. QED
  BY <1>1, Invariance, PTL

-----------------------------------------------------------------------------
(* Stopped is the last call *)

Ends(id) ==
    /\ heard'[id] = heard[id]
    /\ calling' = id => calling = id
    /\ handling' = None => id \notin {m_file'[i].id : i \in DOMAIN m_file'}

\* Only while the files of a directory are told that it is gone, one of them
\* which was told is registered.
LEMMA NoneStopped ==
    ASSUME IInv, ~Stopping, NEW i \in Files
    PROVE  m_file[i].id \notin stopped
<1>1. CASE "fs" \in alive
  BY <1>1 DEF IInv, ListsKept, CalledInOrder
<1>2. CASE "fs" \notin alive
  <2>1. m_file = <<>>
    BY <1>2 DEF IInv
  <2>2. QED
    BY <2>1 DEF Files
<1>3. QED
  BY <1>1, <1>2

\* No step but those of handle_event calls a callback; a new registration has a
\* number of its own.
LEMMA EndsOutside ==
    ASSUME IInv, Typed', NEW id \in stopped, UNCHANGED <<heard, calling, handling>>,
           \A i \in Files' : m_file'[i].id = added + 1 \/ \E j \in Files : m_file'[i] = m_file[j]
    PROVE  Ends(id)
<1>1. id \in 1..added /\ added \in Nat
  BY DEF IInv, Typed, HistoryTyped, WatchTyped
<1>2. ASSUME handling' = None, NEW i \in Files', m_file'[i].id = id PROVE FALSE
  <2>1. PICK j \in Files : m_file'[i] = m_file[j]
    BY <1>1, <1>2
  <2>2. ~Stopping
    BY <1>2 DEF Stopping
  <2>3. QED
    BY <1>2, <2>1, <2>2, NoneStopped
<1>3. DOMAIN m_file' = Files'
  BY DEF Typed, WatchTyped, Files
<1>4. QED
  BY <1>2, <1>3 DEF Ends

LEMMA EndsHandle ==
    ASSUME IInv, Typed', Handle, NEW id \in stopped
    PROVE  Ends(id)
<1>typed. /\ Typed /\ ListsKept /\ CalledInOrder /\ CallbackRuns /\ Known
          /\ id \in 1..added /\ added \in Nat
          /\ DOMAIN m_file' = Files' /\ m_file \in Seq(FileRecord)
          /\ DOMAIN m_file = Files
  <2>1. Typed /\ ListsKept
    BY DEF Handle, IInv
  <2>2. id \in 1..added /\ added \in Nat
    BY <2>1 DEF Typed, HistoryTyped, WatchTyped
  <2>3. m_file \in Seq(FileRecord) /\ DOMAIN m_file = Files
    BY <2>1, ListDomains DEF Typed, WatchTyped
  <2>4. DOMAIN m_file' = Files'
    BY DEF Typed, WatchTyped, Files
  <2>5. Known /\ CalledInOrder /\ CallbackRuns
    BY <2>1 DEF ListsKept
  <2>6. QED
    BY <2>1, <2>2, <2>3, <2>4, <2>5
<1>heard. ~Called \/ handling'.kind # "file" => heard' = heard
  BY DEF Handle
<1>1. CASE HandleEvent
  <2>1. PICK name :
            /\ handling = None /\ FirstCalled(Head(batch), name) # 0 /\ handling' = Head(batch)
            /\ calling' = m_file[FirstCalled(Head(batch), name)].id
            /\ batch # <<>>
    BY <1>1 DEF HandleEvent
  <2>2. Head(batch) \in Events
    <3>1. batch \in Seq(Events)
      BY <1>typed DEF Typed, WatchTyped
    <3>2. QED
      BY <2>1, <3>1, RangeFacts
  <2>3. FirstCalled(Head(batch), name) \in Files
    BY <1>typed, <2>1, <2>2, FirstCalledOf
  <2>4. ~Stopping
    BY <2>1 DEF Stopping
  <2>5. calling' # id
    BY <2>1, <2>3, <2>4, NoneStopped
  <2>6. heard'[id] = heard[id]
    <3>1. heard' = heard \/ heard' = [heard EXCEPT ![calling'] = @ + 1]
      BY DEF Handle
    <3>2. id \in Watch
      BY <1>typed, WatchesAssumption DEF Typed, WatchTyped, Watch
    <3>3. heard \in [Watch -> Nat]
      BY <1>typed DEF Typed, HistoryTyped
    <3>4. QED
      BY <2>5, <3>1, <3>2, <3>3
  <2>7. handling' # None
    BY <2>1, <2>2, NamesAssumption
  <2>8. QED
    BY <2>5, <2>6, <2>7 DEF Ends
<1>2. CASE SkipEvent
  <2>1. UNCHANGED <<handling, calling, m_file>>
    BY <1>2 DEF SkipEvent
  <2>2. heard' = heard
    BY <1>heard, <2>1 DEF Called
  <2>3. \A i \in Files' : \E j \in Files : m_file'[i] = m_file[j]
    BY <2>1 DEF Files
  <2>4. QED
    BY <2>1, <2>2, <2>3, EndsOutside
<1>3. CASE FileCallbackReturns
  <2>1. handling.kind \in {"file", "attrib"} /\ calling' = 0 /\ m_file' = m_file
    BY <1>3 DEF FileCallbackReturns
  <2>2. heard' = heard
    BY <1>heard, <2>1 DEF Called
  <2>3. ~Stopping
    BY <2>1 DEF Stopping
  <2>4. \A i \in Files : m_file[i].id # id
    BY <2>3, NoneStopped
  <2>5. QED
    BY <1>typed, <2>1, <2>2, <2>4 DEF Ends, Files
<1>4. CASE StoppedReturns
  <2>1. /\ handling # None /\ handling.kind = "self" /\ handling' = handling
        /\ calling # 0
        /\ calling' = IF Remaining = {} THEN 0 ELSE m_file[Min1(Remaining)].id
    BY <1>4 DEF StoppedReturns
  <2>2. heard' = heard
    BY <1>heard, <2>1
  <2>3. calling' # id
    <3>1. PICK i \in Files, d \in Dirs :
              /\ m_file[i].id = calling
              /\ Remaining = {j \in i + 1 .. Len(m_file) : m_file[j].dir_wd = handling.wd}
              /\ Remaining # {} => Min1(Remaining) \in Remaining
      BY <1>typed, <2>1, CalledFacts
    <3>2. CASE Remaining = {}
      BY <1>typed, <2>1, <3>2
    <3>3. CASE Remaining # {}
      <4> DEFINE next == Min1(Remaining)
      <4>1. next \in Files /\ next > i
        BY <1>typed, <3>1, <3>3 DEF Files
      <4>2. calling' = m_file[next].id
        BY <2>1, <3>3
      <4> HIDE DEF next
      <4>3. SUFFICES ASSUME m_file[next].id \in stopped PROVE FALSE
        BY <4>2
      <4>4. next <= i
        BY <1>typed, <3>1, <4>1, <4>3 DEF CalledInOrder
      <4>5. next \in Nat /\ i \in Nat
        BY <4>1 DEF Files
      <4>6. QED
        BY <4>1, <4>4, <4>5
    <3>4. QED
      BY <3>2, <3>3
  <2>4. QED
    BY <2>1, <2>2, <2>3 DEF Ends
<1>5. CASE RemoveGone
  <2>1. calling' = calling
    BY <1>5 DEF RemoveGone
  <2>2. heard' = heard
    BY <1>heard, <2>1 DEF Called
  <2>3. ASSUME handling' = None, NEW i \in Files', m_file'[i].id = id PROVE FALSE
    <3>1. m_file'[i].dir_wd # handling.wd
      BY <1>5, <1>typed, <2>3, GoneAll
    <3>2. PICK j \in Files : m_file'[i] = m_file[j]
      BY <1>5, <1>typed, <2>3, RemoveGoneCounts DEF Files
    <3>3. m_file[j].dir_wd = handling.wd
      BY <1>typed, <2>3, <3>2 DEF CalledInOrder
    <3>4. QED
      BY <3>1, <3>2, <3>3
  <2>4. QED
    BY <1>typed, <2>1, <2>2, <2>3 DEF Ends
<1>6. QED
  BY <1>1, <1>2, <1>3, <1>4, <1>5 DEF Handle

LEMMA EndsStep ==
    ASSUME IInv, [Next]_vars, NEW id \in stopped
    PROVE  Ends(id)
<1>typed. Typed /\ Typed' /\ DOMAIN m_file' = Files'
  <2>1. Typed /\ Typed'
    BY TypedStep DEF IInv
  <2>2. QED
    BY <2>1 DEF Typed, WatchTyped, Files
<1>1. ASSUME UNCHANGED <<heard, calling, handling, m_file>> PROVE Ends(id)
  BY <1>1, <1>typed, EndsOutside DEF Files
<1>2. CASE Handle
  BY <1>2, <1>typed, EndsHandle
<1>3. CASE DestroyFSWatch
  <2>1. UNCHANGED <<heard, calling, handling>> /\ m_file' = <<>>
    BY <1>3 DEF DestroyFSWatch
  <2>2. Files' = {}
    BY <2>1 DEF Files
  <2>3. QED
    BY <1>typed, <2>1, <2>2, EndsOutside
<1>4. ASSUME NEW p \in Path, AddCalled(p) PROVE Ends(id)
  <2>1. UNCHANGED <<heard, calling, handling>>
    BY <1>4 DEF AddCalled, AddWatch
  <2>2. PICK w : m_file' = Append(m_file, [id |-> added + 1, dir_wd |-> w, name |-> p.name])
    BY <1>4, <1>typed, AddedLists
  <2>3. m_file \in Seq(FileRecord)
    BY <1>typed DEF Typed, WatchTyped
  <2>4. \A i \in Files' : m_file'[i].id = added + 1 \/ \E j \in Files : m_file'[i] = m_file[j]
    BY <2>2, <2>3 DEF Files
  <2>5. QED
    BY <1>typed, <2>1, <2>4, EndsOutside
<1>5. ASSUME NEW p \in Path, RemoveCalled(p) PROVE Ends(id)
  <2> DEFINE k == RemovedIndex(Lists, p)
  <2>1. UNCHANGED <<heard, calling, handling>>
    BY <1>5 DEF RemoveCalled, RemoveWatch, history
  <2>2. Known /\ p \in [dir : DirName, name : FileName]
    BY <1>5, PathAssumption DEF RemoveCalled, MayCall, IInv, ListsKept
  <2>3. k # 0 /\ k \in Files
    BY <1>5, <1>typed, <2>2, RemovedIndexOf DEF RemoveCalled, RemoveWatch
  <2>4. SetLists(EraseFile(Lists, k))
    BY <1>5, <2>3 DEF RemoveCalled, RemoveWatch, RemovePath
  <2> HIDE DEF k
  <2>5. Embeds(m_file, m_file', k)
    BY <1>typed, <2>2, <2>3, <2>4, ErasedEmbeds
  <2>6. \A i \in Files' : \E j \in Files : m_file'[i] = m_file[j]
    BY <2>5 DEF Embeds, Files
  <2>7. QED
    BY <1>typed, <2>1, <2>6, EndsOutside
<1>6. ASSUME NEW p \in Path, ChangeFile(p) \/ RepeatChange(p) PROVE Ends(id)
  BY <1>1, <1>6 DEF ChangeFile, RepeatChange, watchVars, history
<1>7. ASSUME NEW d \in DirName, ChangeDir(d) PROVE Ends(id)
  BY <1>1, <1>7 DEF ChangeDir, watchVars, history
<1>8. CASE EpollWait \/ Exit \/ NotifyQuit \/ NotifiedAll \/ UseDestroyed
  BY <1>1, <1>8 DEF EpollWait, Exit, NotifyQuit, NotifiedAll, UseDestroyed, watchVars, history
<1>9. CASE Fire \/ Join \/ Terminated \/ UNCHANGED vars
  BY <1>1, <1>9 DEF Fire, Join, Terminated, vars, watchVars, history
<1>10. CASE NotifyFS
  BY <1>1, <1>10 DEF NotifyFS, ReadEvents, history
<1>11. QED
  BY <1>2, <1>3, <1>4, <1>5, <1>6, <1>7, <1>8, <1>9, <1>10 DEF Next, Thread, Destructor

\* Once a callback was called with Stopped it is not called again, and its
\* registration is gone when handle_event returns.
THEOREM StoppedIsFinal == Spec => StoppedFinal
<1>1. IInv /\ [Next]_vars => [\A id \in stopped : Ends(id)]_vars
  BY EndsStep
<1>2. Spec => [][\A id \in stopped : Ends(id)]_vars
  BY <1>1, Invariance, PTL DEF Spec
<1>3. QED
  BY <1>2 DEF StoppedFinal, Ends
=============================================================================
