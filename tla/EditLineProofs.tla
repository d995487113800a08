--------------------------- MODULE EditLineProofs ---------------------------
(***************************************************************************)
(* Theorems about the line editor, for any keyboard, any texts and any     *)
(* history: each key does what Editor says, what is decoded is what was    *)
(* typed however its bytes arrive, the history file keeps the lines, and   *)
(* with these EditLine implements Editor.                                  *)
(***************************************************************************)
EXTENDS EditLine, SequenceTheorems, WellFoundedInduction, TLAPS

-----------------------------------------------------------------------------
(* Least and greatest, and functions by recursion.                         *)

LEMMA LeastOf ==
  ASSUME NEW A \in SUBSET Nat, A # {}
  PROVE  \E n \in A : \A m \in A : n <= m
<1> DEFINE Less == OpToRel(<, Nat)
<1>1. IsWellFoundedOn(Less, Nat)
  BY NatLessThanWellFounded
<1>2. \A m, n \in Nat : <<m, n>> \in Less <=> m < n
  BY DEF OpToRel
<1> HIDE DEF Less
<1>3. PICK n \in A : \A m \in A : <<m, n>> \notin Less
  BY <1>1, WFMin
<1>4. ASSUME NEW m \in A PROVE n <= m
  <2>1. ~(m < n)
    BY <1>2, <1>3
  <2> QED BY <2>1
<1> QED BY <1>4

LEMMA GreatestOf ==
  ASSUME NEW A \in SUBSET Nat, NEW n \in Nat, \A m \in A : m <= n, A # {}
  PROVE  \E k \in A : \A m \in A : m <= k
<1> DEFINE UpperBounds == {k \in Nat : \A m \in A : m <= k}
<1>1. PICK k \in UpperBounds : \A m \in UpperBounds : k <= m
  <2>1. UpperBounds \in SUBSET Nat /\ n \in UpperBounds
    OBVIOUS
  <2> HIDE DEF UpperBounds
  <2> QED BY <2>1, LeastOf
<1>2. \A m \in A : m <= k
  BY <1>1
<1>3. k \in A
  <2> SUFFICES ASSUME k \notin A PROVE FALSE
    OBVIOUS
  <2>1. \A m \in A : m <= k - 1
    BY <1>1
  <2>2. k # 0
    <3>1. PICK m \in A : m <= k - 1
      BY <2>1
    <3> QED BY <3>1
  <2>3. k - 1 \in UpperBounds
    BY <1>1, <2>1, <2>2
  <2> QED BY <1>1, <2>3
<1> QED BY <1>2, <1>3

LEMMA StaysIn ==
  ASSUME NEW N \in Nat, NEW S, NEW f, f[0] \in S,
         \A n \in 1 .. N : f[n - 1] \in S => f[n] \in S
  PROVE  \A n \in 0 .. N : f[n] \in S
<1> DEFINE Outside == {n \in 0 .. N : f[n] \notin S}
<1>1. Outside = {}
  <2> SUFFICES ASSUME Outside # {} PROVE FALSE
    OBVIOUS
  <2>1. PICK n \in Outside : \A m \in Outside : n <= m
    <3>1. Outside \in SUBSET Nat
      OBVIOUS
    <3> HIDE DEF Outside
    <3> QED BY <3>1, LeastOf
  <2>2. n \in 1 .. N /\ f[n] \notin S
    BY <2>1
  <2>3. n - 1 \in 0 .. N /\ ~(n <= n - 1)
    BY <2>2
  <2>4. f[n - 1] \in S
    BY <2>1, <2>3
  <2> QED BY <2>2, <2>4
<1> QED BY <1>1

LEMMA Upwards ==
  ASSUME NEW N \in Nat, NEW A, 0 \in A, \A n \in 1 .. N : n - 1 \in A => n \in A
  PROVE  \A n \in 0 .. N : n \in A
<1> DEFINE f == [n \in 0 .. N |-> n]
<1>1. f[0] \in A
  OBVIOUS
<1>2. \A n \in 1 .. N : f[n - 1] \in A => f[n] \in A
  OBVIOUS
<1>3. \A n \in 0 .. N : f[n] = n
  OBVIOUS
<1> HIDE DEF f
<1>4. \A n \in 0 .. N : f[n] \in A
  BY <1>1, <1>2, StaysIn
<1> QED BY <1>3, <1>4

Builds(f, N, v, step) ==
  f[0] = v /\ \A n \in 1 .. N : f[n] = step[n][f[n - 1]]

LEMMA Recursion ==
  ASSUME NEW N \in Nat, NEW S, NEW v \in S, NEW step \in [1 .. N -> [S -> S]]
  PROVE  \E f \in [0 .. N -> S] : Builds(f, N, v, step)
<1> DEFINE UpTo(n, f) == /\ f \in [0 .. n -> S]
                         /\ f[0] = v
                         /\ \A m \in 1 .. n : f[m] = step[m][f[m - 1]]
           Missing == {n \in 0 .. N : ~\E f : UpTo(n, f)}
<1>1. \E f : UpTo(0, f)
  <2>1. UpTo(0, [n \in 0 .. 0 |-> v])
    OBVIOUS
  <2> QED BY <2>1
<1>2. ASSUME NEW n \in 1 .. N, NEW f, UpTo(n - 1, f)
      PROVE  \E g : UpTo(n, g)
  <2> DEFINE g == [m \in 0 .. n |-> IF m = n THEN step[n][f[n - 1]] ELSE f[m]]
  <2>1. f[n - 1] \in S /\ step[n] \in [S -> S]
    BY <1>2
  <2>2. g \in [0 .. n -> S]
    BY <1>2, <2>1
  <2>3. ASSUME NEW m \in 1 .. n PROVE g[m] = step[m][g[m - 1]]
    <3>1. g[m - 1] = f[m - 1]
      OBVIOUS
    <3>2. CASE m = n
      BY <3>1, <3>2
    <3>3. CASE m # n
      <4>1. m \in 1 .. n - 1
        BY <3>3
      <4> QED BY <4>1, <3>1, <3>3, <1>2
    <3> QED BY <3>2, <3>3
  <2>4. g[0] = v
    BY <1>2
  <2>5. UpTo(n, g)
    BY <2>2, <2>3, <2>4
  <2> QED BY <2>5
<1>3. Missing = {}
  <2> SUFFICES ASSUME Missing # {} PROVE FALSE
    OBVIOUS
  <2> HIDE DEF UpTo
  <2>1. PICK n \in Missing : \A m \in Missing : n <= m
    <3>1. Missing \in SUBSET Nat
      OBVIOUS
    <3> HIDE DEF Missing
    <3> QED BY <3>1, LeastOf
  <2>2. n \in 1 .. N /\ ~\E f : UpTo(n, f)
    BY <2>1, <1>1
  <2>3. n - 1 \in 0 .. N /\ ~(n <= n - 1)
    BY <2>2
  <2>4. PICK f : UpTo(n - 1, f)
    BY <2>1, <2>3
  <2> QED BY <2>2, <2>4, <1>2
<1>4. PICK f : UpTo(N, f)
  <2> HIDE DEF UpTo
  <2> QED BY <1>3
<1> QED BY <1>4 DEF Builds


LEMMA MaxOf ==
  ASSUME NEW A \in SUBSET Nat, NEW n \in Nat, \A m \in A : m <= n, A # {}
  PROVE  Max(A) \in A /\ \A m \in A : m <= Max(A)
<1>1. \E k \in A : \A m \in A : k >= m
  <2>1. PICK k \in A : \A m \in A : m <= k
    BY GreatestOf
  <2> QED BY <2>1
<1> QED BY <1>1 DEF Max

LEMMA MinOf ==
  ASSUME NEW A \in SUBSET Nat, A # {}
  PROVE  Min(A) \in A /\ \A m \in A : Min(A) <= m
<1>1. \E k \in A : \A m \in A : k =< m
  <2>1. PICK k \in A : \A m \in A : k <= m
    BY LeastOf
  <2> QED BY <2>1
<1> QED BY <1>1 DEF Min

LEMMA MaxIs ==
  ASSUME NEW A \in SUBSET Int, NEW k \in A, \A m \in A : m <= k
  PROVE  Max(A) = k
<1> DEFINE x == Max(A)
<1>1. x \in A /\ \A m \in A : x >= m
  <2>1. \E i \in A : \A m \in A : i >= m
    OBVIOUS
  <2> QED BY <2>1 DEF Max
<1> HIDE DEF x
<1>2. x \in Int /\ k \in Int /\ x >= k /\ x <= k
  BY <1>1
<1>3. x = k
  BY <1>2
<1> QED BY <1>3 DEF x

LEMMA MinIs ==
  ASSUME NEW A \in SUBSET Int, NEW k \in A, \A m \in A : k <= m
  PROVE  Min(A) = k
<1> DEFINE x == Min(A)
<1>1. x \in A /\ \A m \in A : x <= m
  <2>1. \E i \in A : \A m \in A : i =< m
    OBVIOUS
  <2> QED BY <2>1 DEF Min
<1> HIDE DEF x
<1>2. x \in Int /\ k \in Int /\ x >= k /\ x <= k
  BY <1>1
<1>3. x = k
  BY <1>2
<1> QED BY <1>3 DEF x

LEMMA MaxOfTwo ==
  ASSUME NEW m \in Int, NEW n \in Int
  PROVE  Max({m, n}) = IF m < n THEN n ELSE m
<1>1. CASE m < n
  BY <1>1, MaxIs
<1>2. CASE ~(m < n)
  BY <1>2, MaxIs
<1> QED BY <1>1, <1>2

LEMMA MinOfTwo ==
  ASSUME NEW m \in Int, NEW n \in Int
  PROVE  Min({m, n}) = IF n < m THEN n ELSE m
<1>1. CASE n < m
  BY <1>1, MinIs
<1>2. CASE ~(n < m)
  BY <1>2, MinIs
<1> QED BY <1>1, <1>2
-----------------------------------------------------------------------------
(* Sequences.                                                              *)

LEMMA SameSeq ==
  ASSUME NEW S, NEW s \in Seq(S), NEW t \in Seq(S), Len(s) = Len(t),
         \A i \in 1 .. Len(s) : s[i] = t[i]
  PROVE  s = t
OBVIOUS

LEMMA ConcatIs ==
  ASSUME NEW S, NEW s \in Seq(S), NEW t \in Seq(S)
  PROVE  /\ s \o t \in Seq(S)
         /\ Len(s \o t) = Len(s) + Len(t)
         /\ Len(s) \in Nat /\ Len(t) \in Nat
         /\ \A i \in 1 .. Len(s) : (s \o t)[i] = s[i]
         /\ \A i \in 1 .. Len(t) : (s \o t)[Len(s) + i] = t[i]
<1>1. /\ s \o t \in Seq(S)
      /\ Len(s \o t) = Len(s) + Len(t)
      /\ \A i \in 1 .. Len(s) + Len(t) :
            (s \o t)[i] = IF i <= Len(s) THEN s[i] ELSE t[i - Len(s)]
  BY ConcatProperties
<1>2. Len(s) \in Nat /\ Len(t) \in Nat
  OBVIOUS
<1> DEFINE m == Len(s)
           n == Len(t)
           u == s \o t
<1> HIDE DEF m, n, u
<1>3. ASSUME NEW i \in 1 .. m PROVE u[i] = s[i]
  <2>1. i \in 1 .. m + n /\ i <= m
    BY <1>2 DEF m, n
  <2> QED BY <2>1, <1>1 DEF m, n, u
<1>4. ASSUME NEW i \in 1 .. n PROVE u[m + i] = t[i]
  <2>1. m + i \in 1 .. m + n /\ ~(m + i <= m) /\ m + i - m = i
    BY <1>2 DEF m, n
  <2>2. u[m + i] = t[m + i - m]
    BY <2>1, <1>1 DEF m, n, u
  <2> QED BY <2>1, <2>2
<1> QED BY <1>1, <1>2, <1>3, <1>4 DEF m, n, u

LEMMA PartIs ==
  ASSUME NEW S, NEW s \in Seq(S), NEW m \in Nat, NEW n \in Nat, m >= 1, n <= Len(s)
  PROVE  /\ SubSeq(s, m, n) \in Seq(S)
         /\ Len(SubSeq(s, m, n)) = IF m <= n THEN n - m + 1 ELSE 0
         /\ \A i \in 1 .. n - m + 1 : SubSeq(s, m, n)[i] = s[m + i - 1]
<1>1. \A i \in m .. n : s[i] \in S
  OBVIOUS
<1> QED BY <1>1, SubSeqProperties

(* A sequence is a first part of it and the rest. *)
LEMMA PartAndRest ==
  ASSUME NEW S, NEW s \in Seq(S), NEW n \in 0 .. Len(s)
  PROVE  SubSeq(s, 1, n) \o SubSeq(s, n + 1, Len(s)) = s
<1> DEFINE L == Len(s)
           p == SubSeq(s, 1, n)
           q == SubSeq(s, n + 1, L)
<1>1. L \in Nat /\ n \in Nat /\ n <= L /\ n + 1 \in Nat
  OBVIOUS
<1>2. p \in Seq(S) /\ Len(p) = n /\ \A i \in 1 .. n : p[i] = s[i]
  <2>1. /\ p \in Seq(S) /\ Len(p) = (IF 1 <= n THEN n - 1 + 1 ELSE 0)
        /\ \A i \in 1 .. n - 1 + 1 : p[i] = s[1 + i - 1]
    BY <1>1, PartIs
  <2>2. n - 1 + 1 = n /\ (~(1 <= n) => n = 0) /\ \A i \in 1 .. n : 1 + i - 1 = i
    BY <1>1
  <2> HIDE DEF p, L
  <2> QED BY <2>1, <2>2, <1>1
<1>3. q \in Seq(S) /\ Len(q) = L - n /\ \A i \in 1 .. L - n : q[i] = s[n + i]
  <2>1. /\ q \in Seq(S) /\ Len(q) = (IF n + 1 <= L THEN L - (n + 1) + 1 ELSE 0)
        /\ \A i \in 1 .. L - (n + 1) + 1 : q[i] = s[n + 1 + i - 1]
    BY <1>1, PartIs
  <2>2. L - (n + 1) + 1 = L - n /\ (~(n + 1 <= L) => L - n = 0)
        /\ \A i \in 1 .. L - n : n + 1 + i - 1 = n + i
    BY <1>1
  <2> HIDE DEF q, L
  <2> QED BY <2>1, <2>2, <1>1
<1> HIDE DEF p, q
<1>4. /\ p \o q \in Seq(S) /\ Len(p \o q) = n + (L - n)
      /\ \A i \in 1 .. n : (p \o q)[i] = p[i]
      /\ \A i \in 1 .. L - n : (p \o q)[n + i] = q[i]
  BY <1>2, <1>3, ConcatIs
<1>5. n + (L - n) = L
  BY <1>1
<1>6. ASSUME NEW i \in 1 .. L PROVE (p \o q)[i] = s[i]
  <2>1. CASE i <= n
    <3>1. i \in 1 .. n
      BY <2>1, <1>1
    <3> QED BY <3>1, <1>2, <1>4
  <2>2. CASE i > n
    <3>1. i - n \in 1 .. L - n /\ n + (i - n) = i
      BY <2>2, <1>1
    <3> DEFINE j == i - n
    <3>2. j \in 1 .. L - n /\ n + j = i
      BY <3>1
    <3> HIDE DEF j
    <3>3. (p \o q)[n + j] = q[j] /\ q[j] = s[n + j]
      BY <3>2, <1>3, <1>4
    <3> QED BY <3>2, <3>3
  <2>3. i <= n \/ i > n
    BY <1>1
  <2> QED BY <2>1, <2>2, <2>3
<1> DEFINE u == p \o q
<1>7. u \in Seq(S) /\ Len(u) = Len(s) /\ \A i \in 1 .. Len(u) : u[i] = s[i]
  BY <1>4, <1>5, <1>6
<1> HIDE DEF u
<1>8. u = s
  BY <1>7, SameSeq
<1> QED BY <1>8 DEF u, p, q

-----------------------------------------------------------------------------
(* Where lines begin and end in a text.                                    *)

Texts == Seq(Characters)

LEMMA CharactersAreNumbers == Characters \subseteq Nat
  BY CharactersAssumption

LEMMA TextChars ==
  ASSUME NEW text \in Texts
  PROVE  /\ Len(text) \in Nat
         /\ \A k \in 1 .. Len(text) : text[k] \in Characters /\ text[k] \in Nat
<1>1. \A k \in 1 .. Len(text) : text[k] \in Characters
  BY DEF Texts
<1>2. \A k \in 1 .. Len(text) : text[k] \in Nat
  BY <1>1, CharactersAreNumbers
<1>3. Len(text) \in Nat
  BY DEF Texts
<1> QED BY <1>1, <1>2, <1>3

LEMMA LastLineFeedIs ==
  ASSUME NEW text \in Texts, NEW i \in 0 .. Len(text)
  PROVE  LET k == LastLineFeed(text, i)
         IN /\ k \in 0 .. i
            /\ k # 0 => text[k] = LineFeed
            /\ \A j \in k + 1 .. i : text[j] # LineFeed
<1> DEFINE A == {0} \cup {j \in 1 .. i : text[j] = LineFeed}
           k == Max(A)
<1>1. A \in SUBSET Nat /\ A # {} /\ \A j \in A : j <= i
  OBVIOUS
<1>2. k \in A /\ \A j \in A : j <= k
  <2>1. i \in Nat
    OBVIOUS
  <2> HIDE DEF A
  <2> QED BY <1>1, <2>1, MaxOf
<1>3. k = LastLineFeed(text, i)
  BY DEF LastLineFeed
<1> HIDE DEF k
<1>4. k \in 0 .. i /\ (k # 0 => text[k] = LineFeed)
  BY <1>2
<1>5. \A j \in k + 1 .. i : text[j] # LineFeed
  BY <1>2, <1>4
<1> QED BY <1>3, <1>4, <1>5

LEMMA NextLineFeedIs ==
  ASSUME NEW text \in Texts, NEW i \in 0 .. Len(text) + 1
  PROVE  LET k == NextLineFeed(text, i)
         IN /\ k \in 1 .. Len(text) + 1
            /\ i <= Len(text) => k \in i + 1 .. Len(text) + 1
            /\ k <= Len(text) => text[k] = LineFeed
            /\ \A j \in i + 1 .. k - 1 : text[j] # LineFeed
<1> DEFINE A == {Len(text) + 1} \cup {j \in i + 1 .. Len(text) : text[j] = LineFeed}
           k == Min(A)
<1>1. A \in SUBSET Nat /\ A # {} /\ Len(text) \in Nat
  BY DEF Texts
<1>2. k \in A /\ \A j \in A : k <= j
  <2> HIDE DEF A
  <2> QED BY <1>1, MinOf
<1>3. k = NextLineFeed(text, i)
  BY DEF NextLineFeed
<1> HIDE DEF k
<1>4. k \in 1 .. Len(text) + 1 /\ (i <= Len(text) => k \in i + 1 .. Len(text) + 1)
  BY <1>1, <1>2
<1>5. k <= Len(text) => text[k] = LineFeed
  BY <1>1, <1>2
<1>6. \A j \in i + 1 .. k - 1 : text[j] # LineFeed
  BY <1>1, <1>2, <1>4
<1> QED BY <1>3, <1>4, <1>5, <1>6

(* The ends of lines as Editor has them. *)
Begins(text, i) == Max({j \in 0 .. i : j = 0 \/ text[j] = LineFeed})

Ends(text, i) == Min({j \in i .. Len(text) : j = Len(text) \/ text[j + 1] = LineFeed})

LEMMA BeginsIs ==
  ASSUME NEW text \in Texts, NEW i \in 0 .. Len(text)
  PROVE  Begins(text, i) = LastLineFeed(text, i)
<1> DEFINE k == LastLineFeed(text, i)
           A == {j \in 0 .. i : j = 0 \/ text[j] = LineFeed}
<1>1. k \in 0 .. i /\ (k # 0 => text[k] = LineFeed)
      /\ \A j \in k + 1 .. i : text[j] # LineFeed
  BY LastLineFeedIs
<1> HIDE DEF k
<1>2. k \in A /\ A \in SUBSET Int /\ \A j \in A : j <= k
  BY <1>1
<1>3. Max(A) = k
  <2> HIDE DEF A
  <2> QED BY <1>2, MaxIs
<1> QED BY <1>3 DEF k, Begins

LEMMA EndsIs ==
  ASSUME NEW text \in Texts, NEW i \in 0 .. Len(text)
  PROVE  Ends(text, i) = NextLineFeed(text, i) - 1
<1> DEFINE k == NextLineFeed(text, i)
           A == {j \in i .. Len(text) : j = Len(text) \/ text[j + 1] = LineFeed}
<1>0. Len(text) \in Nat
  BY DEF Texts
<1>1. /\ k \in i + 1 .. Len(text) + 1
      /\ k <= Len(text) => text[k] = LineFeed
      /\ \A j \in i + 1 .. k - 1 : text[j] # LineFeed
  <2>1. i \in 0 .. Len(text) + 1 /\ i <= Len(text)
    BY <1>0
  <2> QED BY <2>1, NextLineFeedIs
<1> HIDE DEF k
<1>2. k - 1 \in A
  BY <1>0, <1>1
<1>3. A \in SUBSET Int /\ \A j \in A : k - 1 <= j
  <2>1. ASSUME NEW j \in A PROVE k - 1 <= j
    <3>1. CASE j = Len(text)
      BY <3>1, <1>0, <1>1
    <3>2. CASE j # Len(text)
      <4>1. j + 1 \in i + 1 .. Len(text) /\ text[j + 1] = LineFeed
        BY <3>2, <1>0
      <4>2. ~(j + 1 \in i + 1 .. k - 1)
        BY <4>1, <1>1
      <4> QED BY <4>1, <4>2, <1>0, <1>1
    <3> QED BY <3>1, <3>2
  <2> QED BY <2>1, <1>0
<1>4. Min(A) = k - 1
  <2> HIDE DEF A
  <2> QED BY <1>2, <1>3, MinIs
<1> QED BY <1>4 DEF k, Ends

-----------------------------------------------------------------------------
(* Bytes: at least one for each character, and one for each plain one.     *)

LEMMA BytesStep ==
  ASSUME NEW text \in Texts
  PROVE  /\ Bytes(text, 0) = 0
         /\ \A n \in 1 .. Len(text) :
               Bytes(text, n) = Bytes(text, n - 1) + Utf8Length(text[n])
         /\ \A n \in 0 .. Len(text) : Bytes(text, n) \in Nat
<1> DEFINE N == Len(text)
           f == BytesOf(text)
           step == [n \in 1 .. N |-> [m \in Nat |-> m + Utf8Length(text[n])]]
<1>1. N \in Nat /\ \A n \in 1 .. N : text[n] \in Nat
  BY TextChars
<1>2. \A n \in 1 .. N : Utf8Length(text[n]) \in Nat
  BY <1>1 DEF Utf8Length
<1>3. step \in [1 .. N -> [Nat -> Nat]]
  BY <1>2
<1>4. PICK g \in [0 .. N -> Nat] : Builds(g, N, 0, step)
  <2> HIDE DEF step, N
  <2>1. 0 \in Nat
    OBVIOUS
  <2> QED BY <1>1, <1>3, <2>1, Recursion
<1>5. g[0] = 0 /\ \A n \in 1 .. N : g[n] = g[n - 1] + Utf8Length(text[n])
  <2>1. ASSUME NEW n \in 1 .. N PROVE g[n] = g[n - 1] + Utf8Length(text[n])
    <3>1. g[n] = step[n][g[n - 1]] /\ n - 1 \in 0 .. N
      BY <1>1, <1>4 DEF Builds
    <3>2. g[n - 1] \in Nat
      BY <3>1, <1>4
    <3>3. step[n][g[n - 1]] = g[n - 1] + Utf8Length(text[n])
      BY <3>2
    <3> QED BY <3>1, <3>3
  <2> QED BY <2>1, <1>4 DEF Builds
<1> HIDE DEF step
<1>6. g = [n \in 0 .. N |-> IF n = 0 THEN 0 ELSE g[n - 1] + Utf8Length(text[n])]
  <2>1. ASSUME NEW n \in 0 .. N
        PROVE  g[n] = IF n = 0 THEN 0 ELSE g[n - 1] + Utf8Length(text[n])
    <3>1. CASE n = 0
      BY <3>1, <1>5
    <3>2. CASE n # 0
      <4>1. n \in 1 .. N
        BY <3>2, <1>1
      <4> QED BY <4>1, <3>2, <1>5
    <3> QED BY <3>1, <3>2
  <2> QED BY <2>1
<1>7. f = [n \in 0 .. N |-> IF n = 0 THEN 0 ELSE f[n - 1] + Utf8Length(text[n])]
  BY <1>6 DEF BytesOf
<1> HIDE DEF f
<1>8. /\ f[0] = 0
      /\ \A n \in 1 .. N : f[n] = f[n - 1] + Utf8Length(text[n])
  BY <1>1, <1>7
<1>9. \A n \in 0 .. N : f[n] \in Nat
  <2>1. \A n \in 1 .. N : f[n - 1] \in Nat => f[n] \in Nat
    BY <1>2, <1>8
  <2>2. f[0] \in Nat
    BY <1>8
  <2> HIDE DEF N
  <2> QED BY <1>1, <2>1, <2>2, StaysIn
<1> QED BY <1>8, <1>9 DEF f, Bytes

LEMMA BytesOfChars ==
  ASSUME NEW text \in Texts, NEW m \in 0 .. Len(text), NEW n \in m .. Len(text)
  PROVE  /\ Bytes(text, n) - Bytes(text, m) >= n - m
         /\ (\A i \in m + 1 .. n : text[i] < 128) => Bytes(text, n) - Bytes(text, m) = n - m
<1> DEFINE L == Len(text)
           B(k) == Bytes(text, k)
           AtLeast == {k \in 0 .. L : k >= m => B(k) - B(m) >= k - m}
           Exact == {k \in 0 .. L : k >= m /\ (\A i \in m + 1 .. k : text[i] < 128)
                                       => B(k) - B(m) = k - m}
<1>1. L \in Nat /\ \A k \in 1 .. L : text[k] \in Nat
  BY TextChars
<1>2. /\ \A k \in 1 .. L : B(k) = B(k - 1) + Utf8Length(text[k])
      /\ \A k \in 0 .. L : B(k) \in Nat
  BY BytesStep
<1>3. \A k \in 1 .. L : /\ Utf8Length(text[k]) \in Nat /\ Utf8Length(text[k]) >= 1
                        /\ text[k] < 128 => Utf8Length(text[k]) = 1
  BY <1>1 DEF Utf8Length
<1> HIDE DEF B, L
<1>4. m \in 0 .. L /\ n \in m .. L
  BY DEF L
<1>5. \A k \in 0 .. L : k \in AtLeast
  <2>1. 0 \in AtLeast
    BY <1>1, <1>2, <1>4
  <2>2. ASSUME NEW k \in 1 .. L, k - 1 \in AtLeast PROVE k \in AtLeast
    <3>1. B(k) = B(k - 1) + Utf8Length(text[k]) /\ B(k) \in Nat /\ B(k - 1) \in Nat /\ B(m) \in Nat
      BY <1>1, <1>2, <1>4
    <3>2. Utf8Length(text[k]) \in Nat /\ Utf8Length(text[k]) >= 1
      BY <1>3
    <3>3. CASE k = m
      BY <3>1, <3>3
    <3>4. CASE k > m
      <4>1. B(k - 1) - B(m) >= k - 1 - m
        BY <2>2, <3>4, <1>4
      <4> QED BY <4>1, <3>1, <3>2, <1>4
    <3>5. CASE k < m
      BY <3>5, <1>4
    <3> QED BY <3>3, <3>4, <3>5, <1>4
  <2> HIDE DEF AtLeast
  <2> QED BY <2>1, <2>2, <1>1, Upwards
<1>6. \A k \in 0 .. L : k \in Exact
  <2>1. 0 \in Exact
    BY <1>1, <1>2, <1>4
  <2>2. ASSUME NEW k \in 1 .. L, k - 1 \in Exact PROVE k \in Exact
    <3>1. B(k) = B(k - 1) + Utf8Length(text[k]) /\ B(k) \in Nat /\ B(k - 1) \in Nat /\ B(m) \in Nat
      BY <1>1, <1>2, <1>4
    <3>3. CASE k = m
      BY <3>1, <3>3
    <3>4. CASE k > m /\ \A i \in m + 1 .. k : text[i] < 128
      <4>0. \A i \in m + 1 .. k - 1 : text[i] < 128
        BY <3>4, <1>4
      <4>1. B(k - 1) - B(m) = k - 1 - m
        BY <2>2, <3>4, <4>0, <1>4
      <4>2. Utf8Length(text[k]) = 1
        BY <3>4, <1>3, <1>4
      <4> QED BY <4>1, <4>2, <3>1, <1>4
    <3>5. CASE k < m
      BY <3>5, <1>4
    <3>6. CASE ~\A i \in m + 1 .. k : text[i] < 128
      BY <3>6
    <3> QED BY <3>3, <3>4, <3>5, <3>6, <1>4
  <2> HIDE DEF Exact
  <2> QED BY <2>1, <2>2, <1>1, Upwards
<1>7. n \in AtLeast /\ n \in Exact /\ n >= m
  BY <1>1, <1>4, <1>5, <1>6
<1> QED BY <1>7 DEF B, L

Buffers == {b \in [content : Texts, cursor : Nat] : b.cursor <= Len(b.content)}

-----------------------------------------------------------------------------
(* Up and down within a text.                                              *)

InLinePlaces(text, pos, begin) ==
  LET column == pos - Begins(text, pos)
      end == Ends(text, begin)
      exact == /\ begin + column <= end
                  \/ \A i \in begin + 1 .. end : text[i] < 128
               /\ ~(begin = 0 /\ end = 0 /\ pos > 0)
  IN IF exact THEN {Min({begin + column, end})} ELSE 0 .. Len(text)

UpPlaces(text, pos) ==
  IF Begins(text, pos) = 0 THEN {pos}
  ELSE InLinePlaces(text, pos, Begins(text, Begins(text, pos) - 1))

DownPlaces(text, pos) ==
  IF Ends(text, pos) = Len(text) THEN {pos}
  ELSE InLinePlaces(text, pos, Ends(text, pos) + 1)

LEMMA BufferParts ==
  ASSUME NEW b \in Buffers
  PROVE  /\ b = Buffer(b.content, b.cursor)
         /\ b.content \in Texts /\ Len(b.content) \in Nat
         /\ b.cursor \in 0 .. Len(b.content)
<1>1. b.content \in Texts /\ b.cursor \in Nat /\ b.cursor <= Len(b.content)
  BY DEF Buffers
<1>2. Len(b.content) \in Nat
  BY <1>1 DEF Texts
<1>3. b = Buffer(b.content, b.cursor)
  BY DEF Buffers, Buffer
<1> QED BY <1>1, <1>2, <1>3

LEMMA BufferMade ==
  ASSUME NEW text \in Texts, NEW i \in 0 .. Len(text)
  PROVE  /\ Buffer(text, i) \in Buffers
         /\ Buffer(text, i).content = text
         /\ Buffer(text, i).cursor = i
<1>1. i \in Nat /\ i <= Len(text)
  BY DEF Texts
<1> QED BY <1>1 DEF Buffers, Buffer

(* The same place, reached by bytes or by columns: S is where the line     *)
(* begins, T where it ends, C the column, and L the length of the text.    *)
LEMMA PlaceInLine ==
  ASSUME NEW L \in Nat, NEW S \in 0 .. L, NEW T \in S .. L, NEW C \in Nat, NEW W \in Nat,
         W >= T - S, S + C <= T \/ W = T - S
  PROVE  Smaller(S + Smaller(W, C), L) = Min({S + C, T})
<1>1. S + C \in Int /\ T \in Int
  OBVIOUS
<1>2. Min({S + C, T}) = IF T < S + C THEN T ELSE S + C
  BY <1>1, MinOfTwo
<1>3. Smaller(S + Smaller(W, C), L) = IF T < S + C THEN T ELSE S + C
  BY DEF Smaller
<1> QED BY <1>2, <1>3

LEMMA PlaceInNextLine ==
  ASSUME NEW text \in Texts, NEW start \in 1 .. Len(text), text[start] = LineFeed,
         NEW stop \in start .. Len(text), NEW C \in Nat,
         start + C <= stop \/ \A i \in start + 1 .. stop : text[i] < 128
  PROVE  LET U == Bytes(text, stop) - Bytes(text, start - 1)
         IN /\ U \in Nat
            /\ Forward(text, start - 1, Smaller(U, C + 1)) = Min({start + C, stop})
<1> DEFINE L == Len(text)
           W == Bytes(text, stop)
           X == Bytes(text, start)
           V == Bytes(text, start - 1)
           U == W - V
<1>1. L \in Nat /\ start \in Nat /\ stop \in Nat /\ start >= 1 /\ start <= stop /\ stop <= L
  BY TextChars
<1>2. W \in Nat /\ X \in Nat /\ V \in Nat
  <2>1. stop \in 0 .. L /\ start \in 0 .. L /\ start - 1 \in 0 .. L
    BY <1>1
  <2> QED BY <2>1, BytesStep
<1>3. X = V + 1
  <2>1. X = V + Utf8Length(text[start])
    BY BytesStep
  <2> QED BY <2>1 DEF Utf8Length, LineFeed
<1>4. W - X >= stop - start
      /\ ((\A i \in start + 1 .. stop : text[i] < 128) => W - X = stop - start)
  <2>1. start \in 0 .. L
    BY <1>1
  <2> QED BY <2>1, BytesOfChars
<1> HIDE DEF W, X, V, L
<1>5. U \in Nat /\ U >= stop - start + 1
  BY <1>1, <1>2, <1>3, <1>4
<1>6. start + C <= stop \/ U = stop - start + 1
  BY <1>1, <1>2, <1>3, <1>4
<1> HIDE DEF U
<1>7. Min({start + C, stop}) = IF stop < start + C THEN stop ELSE start + C
  <2>1. start + C \in Int /\ stop \in Int
    BY <1>1
  <2> QED BY <2>1, MinOfTwo
<1>8. Forward(text, start - 1, Smaller(U, C + 1))
        = IF stop < start + C THEN stop ELSE start + C
  <2>1. CASE start + C <= stop
    <3>1. Smaller(U, C + 1) = C + 1
      BY <1>1, <1>5, <2>1 DEF Smaller
    <3>2. start - 1 + (C + 1) = start + C /\ start + C <= L
      BY <1>1, <2>1
    <3> QED BY <1>1, <2>1, <3>1, <3>2 DEF Forward, Smaller, L
  <2>2. CASE start + C > stop
    <3>1. Smaller(U, C + 1) = U /\ U = stop - start + 1
      BY <1>1, <1>5, <1>6, <2>2 DEF Smaller
    <3>2. start - 1 + U = stop
      BY <1>1, <3>1
    <3> QED BY <1>1, <2>2, <3>1, <3>2 DEF Forward, Smaller, L
  <2> QED BY <2>1, <2>2, <1>1
<1> QED BY <1>5, <1>7, <1>8 DEF U, W, V

LEMMA MoveUpPlace ==
  ASSUME NEW b \in Buffers
  PROVE  /\ MoveUp(b) \in Buffers
         /\ MoveUp(b).content = b.content
         /\ MoveUp(b).cursor \in UpPlaces(b.content, b.cursor)
<1> DEFINE text == b.content
           pos == b.cursor
           L == Len(text)
           end == LastLineFeed(text, pos)
           start == LastLineFeed(text, IF end = 1 THEN L ELSE end - 1)
<1>1. text \in Texts /\ L \in Nat /\ pos \in 0 .. L /\ b = Buffer(text, pos)
  BY BufferParts
<1>2. end \in 0 .. pos /\ (end # 0 => text[end] = LineFeed) /\ Begins(text, pos) = end
  BY <1>1, LastLineFeedIs, BeginsIs
<1> HIDE DEF end
<1>3. CASE end = 0
  <2>1. MoveUp(b) = b
    BY <1>3 DEF MoveUp, end
  <2>2. UpPlaces(text, pos) = {pos}
    BY <1>2, <1>3 DEF UpPlaces
  <2> QED BY <2>1, <2>2
<1>4. CASE end # 0
  <2>0. (IF end = 1 THEN L ELSE end - 1) \in 0 .. L
    BY <1>1, <1>2, <1>4
  <2>1. start \in 0 .. L
    BY <1>1, <2>0, LastLineFeedIs
  <2> HIDE DEF start
  <2> DEFINE W == Bytes(text, end - 1)
             V == Bytes(text, start - 1)
             C == pos - end
             to == IF start = 0 THEN Forward(text, 0, Smaller(W, (C + 1) - 1))
                   ELSE Forward(text, start - 1, Limited(W - V, C + 1))
  <2>2. MoveUp(b) = Buffer(text, to)
    <3>1. end = LastLineFeed(b.content, b.cursor)
      BY DEF end
    <3>2. start = LastLineFeed(b.content, IF end = 1 THEN Len(b.content) ELSE end - 1)
      BY DEF start
    <3>3. MoveUp(b) = IF start = 0
                      THEN MoveTo(b, Forward(text, 0, Smaller(W, (C + 1) - 1)))
                      ELSE MoveTo(b, Forward(text, start - 1, Limited(W - V, C + 1)))
      BY <1>4, <3>1, <3>2 DEF MoveUp
    <3>4. MoveUp(b) = MoveTo(b, to)
      <4> HIDE DEF W, V, C
      <4> QED BY <3>3
    <3> QED BY <3>4 DEF MoveTo
  <2>3. W \in Nat /\ (start # 0 => V \in Nat) /\ C \in Nat
    <3>1. end - 1 \in 0 .. L /\ (start # 0 => start - 1 \in 0 .. L) /\ C \in Nat
      BY <1>1, <1>2, <1>4, <2>1
    <3> QED BY <3>1, <1>1, BytesStep
  <2> HIDE DEF W, V
  <2>4. to \in 0 .. L
    BY <1>1, <2>1, <2>3 DEF Forward, Smaller, Limited
  <2> DEFINE begin == Begins(text, end - 1)
             stop == Ends(text, begin)
  <2>5. CASE end = 1
    <3>1. begin = 0
      <4>1. end - 1 \in 0 .. L /\ end - 1 = 0
        BY <2>5, <1>1
      <4>2. begin = LastLineFeed(text, 0) /\ LastLineFeed(text, 0) \in 0 .. 0
        BY <4>1, <1>1, BeginsIs, LastLineFeedIs
      <4> QED BY <4>2
    <3>2. stop = 0
      <4>1. stop = NextLineFeed(text, 0) - 1 /\ NextLineFeed(text, 0) \in 1 .. L + 1
            /\ \A j \in 0 + 1 .. NextLineFeed(text, 0) - 1 : text[j] # LineFeed
        BY <3>1, <1>1, EndsIs, NextLineFeedIs
      <4>2. text[1] = LineFeed
        BY <1>2, <2>5
      <4>3. ~(1 \in 0 + 1 .. NextLineFeed(text, 0) - 1)
        BY <4>1, <4>2
      <4> QED BY <4>1, <4>3, <1>1
    <3>3. pos > 0
      BY <1>1, <1>2, <2>5
    <3>4. UpPlaces(text, pos) = 0 .. L
      <4> HIDE DEF begin
      <4>1. UpPlaces(text, pos) = InLinePlaces(text, pos, begin)
        BY <1>2, <1>4 DEF UpPlaces, begin
      <4> QED BY <4>1, <3>1, <3>2, <3>3 DEF InLinePlaces
    <3> QED BY <2>2, <2>4, <3>4, <1>1, BufferMade
  <2>6. CASE end > 1
    <3>1. begin = start /\ start \in 0 .. end - 1 /\ \A j \in start + 1 .. end - 1 : text[j] # LineFeed
      <4>1. end - 1 \in 0 .. L /\ end # 1
        BY <1>1, <1>2, <2>6
      <4>2. start = LastLineFeed(text, end - 1)
        BY <4>1 DEF start
      <4> QED BY <4>1, <4>2, <1>1, BeginsIs, LastLineFeedIs
    <3>2. stop = end - 1
      <4>0. start \in 0 .. L /\ start \in 0 .. L + 1
        BY <2>1, <1>1
      <4> DEFINE next == NextLineFeed(text, start)
      <4>1. stop = next - 1 /\ next \in start + 1 .. L + 1
            /\ (next <= L => text[next] = LineFeed)
            /\ \A j \in start + 1 .. next - 1 : text[j] # LineFeed
        BY <3>1, <4>0, <1>1, EndsIs, NextLineFeedIs
      <4> HIDE DEF next
      <4>2. ~(next <= end - 1)
        BY <3>1, <4>1, <1>1, <1>2
      <4>3. ~(end \in start + 1 .. next - 1)
        BY <4>1, <1>2, <2>6
      <4> QED BY <4>1, <4>2, <4>3, <3>1, <1>1, <1>2
    <3> DEFINE exact == /\ start + C <= end - 1
                           \/ \A i \in start + 1 .. end - 1 : text[i] < 128
                        /\ ~(start = 0 /\ end - 1 = 0 /\ pos > 0)
    <3>3. UpPlaces(text, pos) = IF exact THEN {Min({start + C, end - 1})} ELSE 0 .. L
      <4> HIDE DEF begin
      <4>1. UpPlaces(text, pos) = InLinePlaces(text, pos, begin)
        BY <1>2, <1>4 DEF UpPlaces, begin
      <4> QED BY <4>1, <3>1, <3>2, <1>2 DEF InLinePlaces
    <3>4. ASSUME exact PROVE to = Min({start + C, end - 1})
      <4>0. (C + 1) - 1 = C /\ C \in Nat /\ end - 1 \in start .. L /\ start \in 0 .. L
        BY <2>3, <3>1, <1>1, <1>2, <2>6
      <4>1. CASE start = 0
        <5>1. 0 \in 0 .. L /\ end - 1 \in 0 .. L
          BY <1>1, <1>2, <2>6
        <5>2. Bytes(text, 0) = 0 /\ 0 .. L = 0 .. Len(text)
          BY <1>1, BytesStep
        <5>3. /\ W - Bytes(text, 0) >= end - 1 - 0
              /\ (\A i \in 0 + 1 .. end - 1 : text[i] < 128) => W - Bytes(text, 0) = end - 1 - 0
          BY <5>1, <1>1, BytesOfChars DEF W
        <5>4. W >= end - 1 - 0 /\ (0 + C <= end - 1 \/ W = end - 1 - 0)
          BY <5>2, <5>3, <2>3, <3>4, <4>1, <1>1, <1>2
        <5>5. Smaller(0 + Smaller(W, C), L) = Min({0 + C, end - 1})
          <6>1. 0 \in 0 .. L /\ end - 1 \in 0 .. L
            BY <5>1
          <6> HIDE DEF C, L
          <6> QED BY <6>1, <5>4, <2>3, <1>1, PlaceInLine
        <5>6. to = Smaller(0 + Smaller(W, C), L)
          BY <4>0, <4>1 DEF Forward
        <5> QED BY <5>5, <5>6, <4>1
      <4>2. CASE start # 0
        <5>1. start \in 1 .. L /\ end - 1 \in start .. L /\ C \in Nat
          BY <4>0, <4>2
        <5>2. text[start] = LineFeed
          <6>1. start = LastLineFeed(text, end - 1) /\ end - 1 \in 0 .. L
            BY <2>6, <1>1, <1>2 DEF start
          <6> QED BY <6>1, <4>2, <1>1, LastLineFeedIs
        <5>3. start + C <= end - 1 \/ \A i \in start + 1 .. end - 1 : text[i] < 128
          BY <3>4
        <5>4. /\ W - V \in Nat
              /\ Forward(text, start - 1, Smaller(W - V, C + 1)) = Min({start + C, end - 1})
          <6> HIDE DEF C
          <6> QED BY <5>1, <5>2, <5>3, <1>1, PlaceInNextLine DEF W, V
        <5>5. Limited(W - V, C + 1) = Smaller(W - V, C + 1)
          BY <5>4 DEF Limited
        <5> QED BY <5>4, <5>5, <4>2
      <4> QED BY <4>1, <4>2
    <3>5. to \in UpPlaces(text, pos)
      <4> HIDE DEF to, exact
      <4> QED BY <2>4, <3>3, <3>4
    <3> QED BY <2>2, <2>4, <3>5, <1>1, BufferMade
  <2> HIDE DEF to
  <2> QED BY <2>5, <2>6, <1>2, <1>4
<1> QED BY <1>3, <1>4

LEMMA MoveDownPlace ==
  ASSUME NEW b \in Buffers
  PROVE  /\ MoveDown(b) \in Buffers
         /\ MoveDown(b).content = b.content
         /\ MoveDown(b).cursor \in DownPlaces(b.content, b.cursor)
<1> DEFINE text == b.content
           pos == b.cursor
           L == Len(text)
           start == NextLineFeed(text, pos)
           before == LastLineFeed(text, pos)
           end == NextLineFeed(text, start)
           C == pos - before
<1>1. text \in Texts /\ L \in Nat /\ pos \in 0 .. L /\ b = Buffer(text, pos)
  BY BufferParts
<1>2. /\ start \in pos + 1 .. L + 1
      /\ start <= L => text[start] = LineFeed
      /\ Ends(text, pos) = start - 1
  <2>1. pos \in 0 .. L + 1 /\ pos <= L
    BY <1>1
  <2> QED BY <2>1, <1>1, NextLineFeedIs, EndsIs
<1>3. before \in 0 .. pos /\ Begins(text, pos) = before
  BY <1>1, LastLineFeedIs, BeginsIs
<1> HIDE DEF start, before
<1>4. CASE start > L
  <2>1. MoveDown(b) = b
    BY <1>4 DEF MoveDown, start
  <2>2. Ends(text, pos) = L
    BY <1>1, <1>2, <1>4
  <2>3. DownPlaces(text, pos) = {pos}
    BY <2>2 DEF DownPlaces
  <2> QED BY <2>1, <2>3
<1>5. CASE start <= L
  <2>1. ~(pos >= L) /\ ~(start > L) /\ start \in 1 .. L /\ start \in 0 .. L + 1 /\ start \in 0 .. L
    BY <1>1, <1>2, <1>5
  <2>2. end \in start + 1 .. L + 1 /\ Ends(text, start) = end - 1
    BY <2>1, <1>1, NextLineFeedIs, EndsIs
  <2> HIDE DEF end
  <2> DEFINE U == Bytes(text, end - 1) - Bytes(text, start - 1)
             to == Forward(text, start - 1, Smaller(U, C + 1))
  <2>3. MoveDown(b) = Buffer(text, to)
    <3>1. start = NextLineFeed(b.content, b.cursor)
      BY DEF start
    <3>2. end = NextLineFeed(b.content, start)
      BY DEF end
    <3>3. before = LastLineFeed(b.content, b.cursor)
      BY DEF before
    <3> QED BY <2>1, <3>1, <3>2, <3>3 DEF MoveDown, MoveTo
  <2>4. C \in Nat /\ end - 1 \in start .. L /\ end - 1 \in Nat
    BY <1>1, <1>2, <1>3, <2>1, <2>2
  <2>5. to \in 0 .. L
    <3>1. U \in Nat
      <4>1. end - 1 \in start - 1 .. L /\ start - 1 \in 0 .. L /\ end - 1 \in 0 .. L
        BY <1>1, <2>1, <2>4
      <4>2. U >= end - 1 - (start - 1)
        BY <4>1, <1>1, BytesOfChars
      <4>3. Bytes(text, end - 1) \in Nat /\ Bytes(text, start - 1) \in Nat
        BY <4>1, <1>1, BytesStep
      <4> QED BY <4>1, <4>2, <4>3, <2>1, <2>4
    <3> HIDE DEF U, C
    <3> QED BY <1>1, <2>1, <2>4, <3>1 DEF Forward, Smaller
  <2> DEFINE exact == start + C <= end - 1 \/ \A i \in start + 1 .. end - 1 : text[i] < 128
  <2>6. DownPlaces(text, pos) = IF exact THEN {Min({start + C, end - 1})} ELSE 0 .. L
    <3>1. Ends(text, pos) # L /\ Ends(text, pos) + 1 = start
      BY <1>1, <1>2, <2>1
    <3>2. DownPlaces(text, pos) = InLinePlaces(text, pos, start)
      BY <3>1 DEF DownPlaces
    <3>3. ~(start = 0 /\ end - 1 = 0 /\ pos > 0)
      BY <2>1
    <3> QED BY <3>2, <3>3, <1>3, <2>2 DEF InLinePlaces
  <2>7. ASSUME exact PROVE to = Min({start + C, end - 1})
    <3>1. text[start] = LineFeed
      BY <1>2, <1>5
    <3> HIDE DEF C
    <3> QED BY <3>1, <1>1, <2>1, <2>4, <2>7, PlaceInNextLine
  <2>8. to \in DownPlaces(text, pos)
    <3> HIDE DEF to, exact
    <3> QED BY <2>5, <2>6, <2>7
  <2> HIDE DEF to
  <2> QED BY <2>3, <2>5, <2>8, <1>1, BufferMade
<1> QED BY <1>1, <1>2, <1>4, <1>5

-----------------------------------------------------------------------------
(* Words, and what is cut out of a text and put into it.                   *)

BeginsWord(text, i) ==
  i < Len(text) /\ IsWordChar(text[i + 1]) /\ (i = 0 \/ ~IsWordChar(text[i]))

EndsWord(text, i) ==
  i > 0 /\ IsWordChar(text[i]) /\ (i = Len(text) \/ ~IsWordChar(text[i + 1]))

LeftWord(text, pos) == Max({0} \cup {i \in 0 .. pos - 1 : BeginsWord(text, i)})

RightWord(text, pos) ==
  Min({Len(text)} \cup {i \in pos + 1 .. Len(text) : EndsWord(text, i)})

LEMMA SkipWordLeftPlace ==
  ASSUME NEW b \in Buffers
  PROVE  /\ SkipWordLeft(b) \in Buffers
         /\ SkipWordLeft(b).content = b.content
         /\ SkipWordLeft(b).cursor = LeftWord(b.content, b.cursor)
         /\ SkipWordLeft(b).cursor \in 0 .. b.cursor
<1> DEFINE text == b.content
           pos == b.cursor
           A == {0} \cup {i \in 1 .. pos : IsWordChar(text[i])}
           word == Max(A)
           B == {0} \cup {i \in 1 .. word : ~IsWordChar(text[i])}
           r == Max(B)
           D == {0} \cup {i \in 0 .. pos - 1 : BeginsWord(text, i)}
<1>1. text \in Texts /\ Len(text) \in Nat /\ pos \in 0 .. Len(text)
  BY BufferParts
<1>2. word \in A /\ \A i \in A : i <= word
  <2>1. A \in SUBSET Nat /\ A # {} /\ pos \in Nat /\ \A i \in A : i <= pos
    BY <1>1
  <2> HIDE DEF A
  <2> QED BY <2>1, MaxOf
<1> HIDE DEF word
<1>3. word \in 0 .. pos
  BY <1>1, <1>2
<1>4. r \in B /\ \A i \in B : i <= r
  <2>1. B \in SUBSET Nat /\ B # {} /\ word \in Nat /\ \A i \in B : i <= word
    BY <1>1, <1>3
  <2> HIDE DEF B
  <2> QED BY <2>1, MaxOf
<1>5. SkipWordLeft(b) = Buffer(text, r)
  BY DEF SkipWordLeft, MoveTo, word
<1> HIDE DEF r
<1>6. r \in 0 .. pos /\ r \in 0 .. word
  BY <1>1, <1>3, <1>4
<1>7. r \in D
  <2>1. CASE word = 0
    BY <2>1, <1>6
  <2>2. CASE word # 0
    <3>1. word \in 1 .. pos /\ IsWordChar(text[word])
      BY <2>2, <1>2, <1>3
    <3>2. r # word
      BY <3>1, <1>4
    <3>3. r + 1 \in 1 .. word /\ ~(r + 1 \in B)
      <4>1. r + 1 \in 1 .. word
        BY <3>2, <1>1, <1>3, <1>6
      <4>2. ~(r + 1 \in B)
        <5> HIDE DEF B
        <5>1. r \in Nat /\ ~(r + 1 <= r)
          BY <1>6
        <5> QED BY <5>1, <1>4
      <4> QED BY <4>1, <4>2
    <3>4. IsWordChar(text[r + 1])
      BY <3>3
    <3>5. r = 0 \/ ~IsWordChar(text[r])
      BY <1>4
    <3>6. r \in 0 .. pos - 1 /\ r < Len(text)
      BY <3>2, <1>1, <1>3, <1>6
    <3> QED BY <3>4, <3>5, <3>6 DEF BeginsWord
  <2> QED BY <2>1, <2>2
<1>8. ASSUME NEW i \in D PROVE i <= r
  <2>1. CASE i = 0
    BY <2>1, <1>6
  <2>2. CASE i # 0
    <3>1. i \in 1 .. pos - 1 /\ IsWordChar(text[i + 1]) /\ ~IsWordChar(text[i])
      BY <2>2, <1>1 DEF BeginsWord
    <3>2. i + 1 \in A
      BY <3>1, <1>1
    <3>3. i \in 1 .. word
      BY <3>1, <3>2, <1>2, <1>3
    <3> QED BY <3>1, <3>3, <1>4
  <2> QED BY <2>1, <2>2
<1>9. Max(D) = r
  <2>1. D \in SUBSET Int
    BY <1>1
  <2> HIDE DEF D
  <2> QED BY <2>1, <1>7, <1>8, MaxIs
<1>10. r \in 0 .. Len(text)
  BY <1>1, <1>6
<1> QED BY <1>1, <1>5, <1>6, <1>9, <1>10, BufferMade DEF LeftWord

LEMMA SkipWordRightPlace ==
  ASSUME NEW b \in Buffers
  PROVE  /\ SkipWordRight(b) \in Buffers
         /\ SkipWordRight(b).content = b.content
         /\ SkipWordRight(b).cursor = RightWord(b.content, b.cursor)
         /\ SkipWordRight(b).cursor \in b.cursor .. Len(b.content)
<1> DEFINE text == b.content
           pos == b.cursor
           L == Len(text)
           A == {L} \cup {i \in pos .. L - 1 : IsWordChar(text[i + 1])}
           word == Min(A)
           B == {L} \cup {i \in word .. L - 1 : ~IsWordChar(text[i + 1])}
           r == Min(B)
           D == {L} \cup {i \in pos + 1 .. L : EndsWord(text, i)}
<1>1. text \in Texts /\ L \in Nat /\ pos \in 0 .. L
  BY BufferParts
<1>2. word \in A /\ \A i \in A : word <= i
  <2>1. A \in SUBSET Nat /\ A # {}
    BY <1>1
  <2> HIDE DEF A
  <2> QED BY <2>1, MinOf
<1> HIDE DEF word
<1>3. word \in pos .. L
  BY <1>1, <1>2
<1>4. r \in B /\ \A i \in B : r <= i
  <2>1. B \in SUBSET Nat /\ B # {}
    BY <1>1, <1>3
  <2> HIDE DEF B
  <2> QED BY <2>1, MinOf
<1>5. SkipWordRight(b) = Buffer(text, r)
  BY DEF SkipWordRight, MoveTo, word
<1> HIDE DEF r
<1>6. r \in word .. L
  BY <1>1, <1>3, <1>4
<1>7. r \in D
  <2>1. CASE r = L
    BY <2>1
  <2>2. CASE r # L
    <3>1. r \in word .. L - 1 /\ ~IsWordChar(text[r + 1])
      BY <2>2, <1>4
    <3>2. word # L
      BY <3>1, <1>1, <1>3
    <3>3. IsWordChar(text[word + 1])
      BY <3>2, <1>2
    <3>4. r # word
      BY <3>1, <3>3
    <3>5. r - 1 \in word .. L - 1 /\ ~(r - 1 \in B) /\ r - 1 + 1 = r
      <4>1. r - 1 \in word .. L - 1 /\ r - 1 + 1 = r
        BY <3>1, <3>4, <1>1, <1>3
      <4>2. ~(r - 1 \in B)
        <5> HIDE DEF B
        <5>1. r \in Int /\ ~(r <= r - 1)
          BY <3>1, <1>1, <1>3
        <5> QED BY <5>1, <1>4
      <4> QED BY <4>1, <4>2
    <3>6. IsWordChar(text[r - 1 + 1])
      BY <3>5
    <3>7. IsWordChar(text[r])
      BY <3>5, <3>6
    <3>8. r \in pos + 1 .. L /\ r > 0
      BY <3>1, <3>4, <1>1, <1>3
    <3> QED BY <3>1, <3>7, <3>8 DEF EndsWord
  <2> QED BY <2>1, <2>2
<1>8. ASSUME NEW i \in D PROVE r <= i
  <2> SUFFICES ASSUME ~(r <= i) PROVE FALSE
    OBVIOUS
  <2>1. i # L /\ i \in pos + 1 .. L - 1
    BY <1>1, <1>6
  <2>2. IsWordChar(text[i]) /\ ~IsWordChar(text[i + 1])
    BY <2>1 DEF EndsWord
  <2>3. i - 1 \in pos .. L - 1 /\ i - 1 + 1 = i /\ i \in Nat
    BY <2>1, <1>1
  <2>4. i - 1 \in A
    <3>1. text[i - 1 + 1] = text[i]
      BY <2>3
    <3> QED BY <3>1, <2>2, <2>3
  <2>5. word <= i - 1
    BY <2>4, <1>2
  <2>6. i \in word .. L - 1
    BY <2>1, <2>3, <2>5, <1>1, <1>3
  <2> QED BY <2>2, <2>6, <1>4
<1>9. Min(D) = r
  <2>1. D \in SUBSET Int
    BY <1>1
  <2> HIDE DEF D
  <2> QED BY <2>1, <1>7, <1>8, MinIs
<1>10. r \in 0 .. L /\ r \in pos .. L
  BY <1>1, <1>3, <1>6
<1> QED BY <1>1, <1>5, <1>9, <1>10, BufferMade DEF RightWord

LEMMA WithoutPart ==
  ASSUME NEW b \in Buffers, NEW to \in 0 .. Len(b.content), NEW from \in 0 .. to
  PROVE  /\ Without(b, from, to) \in Buffers
         /\ Without(b, from, to).cursor = from
         /\ Without(b, from, to).content
              = SubSeq(b.content, 1, from) \o SubSeq(b.content, to + 1, Len(b.content))
<1> DEFINE text == b.content
           L == Len(text)
           s == SubSeq(text, 1, from)
           t == SubSeq(text, to + 1, L)
<1>1. text \in Texts /\ L \in Nat /\ b.cursor \in 0 .. L
  BY BufferParts
<1>2. s \in Texts /\ Len(s) = from
  <2>1. from \in Nat /\ from <= L /\ (IF 1 <= from THEN from - 1 + 1 ELSE 0) = from
    BY <1>1
  <2> QED BY <2>1, <1>1, PartIs DEF Texts
<1>3. t \in Texts
  <2>1. to + 1 \in Nat /\ to + 1 >= 1 /\ L <= Len(text)
    BY <1>1
  <2> QED BY <2>1, <1>1, PartIs DEF Texts
<1> HIDE DEF s, t
<1>4. s \o t \in Texts /\ Len(s \o t) = Len(s) + Len(t) /\ Len(t) \in Nat
  BY <1>2, <1>3, ConcatIs DEF Texts
<1>5. from \in 0 .. Len(s \o t)
  BY <1>2, <1>4
<1>6. Without(b, from, to) = Buffer(s \o t, from)
  BY DEF Without, s, t
<1> DEFINE u == s \o t
<1> HIDE DEF u
<1>7. /\ Buffer(u, from) \in Buffers
      /\ Buffer(u, from).cursor = from
      /\ Buffer(u, from).content = u
  BY <1>4, <1>5, BufferMade DEF u
<1>8. Without(b, from, to) = Buffer(u, from)
  BY <1>6 DEF u
<1> QED BY <1>7, <1>8 DEF s, t, u

LEMMA NothingCut ==
  ASSUME NEW text \in Texts, NEW i \in 0 .. Len(text)
  PROVE  SubSeq(text, 1, i) \o SubSeq(text, i + 1, Len(text)) = text
  BY PartAndRest DEF Texts

LEMMA InsertPart ==
  ASSUME NEW b \in Buffers, NEW char \in Characters
  PROVE  /\ Insert(b, <<char>>) \in Buffers
         /\ Insert(b, <<char>>).cursor = b.cursor + 1
         /\ Insert(b, <<char>>).content
              = SubSeq(b.content, 1, b.cursor) \o <<char>>
                  \o SubSeq(b.content, b.cursor + 1, Len(b.content))
<1> DEFINE text == b.content
           L == Len(text)
           s == SubSeq(text, 1, b.cursor)
           t == SubSeq(text, b.cursor + 1, L)
<1>1. text \in Texts /\ L \in Nat /\ b.cursor \in 0 .. L
  BY BufferParts
<1>2. s \in Texts /\ Len(s) = b.cursor
  <2>1. b.cursor \in Nat /\ b.cursor <= L
        /\ (IF 1 <= b.cursor THEN b.cursor - 1 + 1 ELSE 0) = b.cursor
    BY <1>1
  <2> QED BY <2>1, <1>1, PartIs DEF Texts
<1>3. t \in Texts
  <2>1. b.cursor + 1 \in Nat /\ b.cursor + 1 >= 1 /\ L <= Len(text)
    BY <1>1
  <2> QED BY <2>1, <1>1, PartIs DEF Texts
<1>4. <<char>> \in Texts /\ Len(<<char>>) = 1
  BY DEF Texts
<1> HIDE DEF s, t
<1> DEFINE c == <<char>>
<1> HIDE DEF c
<1>5. s \o c \in Texts /\ Len(s \o c) = Len(s) + Len(c)
  BY <1>2, <1>4, ConcatIs DEF Texts, c
<1> DEFINE u == s \o c
<1> HIDE DEF u
<1>6. u \o t \in Texts /\ Len(u \o t) = Len(u) + Len(t) /\ Len(t) \in Nat
  BY <1>3, <1>5, ConcatIs DEF Texts, u
<1>7. b.cursor + 1 \in 0 .. Len(u \o t)
  BY <1>1, <1>2, <1>4, <1>5, <1>6 DEF u, c
<1>8. Insert(b, <<char>>) = Buffer(u \o t, b.cursor + 1)
  BY <1>4 DEF Insert, s, t, u, c
<1> DEFINE v == u \o t
           n == b.cursor + 1
<1> HIDE DEF v, n
<1>9. Buffer(v, n) \in Buffers /\ Buffer(v, n).cursor = n /\ Buffer(v, n).content = v
  BY <1>6, <1>7, BufferMade DEF v, n
<1>10. Insert(b, <<char>>) = Buffer(v, n)
  BY <1>8 DEF v, n
<1> QED BY <1>9, <1>10 DEF s, t, u, v, n, c

-----------------------------------------------------------------------------
(* What Editor sees of the editor.                                         *)

EditorOK ==
  /\ buffer \in Buffers
  /\ history \in Seq(Texts)
  /\ historyCursor \in -1 .. Len(history) - 1
  /\ origBuffer \in Texts

LEMMA LinesAre ==
  ASSUME EditorOK
  PROVE  /\ AllLines \in Seq(Texts)
         /\ Len(AllLines) = Len(history) + 1 /\ Len(history) \in Nat
         /\ EditedLine \in 1 .. Len(AllLines)
         /\ AllLines[EditedLine] = buffer.content
<1>1. buffer.content \in Texts /\ history \in Seq(Texts) /\ origBuffer \in Texts
      /\ historyCursor \in -1 .. Len(history) - 1 /\ Len(history) \in Nat
  BY BufferParts DEF EditorOK
<1> DEFINE text == buffer.content
           c == historyCursor + 1
           n == Len(history)
<1>2. CASE historyCursor = -1
  <2>1. AllLines = Append(history, text) /\ EditedLine = n + 1
    BY <1>2 DEF AllLines, EditedLine
  <2>2. text \in Texts /\ history \in Seq(Texts) /\ n \in Nat
    BY <1>1
  <2> HIDE DEF text
  <2>3. Append(history, text) \in Seq(Texts)
    BY <2>2
  <2>4. Len(Append(history, text)) = n + 1
    BY <2>2
  <2>5. Append(history, text)[n + 1] = text
    BY <2>2
  <2>6. n + 1 \in 1 .. n + 1
    BY <2>2
  <2> QED BY <2>1, <2>2, <2>3, <2>4, <2>5, <2>6 DEF text
<1>3. CASE historyCursor # -1
  <2> DEFINE items == [history EXCEPT ![c] = text]
  <2>1. AllLines = Append(items, origBuffer) /\ EditedLine = c
    BY <1>3 DEF AllLines, EditedLine
  <2>2. c \in 1 .. n
    BY <1>1, <1>3
  <2> HIDE DEF text, c
  <2>3. items \in Seq(Texts) /\ Len(items) = n /\ items[c] = text
    BY <1>1, <2>2 DEF text
  <2> HIDE DEF items
  <2>4. Append(items, origBuffer) \in Seq(Texts) /\ Len(Append(items, origBuffer)) = n + 1
        /\ Append(items, origBuffer)[c] = items[c]
    BY <1>1, <2>2, <2>3
  <2> QED BY <1>1, <2>1, <2>2, <2>3, <2>4 DEF text
<1> QED BY <1>2, <1>3

LEMMA LinkedExtremes ==
  ASSUME NEW A
  PROVE  E!Max(A) = Max(A) /\ E!Min(A) = Min(A)
  BY DEF E!Max, E!Min, Max, Min

LEMMA LinkedText ==
  ASSUME EditorOK
  PROVE  /\ E!Text = buffer.content
         /\ E!Size = Len(buffer.content)
         /\ E!Before = SubSeq(buffer.content, 1, buffer.cursor)
         /\ E!After = SubSeq(buffer.content, buffer.cursor + 1, Len(buffer.content))
         /\ \A from, to : E!Cut(from, to)
              = SubSeq(buffer.content, 1, from)
                  \o SubSeq(buffer.content, to + 1, Len(buffer.content))
<1>1. E!Text = buffer.content
  BY LinesAre DEF E!Text
<1> QED BY <1>1 DEF E!Size, E!Before, E!After, E!Cut

LEMMA LinkedLines ==
  ASSUME EditorOK
  PROVE  /\ \A i : E!BeginOf(i) = Begins(buffer.content, i)
         /\ \A i : E!EndOf(i) = Ends(buffer.content, i)
<1>1. ASSUME NEW i PROVE E!BeginOf(i) = Begins(buffer.content, i)
  <2>1. E!BeginOf(i) = E!Max({j \in 0 .. i : E!LineBegins(j)})
    BY DEF E!BeginOf
  <2>2. \A j : E!LineBegins(j) <=> (j = 0 \/ buffer.content[j] = LineFeed)
    BY LinkedText DEF E!LineBegins, E!NewLine, LineFeed
  <2>3. {j \in 0 .. i : E!LineBegins(j)} = {j \in 0 .. i : j = 0 \/ buffer.content[j] = LineFeed}
    BY <2>2
  <2> QED BY <2>1, <2>3, LinkedExtremes DEF Begins
<1>2. ASSUME NEW i PROVE E!EndOf(i) = Ends(buffer.content, i)
  <2>1. E!EndOf(i) = E!Min({j \in i .. Len(buffer.content) : E!LineEnds(j)})
    BY LinkedText DEF E!EndOf
  <2>2. \A j : E!LineEnds(j)
                 <=> (j = Len(buffer.content) \/ buffer.content[j + 1] = LineFeed)
    BY LinkedText DEF E!LineEnds, E!NewLine, LineFeed
  <2>3. {j \in i .. Len(buffer.content) : E!LineEnds(j)}
          = {j \in i .. Len(buffer.content) :
               j = Len(buffer.content) \/ buffer.content[j + 1] = LineFeed}
    BY <2>2
  <2> QED BY <2>1, <2>3, LinkedExtremes DEF Ends
<1> QED BY <1>1, <1>2

LEMMA LinkedWords ==
  ASSUME EditorOK
  PROVE  /\ E!WordLeft = LeftWord(buffer.content, buffer.cursor)
         /\ E!WordRight = RightWord(buffer.content, buffer.cursor)
<1> DEFINE text == buffer.content
           pos == buffer.cursor
<1>1. E!Text = text /\ E!Size = Len(text)
  BY LinkedText
<1>2. \A i : E!WordBegins(i) <=> BeginsWord(text, i)
  BY <1>1 DEF E!WordBegins, BeginsWord
<1>3. \A i : E!WordEnds(i) <=> EndsWord(text, i)
  BY <1>1 DEF E!WordEnds, EndsWord
<1>4. {i \in 0 .. pos - 1 : E!WordBegins(i)} = {i \in 0 .. pos - 1 : BeginsWord(text, i)}
  BY <1>2
<1>5. {i \in pos + 1 .. Len(text) : E!WordEnds(i)} = {i \in pos + 1 .. Len(text) : EndsWord(text, i)}
  BY <1>3
<1>6. E!WordLeft = E!Max({0} \cup {i \in 0 .. pos - 1 : E!WordBegins(i)})
  BY DEF E!WordLeft
<1>7. E!WordRight = E!Min({Len(text)} \cup {i \in pos + 1 .. Len(text) : E!WordEnds(i)})
  BY <1>1 DEF E!WordRight
<1> QED BY <1>4, <1>5, <1>6, <1>7, LinkedExtremes DEF LeftWord, RightWord

LEMMA LinkedPlaces ==
  ASSUME EditorOK
  PROVE  /\ E!UpTargets = UpPlaces(buffer.content, buffer.cursor)
         /\ E!DownTargets = DownPlaces(buffer.content, buffer.cursor)
<1> DEFINE text == buffer.content
           pos == buffer.cursor
<1>1. E!Text = text /\ E!Size = Len(text)
  BY LinkedText
<1>2. (\A i : E!BeginOf(i) = Begins(text, i)) /\ (\A i : E!EndOf(i) = Ends(text, i))
  BY LinkedLines
<1>3. ASSUME NEW begin PROVE E!InLine(begin) = InLinePlaces(text, pos, begin)
  BY <1>1, <1>2, LinkedExtremes DEF E!InLine, InLinePlaces, IsAscii
<1>4. E!UpTargets = UpPlaces(text, pos)
  BY <1>2, <1>3 DEF E!UpTargets, UpPlaces
<1>5. E!DownTargets = DownPlaces(text, pos)
  BY <1>1, <1>2, <1>3 DEF E!DownTargets, DownPlaces
<1> QED BY <1>4, <1>5

-----------------------------------------------------------------------------
(* What Editor says of each key.                                           *)

KeyOf(k, m, u) == [key |-> k, mod |-> m, unicode |-> u]

LEMMA SameKey ==
  ASSUME NEW k, NEW m, NEW u, NEW l, NEW n, NEW v
  PROVE  KeyOf(k, m, u) = KeyOf(l, n, v) <=> (k = l /\ m = n /\ u = v)
<1>1. KeyOf(k, m, u).key = k /\ KeyOf(k, m, u).mod = m /\ KeyOf(k, m, u).unicode = u
  BY DEF KeyOf
<1>2. KeyOf(l, n, v).key = l /\ KeyOf(l, n, v).mod = n /\ KeyOf(l, n, v).unicode = v
  BY DEF KeyOf
<1> QED BY <1>1, <1>2

LEMMA Modifiers ==
  /\ {"Alt"} # {} /\ {"Ctrl"} # {} /\ {"Alt"} # {"Ctrl"}
  OBVIOUS

LEMMA Patterns ==
  ASSUME NEW k, NEW m, NEW u
  PROVE  LET key == KeyOf(k, m, u)
         IN /\ \A x : key = E!Plain(x) <=> (k = x /\ m = {} /\ u = 0)
            /\ \A x : key \in E!Modified(x)
                        <=> (k = x /\ (m = {"Alt"} \/ m = {"Ctrl"}) /\ u = 0)
            /\ \A c : key = E!Control(c) <=> (k = "UnicodeChar" /\ m = {"Ctrl"} /\ u = c)
            /\ \A c : key = E!AltChar(c) <=> (k = "UnicodeChar" /\ m = {"Alt"} /\ u = c)
<1> DEFINE key == KeyOf(k, m, u)
<1>1. \A l, n, v : key = KeyOf(l, n, v) <=> (k = l /\ m = n /\ u = v)
  BY SameKey
<1>2. /\ \A x : E!Plain(x) = KeyOf(x, {}, 0)
      /\ \A x : E!Modified(x) = {KeyOf(x, {"Alt"}, 0), KeyOf(x, {"Ctrl"}, 0)}
      /\ \A c : E!Control(c) = KeyOf("UnicodeChar", {"Ctrl"}, c)
      /\ \A c : E!AltChar(c) = KeyOf("UnicodeChar", {"Alt"}, c)
  BY DEF E!Plain, E!Modified, E!Held, E!Control, E!AltChar, KeyOf
<1> HIDE DEF key
<1>3. \A x : key = E!Plain(x) <=> (k = x /\ m = {} /\ u = 0)
  BY <1>1, <1>2
<1>4. ASSUME NEW x
      PROVE  key \in E!Modified(x) <=> (k = x /\ (m = {"Alt"} \/ m = {"Ctrl"}) /\ u = 0)
  <2>1. key \in E!Modified(x) <=> (key = KeyOf(x, {"Alt"}, 0) \/ key = KeyOf(x, {"Ctrl"}, 0))
    BY <1>2
  <2>2. key = KeyOf(x, {"Alt"}, 0) <=> (k = x /\ m = {"Alt"} /\ u = 0)
    BY <1>1
  <2>3. key = KeyOf(x, {"Ctrl"}, 0) <=> (k = x /\ m = {"Ctrl"} /\ u = 0)
    BY <1>1
  <2> QED BY <2>1, <2>2, <2>3
<1>5. \A c : key = E!Control(c) <=> (k = "UnicodeChar" /\ m = {"Ctrl"} /\ u = c)
  BY <1>1, <1>2
<1>6. \A c : key = E!AltChar(c) <=> (k = "UnicodeChar" /\ m = {"Alt"} /\ u = c)
  BY <1>1, <1>2
<1> QED BY <1>3, <1>4, <1>5, <1>6 DEF key

(* Keys without modifier that are no characters. *)
LEMMA PlainKeys ==
  ASSUME NEW k, k # "UnicodeChar"
  PROVE  LET key == KeyOf(k, {}, 0)
             pos == buffer.cursor
         IN /\ k = "Left" => E!Targets(key) = {E!Max({0, pos - 1})}
            /\ k = "Right" => E!Targets(key) = {E!Min({E!Size, pos + 1})}
            /\ k = "Home" => E!Targets(key) = {E!BeginOf(pos)}
            /\ k = "End" => E!Targets(key) = {E!EndOf(pos)}
            /\ k = "PageUp" => E!Targets(key) = {0}
            /\ k = "PageDown" => E!Targets(key) = {E!Size}
            /\ k \notin {"Left", "Right", "Home", "End", "PageUp", "PageDown"}
                 => E!Targets(key) = {}
            /\ k = "Backspace" => E!Erases(key) = <<E!Max({0, pos - 1}), pos>>
            /\ k = "Delete" => E!Erases(key) = <<pos, E!Min({E!Size, pos + 1})>>
            /\ k \notin {"Backspace", "Delete"} => E!Erases(key) = <<pos, pos>>
            /\ E!Enters(key) <=> (k = "Enter" /\ ~IsOpen(E!Text))
            /\ ~E!Cancels(key)
            /\ E!Inserts(key) = IF k = "Enter" /\ IsOpen(E!Text) THEN <<E!NewLine>> ELSE <<>>
            /\ k = "Up" => E!Turns(key) = IF EditedLine > 1 THEN EditedLine - 1 ELSE EditedLine
            /\ k = "Down" => E!Turns(key) = IF EditedLine < Len(AllLines) THEN EditedLine + 1
                                            ELSE EditedLine
            /\ k \notin {"Up", "Down"} => E!Turns(key) = EditedLine
<1> DEFINE key == KeyOf(k, {}, 0)
<1>1. \A x : key = E!Plain(x) <=> k = x
  BY Patterns, Modifiers
<1>2. \A x : key \notin E!Modified(x)
  BY Patterns, Modifiers
<1>3. \A c : key # E!Control(c)
  BY Patterns, Modifiers
<1>4. \A c : key # E!AltChar(c)
  BY Patterns, Modifiers
<1>5. key.key = k /\ key.mod = {}
  BY DEF KeyOf
<1> HIDE DEF key
<1>6. E!Enters(key) <=> (k = "Enter" /\ ~IsOpen(E!Text))
  BY <1>1 DEF E!Enters
<1>7. ~E!Cancels(key)
  BY <1>3 DEF E!Cancels
<1>8. E!Inserts(key) = IF k = "Enter" /\ IsOpen(E!Text) THEN <<E!NewLine>> ELSE <<>>
  BY <1>1, <1>2, <1>5 DEF E!Inserts
<1>9. /\ k = "Up" => E!Turns(key) = IF EditedLine > 1 THEN EditedLine - 1 ELSE EditedLine
      /\ k = "Down" => E!Turns(key) = IF EditedLine < Len(AllLines) THEN EditedLine + 1
                                      ELSE EditedLine
      /\ k \notin {"Up", "Down"} => E!Turns(key) = EditedLine
  BY <1>1, <1>3 DEF E!Turns
<1>10. /\ k = "Backspace" => E!Erases(key) = <<E!Max({0, buffer.cursor - 1}), buffer.cursor>>
       /\ k = "Delete" => E!Erases(key) = <<buffer.cursor, E!Min({E!Size, buffer.cursor + 1})>>
       /\ k \notin {"Backspace", "Delete"} => E!Erases(key) = <<buffer.cursor, buffer.cursor>>
  BY <1>1, <1>2, <1>3, <1>4 DEF E!Erases
<1>11. /\ k = "Left" => E!Targets(key) = {E!Max({0, buffer.cursor - 1})}
       /\ k = "Right" => E!Targets(key) = {E!Min({E!Size, buffer.cursor + 1})}
       /\ k = "Home" => E!Targets(key) = {E!BeginOf(buffer.cursor)}
       /\ k = "End" => E!Targets(key) = {E!EndOf(buffer.cursor)}
       /\ k = "PageUp" => E!Targets(key) = {0}
       /\ k = "PageDown" => E!Targets(key) = {E!Size}
       /\ k \notin {"Left", "Right", "Home", "End", "PageUp", "PageDown"}
            => E!Targets(key) = {}
  BY <1>1, <1>2, <1>3, <1>4 DEF E!Targets
<1> QED BY <1>6, <1>7, <1>8, <1>9, <1>10, <1>11 DEF key

(* Keys with Alt or Ctrl that are no characters. *)
LEMMA ModifiedKeys ==
  ASSUME NEW k, k # "UnicodeChar", NEW m, m = {"Alt"} \/ m = {"Ctrl"}
  PROVE  LET key == KeyOf(k, m, 0)
             pos == buffer.cursor
         IN /\ k = "Home" => E!Targets(key) = {E!BeginOf(pos)}
            /\ k = "End" => E!Targets(key) = {E!EndOf(pos)}
            /\ k = "Left" => E!Targets(key) = {E!WordLeft}
            /\ k = "Right" => E!Targets(key) = {E!WordRight}
            /\ k = "Up" => E!Targets(key) = E!UpTargets
            /\ k = "Down" => E!Targets(key) = E!DownTargets
            /\ k \notin {"Home", "End", "Left", "Right", "Up", "Down"} => E!Targets(key) = {}
            /\ k = "Backspace" => E!Erases(key) = <<E!WordLeft, pos>>
            /\ k = "Delete" => E!Erases(key) = <<pos, E!WordRight>>
            /\ k \notin {"Backspace", "Delete"} => E!Erases(key) = <<pos, pos>>
            /\ ~E!Enters(key) /\ ~E!Cancels(key)
            /\ E!Inserts(key) = IF k = "Enter" THEN <<E!NewLine>> ELSE <<>>
            /\ E!Turns(key) = EditedLine
<1> DEFINE key == KeyOf(k, m, 0)
<1>1. \A x : key # E!Plain(x)
  BY Patterns, Modifiers
<1>2. \A x : key \in E!Modified(x) <=> k = x
  <2>1. m = {"Alt"} \/ m = {"Ctrl"}
    OBVIOUS
  <2> QED BY <2>1, Patterns, Modifiers
<1>3. \A c : key # E!Control(c)
  BY Patterns, Modifiers
<1>4. \A c : key # E!AltChar(c)
  BY Patterns, Modifiers
<1>5. key.key = k /\ key.mod = m
  BY DEF KeyOf
<1> HIDE DEF key
<1>6. ~E!Enters(key) /\ ~E!Cancels(key)
  BY <1>1, <1>3 DEF E!Enters, E!Cancels
<1>7. E!Inserts(key) = IF k = "Enter" THEN <<E!NewLine>> ELSE <<>>
  BY <1>1, <1>2, <1>5 DEF E!Inserts
<1>8. E!Turns(key) = EditedLine
  BY <1>1, <1>3 DEF E!Turns
<1>9. /\ k = "Backspace" => E!Erases(key) = <<E!WordLeft, buffer.cursor>>
      /\ k = "Delete" => E!Erases(key) = <<buffer.cursor, E!WordRight>>
      /\ k \notin {"Backspace", "Delete"} => E!Erases(key) = <<buffer.cursor, buffer.cursor>>
  BY <1>1, <1>2, <1>3, <1>4 DEF E!Erases
<1>10. /\ k = "Home" => E!Targets(key) = {E!BeginOf(buffer.cursor)}
       /\ k = "End" => E!Targets(key) = {E!EndOf(buffer.cursor)}
       /\ k = "Left" => E!Targets(key) = {E!WordLeft}
       /\ k = "Right" => E!Targets(key) = {E!WordRight}
       /\ k = "Up" => E!Targets(key) = E!UpTargets
       /\ k = "Down" => E!Targets(key) = E!DownTargets
       /\ k \notin {"Home", "End", "Left", "Right", "Up", "Down"} => E!Targets(key) = {}
  BY <1>1, <1>2, <1>3, <1>4 DEF E!Targets
<1> QED BY <1>6, <1>7, <1>8, <1>9, <1>10 DEF key

LEMMA AltChars ==
  ASSUME NEW u
  PROVE  LET key == KeyOf("UnicodeChar", {"Alt"}, u)
             pos == buffer.cursor
         IN /\ u = 98 => E!Targets(key) = {E!WordLeft}
            /\ u = 102 => E!Targets(key) = {E!WordRight}
            /\ u # 98 /\ u # 102 => E!Targets(key) = {}
            /\ u = 100 => E!Erases(key) = <<pos, E!WordRight>>
            /\ u # 100 => E!Erases(key) = <<pos, pos>>
            /\ ~E!Enters(key) /\ ~E!Cancels(key)
            /\ E!Inserts(key) = <<>>
            /\ E!Turns(key) = EditedLine
<1> DEFINE key == KeyOf("UnicodeChar", {"Alt"}, u)
<1>1. \A x : key # E!Plain(x)
  BY Patterns, Modifiers
<1>2. \A x : x # "UnicodeChar" => key \notin E!Modified(x)
  BY Patterns, Modifiers
<1>3. \A c : key # E!Control(c)
  BY Patterns, Modifiers
<1>4. \A c : key = E!AltChar(c) <=> u = c
  BY Patterns, Modifiers
<1>5. key.key = "UnicodeChar" /\ key.mod # {}
  BY Modifiers DEF KeyOf
<1> HIDE DEF key
<1>6. ~E!Enters(key) /\ ~E!Cancels(key)
  BY <1>1, <1>3 DEF E!Enters, E!Cancels
<1>7. E!Inserts(key) = <<>>
  BY <1>1, <1>2, <1>5 DEF E!Inserts
<1>8. E!Turns(key) = EditedLine
  BY <1>1, <1>3 DEF E!Turns
<1>9. /\ u = 100 => E!Erases(key) = <<buffer.cursor, E!WordRight>>
      /\ u # 100 => E!Erases(key) = <<buffer.cursor, buffer.cursor>>
  BY <1>1, <1>2, <1>3, <1>4 DEF E!Erases
<1>10. /\ u = 98 => E!Targets(key) = {E!WordLeft}
       /\ u = 102 => E!Targets(key) = {E!WordRight}
       /\ u # 98 /\ u # 102 => E!Targets(key) = {}
  BY <1>1, <1>2, <1>3, <1>4 DEF E!Targets
<1> QED BY <1>6, <1>7, <1>8, <1>9, <1>10 DEF key

LEMMA CtrlChars ==
  ASSUME NEW u
  PROVE  LET key == KeyOf("UnicodeChar", {"Ctrl"}, u)
             pos == buffer.cursor
         IN /\ u = 98 => E!Targets(key) = {E!Max({0, pos - 1})}
            /\ u = 102 => E!Targets(key) = {E!Min({E!Size, pos + 1})}
            /\ u = 97 => E!Targets(key) = {E!BeginOf(pos)}
            /\ u = 101 => E!Targets(key) = {E!EndOf(pos)}
            /\ u \notin {98, 102, 97, 101} => E!Targets(key) = {}
            /\ u = 100 => E!Erases(key) = <<pos, E!Min({E!Size, pos + 1})>>
            /\ u # 100 => E!Erases(key) = <<pos, pos>>
            /\ ~E!Enters(key)
            /\ E!Cancels(key) <=> (u = 99 \/ (u = 100 /\ E!Size = 0))
            /\ E!Inserts(key) = <<>>
            /\ u = 112 => E!Turns(key) = IF EditedLine > 1 THEN EditedLine - 1 ELSE EditedLine
            /\ u = 110 => E!Turns(key) = IF EditedLine < Len(AllLines) THEN EditedLine + 1
                                         ELSE EditedLine
            /\ u # 112 /\ u # 110 => E!Turns(key) = EditedLine
<1> DEFINE key == KeyOf("UnicodeChar", {"Ctrl"}, u)
<1>1. \A x : key # E!Plain(x)
  BY Patterns, Modifiers
<1>2. \A x : x # "UnicodeChar" => key \notin E!Modified(x)
  BY Patterns, Modifiers
<1>3. \A c : key = E!Control(c) <=> u = c
  BY Patterns, Modifiers
<1>4. \A c : key # E!AltChar(c)
  BY Patterns, Modifiers
<1>5. key.key = "UnicodeChar" /\ key.mod # {}
  BY Modifiers DEF KeyOf
<1> HIDE DEF key
<1>6. ~E!Enters(key) /\ (E!Cancels(key) <=> (u = 99 \/ (u = 100 /\ E!Size = 0)))
  BY <1>1, <1>3 DEF E!Enters, E!Cancels
<1>7. E!Inserts(key) = <<>>
  BY <1>1, <1>2, <1>5 DEF E!Inserts
<1>8. /\ u = 112 => E!Turns(key) = IF EditedLine > 1 THEN EditedLine - 1 ELSE EditedLine
      /\ u = 110 => E!Turns(key) = IF EditedLine < Len(AllLines) THEN EditedLine + 1
                                   ELSE EditedLine
      /\ u # 112 /\ u # 110 => E!Turns(key) = EditedLine
  BY <1>1, <1>3 DEF E!Turns
<1>9. /\ u = 100 => E!Erases(key) = <<buffer.cursor, E!Min({E!Size, buffer.cursor + 1})>>
      /\ u # 100 => E!Erases(key) = <<buffer.cursor, buffer.cursor>>
  BY <1>1, <1>2, <1>3, <1>4 DEF E!Erases
<1>10. /\ u = 98 => E!Targets(key) = {E!Max({0, buffer.cursor - 1})}
       /\ u = 102 => E!Targets(key) = {E!Min({E!Size, buffer.cursor + 1})}
       /\ u = 97 => E!Targets(key) = {E!BeginOf(buffer.cursor)}
       /\ u = 101 => E!Targets(key) = {E!EndOf(buffer.cursor)}
       /\ u \notin {98, 102, 97, 101} => E!Targets(key) = {}
  BY <1>1, <1>2, <1>3, <1>4 DEF E!Targets
<1> QED BY <1>6, <1>7, <1>8, <1>9, <1>10 DEF key

(* Characters without modifier are inserted; a key with both modifiers     *)
(* does nothing.                                                           *)
LEMMA RestOfKeys ==
  ASSUME NEW k, NEW m, NEW u,
         \/ k = "UnicodeChar" /\ m = {}
         \/ m # {} /\ m # {"Alt"} /\ m # {"Ctrl"}
  PROVE  LET key == KeyOf(k, m, u)
             pos == buffer.cursor
         IN /\ E!Targets(key) = {}
            /\ E!Erases(key) = <<pos, pos>>
            /\ ~E!Enters(key) /\ ~E!Cancels(key)
            /\ E!Inserts(key) = IF k = "UnicodeChar" /\ m = {} THEN <<u>> ELSE <<>>
            /\ E!Turns(key) = EditedLine
<1> DEFINE key == KeyOf(k, m, u)
<1>1. \A x : x # "UnicodeChar" => key # E!Plain(x)
  BY Patterns, Modifiers
<1>2. \A x : x # "UnicodeChar" => key \notin E!Modified(x)
  BY Patterns, Modifiers
<1>3. \A c : key # E!Control(c)
  BY Patterns, Modifiers
<1>4. \A c : key # E!AltChar(c)
  BY Patterns, Modifiers
<1>5. key.key = k /\ key.mod = m /\ key.unicode = u
  BY DEF KeyOf
<1> HIDE DEF key
<1>6. ~E!Enters(key) /\ ~E!Cancels(key)
  BY <1>1, <1>3 DEF E!Enters, E!Cancels
<1>7. E!Inserts(key) = IF k = "UnicodeChar" /\ m = {} THEN <<u>> ELSE <<>>
  BY <1>1, <1>2, <1>5 DEF E!Inserts
<1>8. E!Turns(key) = EditedLine
  BY <1>1, <1>3 DEF E!Turns
<1>9. E!Erases(key) = <<buffer.cursor, buffer.cursor>>
  BY <1>1, <1>2, <1>3, <1>4 DEF E!Erases
<1>10. E!Targets(key) = {}
  BY <1>1, <1>2, <1>3, <1>4 DEF E!Targets
<1> QED BY <1>6, <1>7, <1>8, <1>9, <1>10 DEF key

-----------------------------------------------------------------------------
(* What the editor does for each key: an editor is a record of what a key  *)
(* may change, and has lines as the state has.                             *)

LinesOf(e) ==
  IF e.cursor = -1 THEN Append(e.history, e.buffer.content)
  ELSE Append([e.history EXCEPT ![e.cursor + 1] = e.buffer.content], e.orig)

LineOf(e) == IF e.cursor = -1 THEN Len(e.history) + 1 ELSE e.cursor + 1

KeptOf(e) == IF e.cursor = -1 THEN <<>> ELSE e.history[e.cursor + 1]

Sane(e) ==
  /\ e.buffer \in Buffers
  /\ e.history \in Seq(Texts)
  /\ e.cursor \in -1 .. Len(e.history) - 1
  /\ e.orig \in Texts

SameLines(e) == e.history = history /\ e.cursor = historyCursor /\ e.orig = origBuffer

LEMMA EditedFields ==
  ASSUME NEW b
  PROVE  /\ Edited(b).buffer = b /\ Edited(b).state = "Continue" /\ SameLines(Edited(b))
         /\ ~Edited(b).redraw => b = buffer
  BY DEF Edited, Now, SameLines

LEMMA IgnoredFields ==
  /\ Ignored.buffer = buffer /\ Ignored.state = "Continue" /\ SameLines(Ignored)
  BY DEF Ignored, Now, SameLines

LEMMA StoppedFields ==
  ASSUME NEW why
  PROVE  /\ Stopped(why).buffer = buffer /\ Stopped(why).state = why
         /\ SameLines(Stopped(why)) /\ Stopped(why).redraw = TRUE
  BY DEF Stopped, Now, SameLines

TurnedTo(e, line) ==
  /\ Sane(e) /\ e.state = "Continue" /\ e.redraw = TRUE
  /\ LinesOf(e) = AllLines
  /\ LineOf(e) = line
  /\ KeptOf(e) = IF line = Len(AllLines) THEN <<>> ELSE AllLines[line]
  /\ e.buffer.cursor = Len(AllLines[line])

LEMMA WithContentIs ==
  ASSUME NEW text \in Texts
  PROVE  /\ WithContent(text) \in Buffers
         /\ WithContent(text).content = text /\ WithContent(text).cursor = Len(text)
<1>1. Len(text) \in 0 .. Len(text)
  BY DEF Texts
<1> QED BY <1>1, BufferMade DEF WithContent

(* Storing an item again changes nothing, storing two keeps both. *)
LEMMA ItemStored ==
  ASSUME NEW items \in Seq(Texts), NEW i \in 1 .. Len(items), NEW text \in Texts
  PROVE  /\ [items EXCEPT ![i] = text] \in Seq(Texts)
         /\ Len([items EXCEPT ![i] = text]) = Len(items)
         /\ [items EXCEPT ![i] = text][i] = text
         /\ \A j \in 1 .. Len(items) : j # i => [items EXCEPT ![i] = text][j] = items[j]
OBVIOUS

LEMMA ItemKept ==
  ASSUME NEW items \in Seq(Texts), NEW i \in 1 .. Len(items)
  PROVE  [items EXCEPT ![i] = items[i]] = items
OBVIOUS

LEMMA LastIsAppended ==
  ASSUME NEW items \in Seq(Texts), NEW text \in Texts
  PROVE  /\ Append(items, text) \in Seq(Texts)
         /\ Len(Append(items, text)) = Len(items) + 1
         /\ Append(items, text)[Len(items) + 1] = text
         /\ \A j \in 1 .. Len(items) : Append(items, text)[j] = items[j]
OBVIOUS

LEMMA PreviousTurns ==
  ASSUME EditorOK
  PROVE  IF EditedLine > 1 THEN TurnedTo(HistoryPrevious, EditedLine - 1)
         ELSE HistoryPrevious = Ignored
<1> DEFINE e == HistoryPrevious
           n == Len(history)
           text == buffer.content
<1>1. /\ text \in Texts /\ history \in Seq(Texts) /\ origBuffer \in Texts
      /\ historyCursor \in -1 .. n - 1 /\ n \in Nat
  BY BufferParts DEF EditorOK
<1> HIDE DEF text
<1>2. CASE historyCursor = -1 /\ history = <<>>
  <2>1. EditedLine = 1
    BY <1>2 DEF EditedLine
  <2>2. e = Ignored
    BY <1>2 DEF HistoryPrevious
  <2> QED BY <2>1, <2>2
<1>3. CASE historyCursor = -1 /\ history # <<>>
  <2>1. n >= 1 /\ n \in 1 .. n /\ n - 1 \in -1 .. n - 1 /\ n - 1 # -1 /\ n - 1 + 1 = n
    BY <1>1, <1>3
  <2>2. EditedLine = n + 1 /\ EditedLine > 1 /\ EditedLine - 1 = n
    BY <1>1, <1>3, <2>1 DEF EditedLine
  <2>3. AllLines = Append(history, text)
    BY <1>3 DEF AllLines, text
  <2>4. /\ e.buffer = WithContent(history[n]) /\ e.history = history /\ e.cursor = n - 1
        /\ e.orig = text /\ e.state = "Continue" /\ e.redraw = TRUE
    BY <1>3 DEF HistoryPrevious, Now, text
  <2> HIDE DEF e, n
  <2>5. history[n] \in Texts
    BY <1>1, <2>1 DEF n
  <2>6. e.buffer \in Buffers /\ e.buffer.content = history[n] /\ e.buffer.cursor = Len(history[n])
    BY <2>4, <2>5, WithContentIs
  <2>7. Sane(e)
    BY <1>1, <2>1, <2>4, <2>6 DEF Sane, n
  <2>8. [history EXCEPT ![n] = history[n]] = history
    BY <1>1, <2>1, ItemKept DEF n
  <2>9. LinesOf(e) = AllLines
    BY <2>1, <2>3, <2>4, <2>6, <2>8 DEF LinesOf
  <2>10. LineOf(e) = n /\ KeptOf(e) = history[n]
    BY <2>1, <2>4 DEF LineOf, KeptOf
  <2>11. AllLines[n] = history[n] /\ Len(AllLines) = n + 1 /\ n # n + 1
    <3>1. \A j \in 1 .. Len(history) : Append(history, text)[j] = history[j]
      BY <1>1, LastIsAppended
    <3>2. Len(Append(history, text)) = Len(history) + 1
      BY <1>1, LastIsAppended
    <3>3. n # n + 1
      BY <2>1
    <3>4. Len(AllLines) = n + 1
      BY <3>2, <2>3 DEF n
    <3>5. n \in 1 .. Len(history)
      BY <2>1 DEF n
    <3>6. AllLines[n] = history[n]
      BY <3>1, <3>5, <2>3
    <3> QED BY <3>3, <3>4, <3>6
  <2>12. TurnedTo(e, n)
    BY <2>4, <2>6, <2>7, <2>9, <2>10, <2>11 DEF TurnedTo
  <2> QED BY <2>2, <2>12 DEF e
<1>4. CASE historyCursor = 0
  <2>1. EditedLine = 1
    BY <1>4 DEF EditedLine
  <2>2. e = Ignored
    BY <1>4 DEF HistoryPrevious
  <2> QED BY <2>1, <2>2
<1>5. CASE historyCursor >= 1
  <2> DEFINE c == historyCursor
             items == [history EXCEPT ![c + 1] = text]
  <2>1. c \in 1 .. n /\ c + 1 \in 1 .. n /\ c \in Nat /\ c # c + 1 /\ c - 1 # -1 /\ c - 1 + 1 = c
        /\ c - 1 \in -1 .. n - 1 /\ c # -1
    BY <1>1, <1>5
  <2>2. EditedLine = c + 1 /\ EditedLine > 1 /\ EditedLine - 1 = c
    BY <1>1, <1>5, <2>1 DEF EditedLine
  <2>3. AllLines = Append(items, origBuffer)
    BY <2>1 DEF AllLines, text
  <2>4. /\ e.buffer = WithContent(items[c]) /\ e.history = items /\ e.cursor = c - 1
        /\ e.orig = origBuffer /\ e.state = "Continue" /\ e.redraw = TRUE
    BY <1>5, <2>1 DEF HistoryPrevious, Now, text
  <2>5. items \in Seq(Texts) /\ Len(items) = n /\ items[c] = history[c]
    BY <1>1, <2>1, ItemStored
  <2> HIDE DEF e, n, c, items
  <2>6. items[c] \in Texts
    BY <2>1, <2>5
  <2>7. e.buffer \in Buffers /\ e.buffer.content = items[c] /\ e.buffer.cursor = Len(items[c])
    BY <2>4, <2>6, WithContentIs
  <2>8. Sane(e)
    BY <1>1, <2>1, <2>4, <2>5, <2>7 DEF Sane
  <2>9. [items EXCEPT ![c] = items[c]] = items
    BY <2>1, <2>5, ItemKept
  <2>10. LinesOf(e) = AllLines
    BY <2>1, <2>3, <2>4, <2>7, <2>9 DEF LinesOf
  <2>11. LineOf(e) = c /\ KeptOf(e) = items[c]
    BY <2>1, <2>4 DEF LineOf, KeptOf
  <2>12. AllLines[c] = items[c] /\ Len(AllLines) = n + 1 /\ c # n + 1
    <3>1. \A j \in 1 .. Len(items) : Append(items, origBuffer)[j] = items[j]
      BY <1>1, <2>5, LastIsAppended
    <3>2. Len(Append(items, origBuffer)) = Len(items) + 1
      BY <1>1, <2>5, LastIsAppended
    <3>3. c # n + 1
      BY <1>1, <2>1
    <3> QED BY <3>1, <3>2, <3>3, <2>1, <2>3, <2>5
  <2>13. TurnedTo(e, c)
    BY <2>4, <2>7, <2>8, <2>10, <2>11, <2>12 DEF TurnedTo
  <2> QED BY <2>2, <2>13 DEF e
<1> QED BY <1>1, <1>2, <1>3, <1>4, <1>5

LEMMA NextTurns ==
  ASSUME EditorOK
  PROVE  IF EditedLine < Len(AllLines) THEN TurnedTo(HistoryNext, EditedLine + 1)
         ELSE HistoryNext = Ignored
<1> DEFINE e == HistoryNext
           n == Len(history)
           c == historyCursor
           text == buffer.content
           items == [history EXCEPT ![c + 1] = text]
<1>1. /\ text \in Texts /\ history \in Seq(Texts) /\ origBuffer \in Texts
      /\ c \in -1 .. n - 1 /\ n \in Nat
  BY BufferParts DEF EditorOK
<1>2. Len(AllLines) = n + 1
  BY LinesAre
<1> HIDE DEF text
<1>3. CASE c = -1
  <2>1. EditedLine = n + 1
    BY <1>3 DEF EditedLine
  <2>2. e = Ignored
    BY <1>3 DEF HistoryNext
  <2>3. ~(n + 1 < n + 1)
    BY <1>1
  <2> QED BY <2>1, <2>2, <2>3, <1>2
<1>4. CASE c # -1
  <2>1. c + 1 \in 1 .. n /\ c + 1 < n + 1 /\ c + 1 \in Nat
    BY <1>1, <1>4
  <2>2. EditedLine = c + 1 /\ AllLines = Append(items, origBuffer)
    BY <1>4 DEF EditedLine, AllLines, text
  <2>3. items \in Seq(Texts) /\ Len(items) = n
    BY <1>1, <2>1, ItemStored
  <2>4. /\ \A j \in 1 .. Len(items) : Append(items, origBuffer)[j] = items[j]
        /\ Append(items, origBuffer)[Len(items) + 1] = origBuffer
    BY <1>1, <2>3, LastIsAppended
  <2>5. CASE c + 1 = n
    <3>1. /\ e.buffer = WithContent(origBuffer) /\ e.history = items /\ e.cursor = -1
          /\ e.orig = <<>> /\ e.state = "Continue" /\ e.redraw = TRUE
      BY <1>4, <2>5 DEF HistoryNext, Now, text
    <3> HIDE DEF e, n, c, items
    <3>2. e.buffer \in Buffers /\ e.buffer.content = origBuffer /\ e.buffer.cursor = Len(origBuffer)
      BY <1>1, <3>1, WithContentIs
    <3>3. <<>> \in Texts /\ -1 \in -1 .. n - 1
      BY <1>1 DEF Texts
    <3>4. Sane(e)
      BY <2>3, <3>1, <3>2, <3>3 DEF Sane
    <3>5. LinesOf(e) = AllLines /\ LineOf(e) = n + 1 /\ KeptOf(e) = <<>>
      BY <2>2, <2>3, <3>1, <3>2 DEF LinesOf, LineOf, KeptOf
    <3>6. AllLines[n + 1] = origBuffer
      BY <2>2, <2>3, <2>4
    <3>7. TurnedTo(e, n + 1)
      BY <1>2, <3>1, <3>2, <3>4, <3>5, <3>6 DEF TurnedTo
    <3>8. EditedLine + 1 = n + 1 /\ EditedLine < Len(AllLines)
      BY <1>1, <1>2, <2>1, <2>2, <2>5
    <3> QED BY <3>7, <3>8 DEF e
  <2>6. CASE c + 1 # n
    <3> DEFINE d == c + 1
    <3>1. d \in Nat /\ d + 1 \in 1 .. n /\ d \in -1 .. n - 1 /\ d # -1 /\ ~(d >= n) /\ d + 1 # n + 1
      BY <1>1, <1>4, <2>1, <2>6
    <3>2. /\ e.buffer = WithContent(items[d + 1]) /\ e.history = items /\ e.cursor = d
          /\ e.orig = origBuffer /\ e.state = "Continue" /\ e.redraw = TRUE
      BY <1>4, <3>1 DEF HistoryNext, Now, text
    <3>3. EditedLine = d
      BY <2>2
    <3> HIDE DEF e, n, c, items, d
    <3>4. items[d + 1] \in Texts
      BY <2>3, <3>1
    <3>5. /\ e.buffer \in Buffers /\ e.buffer.content = items[d + 1]
          /\ e.buffer.cursor = Len(items[d + 1])
      BY <3>2, <3>4, WithContentIs
    <3>6. Sane(e)
      BY <1>1, <2>3, <3>1, <3>2, <3>5 DEF Sane
    <3>7. [items EXCEPT ![d + 1] = items[d + 1]] = items
      BY <2>3, <3>1, ItemKept
    <3>8. LinesOf(e) = AllLines /\ LineOf(e) = d + 1 /\ KeptOf(e) = items[d + 1]
      BY <2>2, <3>1, <3>2, <3>5, <3>7 DEF LinesOf, LineOf, KeptOf
    <3>9. AllLines[d + 1] = items[d + 1]
      BY <2>2, <2>3, <2>4, <3>1
    <3>10. TurnedTo(e, d + 1)
      BY <1>2, <3>1, <3>2, <3>5, <3>6, <3>8, <3>9 DEF TurnedTo
    <3>11. EditedLine < Len(AllLines)
      BY <1>1, <1>2, <3>1, <3>3
    <3> QED BY <3>3, <3>10, <3>11 DEF e
  <2> QED BY <2>5, <2>6
<1> QED BY <1>3, <1>4

-----------------------------------------------------------------------------
(* A key does to an editor what Editor says.                               *)

MovedBy(key, e) ==
  /\ SameLines(e)
  /\ e.buffer.content = E!Text
  /\ e.buffer.cursor \in E!Targets(key)

EditedBy(key, e) ==
  /\ SameLines(e)
  /\ E!Targets(key) = {} /\ E!Turns(key) = EditedLine
  /\ IF E!Inserts(key) # <<>>
     THEN /\ e.buffer.content = E!Before \o E!Inserts(key) \o E!After
          /\ e.buffer.cursor = buffer.cursor + 1
     ELSE /\ e.buffer.content = E!Cut(E!Erases(key)[1], E!Erases(key)[2])
          /\ e.buffer.cursor = E!Erases(key)[1]

TurnedBy(key, e) == E!Turns(key) # EditedLine /\ TurnedTo(e, E!Turns(key))

StateOf(key) ==
  IF E!Enters(key) THEN "Finished" ELSE IF E!Cancels(key) THEN "ControlBreak" ELSE "Continue"

KeyEffect(key, e) ==
  /\ Sane(e)
  /\ MovedBy(key, e) \/ EditedBy(key, e) \/ TurnedBy(key, e)
  /\ e.state = StateOf(key)
  /\ ~e.redraw => e.buffer = buffer

LEMMA SaneIfSame ==
  ASSUME EditorOK, NEW e, SameLines(e), e.buffer \in Buffers
  PROVE  Sane(e)
  BY DEF EditorOK, SameLines, Sane

LEMMA MovesTo ==
  ASSUME EditorOK, NEW key, NEW b \in Buffers, b.content = buffer.content,
         b.cursor \in E!Targets(key), ~E!Enters(key), ~E!Cancels(key)
  PROVE  KeyEffect(key, Edited(b))
<1> DEFINE e == Edited(b)
<1>1. /\ e.buffer = b /\ e.state = "Continue" /\ SameLines(e)
      /\ ~e.redraw => b = buffer
  BY EditedFields
<1>2. E!Text = buffer.content
  BY LinkedText
<1> HIDE DEF e
<1>3. Sane(e)
  BY <1>1, SaneIfSame
<1>4. MovedBy(key, e)
  BY <1>1, <1>2 DEF MovedBy
<1>5. e.state = StateOf(key)
  BY <1>1 DEF StateOf
<1> QED BY <1>1, <1>3, <1>4, <1>5 DEF KeyEffect, e

LEMMA CutsOut ==
  ASSUME EditorOK, NEW key, NEW to \in 0 .. Len(buffer.content), NEW from \in 0 .. to,
         NEW b, b = Without(buffer, from, to),
         E!Targets(key) = {}, E!Turns(key) = EditedLine, E!Inserts(key) = <<>>,
         E!Erases(key) = <<from, to>>, ~E!Enters(key), ~E!Cancels(key)
  PROVE  KeyEffect(key, Edited(b))
<1> DEFINE e == Edited(b)
<1>1. /\ e.buffer = b /\ e.state = "Continue" /\ SameLines(e)
      /\ ~e.redraw => b = buffer
  BY EditedFields
<1> HIDE DEF e
<1>2. buffer \in Buffers
  BY DEF EditorOK
<1>3. /\ b \in Buffers /\ b.cursor = from
      /\ b.content = SubSeq(buffer.content, 1, from)
                       \o SubSeq(buffer.content, to + 1, Len(buffer.content))
  BY <1>2, WithoutPart
<1>4. b.content = E!Cut(from, to)
  BY <1>3, LinkedText
<1>5. Sane(e)
  BY <1>1, <1>3, SaneIfSame
<1>6. E!Erases(key)[1] = from /\ E!Erases(key)[2] = to
  OBVIOUS
<1>7. e.buffer.content = E!Cut(E!Erases(key)[1], E!Erases(key)[2])
  BY <1>1, <1>4, <1>6
<1>8. EditedBy(key, e)
  BY <1>1, <1>3, <1>6, <1>7 DEF EditedBy
<1>9. e.state = StateOf(key)
  BY <1>1 DEF StateOf
<1> QED BY <1>1, <1>5, <1>8, <1>9 DEF KeyEffect, e

LEMMA Leaves ==
  ASSUME EditorOK, NEW key, NEW e, e.buffer = buffer, SameLines(e),
         E!Targets(key) = {}, E!Turns(key) = EditedLine, E!Inserts(key) = <<>>,
         E!Cut(E!Erases(key)[1], E!Erases(key)[2]) = buffer.content,
         E!Erases(key)[1] = buffer.cursor, e.state = StateOf(key)
  PROVE  KeyEffect(key, e)
<1>1. Sane(e)
  BY SaneIfSame DEF EditorOK
<1>2. EditedBy(key, e)
  BY DEF EditedBy
<1> QED BY <1>1, <1>2 DEF KeyEffect

LEMMA LeavesAll ==
  ASSUME EditorOK, NEW key, NEW e, e.buffer = buffer, SameLines(e),
         E!Targets(key) = {}, E!Turns(key) = EditedLine, E!Inserts(key) = <<>>,
         E!Erases(key) = <<buffer.cursor, buffer.cursor>>, e.state = StateOf(key)
  PROVE  KeyEffect(key, e)
<1>1. buffer.content \in Texts /\ buffer.cursor \in 0 .. Len(buffer.content)
  BY BufferParts DEF EditorOK
<1>2. E!Erases(key)[1] = buffer.cursor /\ E!Erases(key)[2] = buffer.cursor
  OBVIOUS
<1>3. E!Cut(buffer.cursor, buffer.cursor) = buffer.content
  <2>1. E!Cut(buffer.cursor, buffer.cursor)
          = SubSeq(buffer.content, 1, buffer.cursor)
              \o SubSeq(buffer.content, buffer.cursor + 1, Len(buffer.content))
    BY LinkedText
  <2> QED BY <1>1, <2>1, NothingCut
<1> QED BY <1>2, <1>3, Leaves

LEMMA PutsIn ==
  ASSUME EditorOK, NEW key, NEW char \in Characters, NEW b, b = Insert(buffer, <<char>>),
         E!Targets(key) = {}, E!Turns(key) = EditedLine, E!Inserts(key) = <<char>>,
         ~E!Enters(key), ~E!Cancels(key)
  PROVE  KeyEffect(key, Edited(b))
<1> DEFINE e == Edited(b)
<1>1. /\ e.buffer = b /\ e.state = "Continue" /\ SameLines(e)
      /\ ~e.redraw => b = buffer
  BY EditedFields
<1> HIDE DEF e
<1>2. buffer \in Buffers
  BY DEF EditorOK
<1>3. /\ b \in Buffers /\ b.cursor = buffer.cursor + 1
      /\ b.content = SubSeq(buffer.content, 1, buffer.cursor) \o <<char>>
                       \o SubSeq(buffer.content, buffer.cursor + 1, Len(buffer.content))
  BY <1>2, InsertPart
<1>4. b.content = E!Before \o E!Inserts(key) \o E!After
  BY <1>3, LinkedText
<1>5. Sane(e)
  BY <1>1, <1>3, SaneIfSame
<1>6. E!Inserts(key) # <<>>
  OBVIOUS
<1>7. EditedBy(key, e)
  BY <1>1, <1>3, <1>4, <1>6 DEF EditedBy
<1>8. e.state = StateOf(key)
  BY <1>1 DEF StateOf
<1> QED BY <1>1, <1>5, <1>7, <1>8 DEF KeyEffect, e

LEMMA TurnsTo ==
  ASSUME EditorOK, NEW key, NEW e, NEW line, TurnedTo(e, line), E!Turns(key) = line,
         line # EditedLine, ~E!Enters(key), ~E!Cancels(key)
  PROVE  KeyEffect(key, e)
  BY DEF TurnedTo, TurnedBy, KeyEffect, StateOf

LEMMA PreviousEffect ==
  ASSUME EditorOK, NEW key,
         E!Turns(key) = IF EditedLine > 1 THEN EditedLine - 1 ELSE EditedLine,
         E!Targets(key) = {}, E!Inserts(key) = <<>>,
         E!Erases(key) = <<buffer.cursor, buffer.cursor>>,
         ~E!Enters(key), ~E!Cancels(key)
  PROVE  KeyEffect(key, HistoryPrevious)
<1>1. EditedLine \in Nat
  BY LinesAre
<1>2. CASE EditedLine > 1
  <2>1. TurnedTo(HistoryPrevious, EditedLine - 1)
    BY <1>2, PreviousTurns
  <2>2. EditedLine - 1 # EditedLine
    BY <1>1
  <2> QED BY <1>2, <2>1, <2>2, TurnsTo
<1>3. CASE ~(EditedLine > 1)
  <2>1. HistoryPrevious = Ignored
    BY <1>3, PreviousTurns
  <2>2. StateOf(key) = "Continue"
    BY DEF StateOf
  <2>3. /\ Ignored.buffer = buffer /\ Ignored.state = "Continue" /\ SameLines(Ignored)
    BY IgnoredFields
  <2> QED BY <1>3, <2>1, <2>2, <2>3, LeavesAll
<1> QED BY <1>2, <1>3

LEMMA NextEffect ==
  ASSUME EditorOK, NEW key,
         E!Turns(key) = IF EditedLine < Len(AllLines) THEN EditedLine + 1 ELSE EditedLine,
         E!Targets(key) = {}, E!Inserts(key) = <<>>,
         E!Erases(key) = <<buffer.cursor, buffer.cursor>>,
         ~E!Enters(key), ~E!Cancels(key)
  PROVE  KeyEffect(key, HistoryNext)
<1>1. EditedLine \in Nat
  BY LinesAre
<1>2. CASE EditedLine < Len(AllLines)
  <2>1. TurnedTo(HistoryNext, EditedLine + 1)
    BY <1>2, NextTurns
  <2>2. EditedLine + 1 # EditedLine
    BY <1>1
  <2> QED BY <1>2, <2>1, <2>2, TurnsTo
<1>3. CASE ~(EditedLine < Len(AllLines))
  <2>1. HistoryNext = Ignored
    BY <1>3, NextTurns
  <2>2. StateOf(key) = "Continue"
    BY DEF StateOf
  <2>3. /\ Ignored.buffer = buffer /\ Ignored.state = "Continue" /\ SameLines(Ignored)
    BY IgnoredFields
  <2> QED BY <1>3, <2>1, <2>2, <2>3, LeavesAll
<1> QED BY <1>2, <1>3

(* The operations of the buffer, one for each key of the cursor. *)
Continues(key) == ~E!Enters(key) /\ ~E!Cancels(key)

LEMMA Position ==
  ASSUME EditorOK
  PROVE  /\ buffer \in Buffers /\ buffer.content \in Texts
         /\ buffer.cursor \in 0 .. Len(buffer.content) /\ Len(buffer.content) \in Nat
         /\ buffer = Buffer(buffer.content, buffer.cursor)
         /\ E!Size = Len(buffer.content)
  BY BufferParts, LinkedText DEF EditorOK

LEMMA MovesLeft ==
  ASSUME EditorOK, NEW key, Continues(key),
         E!Targets(key) = {E!Max({0, buffer.cursor - 1})}
  PROVE  KeyEffect(key, Edited(MoveLeft(buffer)))
<1> DEFINE pos == buffer.cursor
           b == MoveLeft(buffer)
<1>1. pos \in 0 .. Len(buffer.content) /\ Len(buffer.content) \in Nat /\ buffer.content \in Texts
  BY Position
<1>2. E!Max({0, pos - 1}) = IF 0 < pos - 1 THEN pos - 1 ELSE 0
  <2>1. pos - 1 \in Int
    BY <1>1
  <2>2. Max({0, pos - 1}) = IF 0 < pos - 1 THEN pos - 1 ELSE 0
    BY <2>1, MaxOfTwo
  <2> QED BY <2>2, LinkedExtremes
<1>3. CASE pos = 0
  <2>1. b = buffer
    BY <1>3 DEF MoveLeft
  <2>2. E!Targets(key) = {pos}
    BY <1>2, <1>3
  <2> QED BY <2>1, <2>2, MovesTo, Position DEF Continues
<1>4. CASE pos # 0
  <2>1. b = Buffer(buffer.content, pos - 1)
    BY <1>4 DEF MoveLeft, MoveTo
  <2>2. pos - 1 \in 0 .. Len(buffer.content)
    BY <1>1, <1>4
  <2>3. E!Max({0, pos - 1}) = pos - 1
    BY <1>1, <1>2, <1>4
  <2>4. b \in Buffers /\ b.content = buffer.content /\ b.cursor = pos - 1
    BY <2>1, <2>2, <1>1, BufferMade
  <2> QED BY <2>3, <2>4, MovesTo DEF Continues
<1> QED BY <1>3, <1>4

LEMMA MovesRight ==
  ASSUME EditorOK, NEW key, Continues(key),
         E!Targets(key) = {E!Min({E!Size, buffer.cursor + 1})}
  PROVE  KeyEffect(key, Edited(MoveRight(buffer)))
<1> DEFINE pos == buffer.cursor
           size == Len(buffer.content)
           b == MoveRight(buffer)
<1>1. pos \in 0 .. size /\ size \in Nat /\ buffer.content \in Texts /\ E!Size = size
  BY Position
<1>2. E!Min({size, pos + 1}) = IF pos + 1 < size THEN pos + 1 ELSE size
  <2>1. pos + 1 \in Int /\ size \in Int
    BY <1>1
  <2>2. Min({size, pos + 1}) = IF pos + 1 < size THEN pos + 1 ELSE size
    BY <2>1, MinOfTwo
  <2> QED BY <2>2, LinkedExtremes
<1>3. CASE pos >= size
  <2>1. b = buffer
    BY <1>3 DEF MoveRight
  <2>2. E!Min({size, pos + 1}) = pos
    BY <1>1, <1>2, <1>3
  <2>3. E!Targets(key) = {pos}
    BY <2>2, <1>1
  <2> QED BY <2>1, <2>3, MovesTo, Position DEF Continues
<1>4. CASE ~(pos >= size)
  <2>1. b = Buffer(buffer.content, pos + 1)
    BY <1>4 DEF MoveRight, MoveTo
  <2>2. pos + 1 \in 0 .. size
    BY <1>1, <1>4
  <2>3. E!Min({size, pos + 1}) = pos + 1
    BY <1>1, <1>2, <1>4
  <2>4. b \in Buffers /\ b.content = buffer.content /\ b.cursor = pos + 1
    BY <2>1, <2>2, <1>1, BufferMade
  <2> QED BY <2>3, <2>4, <1>1, MovesTo DEF Continues
<1> QED BY <1>3, <1>4

LEMMA MovesToBegin ==
  ASSUME EditorOK, NEW key, Continues(key), E!Targets(key) = {E!BeginOf(buffer.cursor)}
  PROVE  KeyEffect(key, Edited(MoveToLineBeginning(buffer)))
<1> DEFINE pos == buffer.cursor
           text == buffer.content
           b == MoveToLineBeginning(buffer)
<1>1. pos \in 0 .. Len(text) /\ Len(text) \in Nat /\ text \in Texts
  BY Position
<1>2. E!BeginOf(pos) = LastLineFeed(text, pos)
  <2>1. E!BeginOf(pos) = Begins(text, pos)
    BY LinkedLines
  <2> QED BY <1>1, <2>1, BeginsIs
<1>3. LastLineFeed(text, pos) \in 0 .. pos
  BY <1>1, LastLineFeedIs
<1>4. LastLineFeed(text, pos) \in 0 .. Len(text)
  BY <1>1, <1>3
<1>5. b = Buffer(text, LastLineFeed(text, pos))
  BY DEF MoveToLineBeginning, MoveTo
<1>6. b \in Buffers /\ b.content = text /\ b.cursor = LastLineFeed(text, pos)
  BY <1>1, <1>4, <1>5, BufferMade
<1> QED BY <1>2, <1>6, MovesTo DEF Continues

LEMMA MovesToEnd ==
  ASSUME EditorOK, NEW key, Continues(key), E!Targets(key) = {E!EndOf(buffer.cursor)}
  PROVE  KeyEffect(key, Edited(MoveToLineEnd(buffer)))
<1> DEFINE pos == buffer.cursor
           text == buffer.content
           b == MoveToLineEnd(buffer)
<1>1. pos \in 0 .. Len(text) /\ Len(text) \in Nat /\ text \in Texts
  BY Position
<1>2. E!EndOf(pos) = NextLineFeed(text, pos) - 1
  <2>1. E!EndOf(pos) = Ends(text, pos)
    BY LinkedLines
  <2> QED BY <1>1, <2>1, EndsIs
<1>3. pos \in 0 .. Len(text) + 1
  BY <1>1
<1>4. NextLineFeed(text, pos) \in 1 .. Len(text) + 1
  BY <1>1, <1>3, NextLineFeedIs
<1>5. NextLineFeed(text, pos) - 1 \in 0 .. Len(text)
  BY <1>1, <1>4
<1>6. b = Buffer(text, NextLineFeed(text, pos) - 1)
  BY DEF MoveToLineEnd, MoveTo
<1>7. b \in Buffers /\ b.content = text /\ b.cursor = NextLineFeed(text, pos) - 1
  BY <1>1, <1>5, <1>6, BufferMade
<1> QED BY <1>2, <1>7, MovesTo DEF Continues

LEMMA MovesToEnds ==
  ASSUME EditorOK, NEW key, Continues(key)
  PROVE  /\ E!Targets(key) = {0} => KeyEffect(key, Edited(MoveToBeginning(buffer)))
         /\ E!Targets(key) = {E!Size} => KeyEffect(key, Edited(MoveToEnd(buffer)))
<1> DEFINE text == buffer.content
<1>1. Len(text) \in Nat /\ text \in Texts /\ E!Size = Len(text)
  BY Position
<1>2. 0 \in 0 .. Len(text) /\ Len(text) \in 0 .. Len(text)
  BY <1>1
<1>3. MoveToBeginning(buffer) = Buffer(text, 0) /\ MoveToEnd(buffer) = Buffer(text, Len(text))
  BY DEF MoveToBeginning, MoveToEnd, MoveTo
<1>4. /\ MoveToBeginning(buffer) \in Buffers /\ MoveToBeginning(buffer).content = text
      /\ MoveToBeginning(buffer).cursor = 0
  BY <1>1, <1>2, <1>3, BufferMade
<1>5. /\ MoveToEnd(buffer) \in Buffers /\ MoveToEnd(buffer).content = text
      /\ MoveToEnd(buffer).cursor = Len(text)
  BY <1>1, <1>2, <1>3, BufferMade
<1>6. ASSUME E!Targets(key) = {0} PROVE KeyEffect(key, Edited(MoveToBeginning(buffer)))
  BY <1>4, <1>6, MovesTo DEF Continues
<1>7. ASSUME E!Targets(key) = {E!Size} PROVE KeyEffect(key, Edited(MoveToEnd(buffer)))
  BY <1>1, <1>5, <1>7, MovesTo DEF Continues
<1> QED BY <1>6, <1>7

LEMMA MovesByWords ==
  ASSUME EditorOK, NEW key, Continues(key)
  PROVE  /\ E!Targets(key) = {E!WordLeft} => KeyEffect(key, Edited(SkipWordLeft(buffer)))
         /\ E!Targets(key) = {E!WordRight} => KeyEffect(key, Edited(SkipWordRight(buffer)))
<1>1. buffer \in Buffers
  BY Position
<1>2. /\ SkipWordLeft(buffer) \in Buffers /\ SkipWordLeft(buffer).content = buffer.content
      /\ SkipWordLeft(buffer).cursor = E!WordLeft
  BY <1>1, SkipWordLeftPlace, LinkedWords
<1>3. /\ SkipWordRight(buffer) \in Buffers /\ SkipWordRight(buffer).content = buffer.content
      /\ SkipWordRight(buffer).cursor = E!WordRight
  BY <1>1, SkipWordRightPlace, LinkedWords
<1>4. ASSUME E!Targets(key) = {E!WordLeft} PROVE KeyEffect(key, Edited(SkipWordLeft(buffer)))
  BY <1>2, <1>4, MovesTo DEF Continues
<1>5. ASSUME E!Targets(key) = {E!WordRight} PROVE KeyEffect(key, Edited(SkipWordRight(buffer)))
  BY <1>3, <1>5, MovesTo DEF Continues
<1> QED BY <1>4, <1>5

LEMMA MovesByLines ==
  ASSUME EditorOK, NEW key, Continues(key)
  PROVE  /\ E!Targets(key) = E!UpTargets => KeyEffect(key, Edited(MoveUp(buffer)))
         /\ E!Targets(key) = E!DownTargets => KeyEffect(key, Edited(MoveDown(buffer)))
<1>1. buffer \in Buffers
  BY Position
<1>2. /\ MoveUp(buffer) \in Buffers /\ MoveUp(buffer).content = buffer.content
      /\ MoveUp(buffer).cursor \in E!UpTargets
  BY <1>1, MoveUpPlace, LinkedPlaces
<1>3. /\ MoveDown(buffer) \in Buffers /\ MoveDown(buffer).content = buffer.content
      /\ MoveDown(buffer).cursor \in E!DownTargets
  BY <1>1, MoveDownPlace, LinkedPlaces
<1>4. ASSUME E!Targets(key) = E!UpTargets PROVE KeyEffect(key, Edited(MoveUp(buffer)))
  BY <1>2, <1>4, MovesTo DEF Continues
<1>5. ASSUME E!Targets(key) = E!DownTargets PROVE KeyEffect(key, Edited(MoveDown(buffer)))
  BY <1>3, <1>5, MovesTo DEF Continues
<1> QED BY <1>4, <1>5

(* The operations of the buffer that erase. *)
Erasing(key) ==
  /\ Continues(key)
  /\ E!Targets(key) = {} /\ E!Turns(key) = EditedLine /\ E!Inserts(key) = <<>>

LEMMA SpansCut ==
  ASSUME EditorOK, NEW key, Erasing(key), NEW to \in 0 .. Len(buffer.content),
         NEW from \in 0 .. to, E!Erases(key) = <<from, to>>
  PROVE  KeyEffect(key, Edited(Without(buffer, from, to)))
  BY CutsOut DEF Erasing, Continues

LEMMA NothingErased ==
  ASSUME EditorOK, NEW key, Erasing(key), E!Erases(key) = <<buffer.cursor, buffer.cursor>>
  PROVE  KeyEffect(key, Edited(buffer)) /\ KeyEffect(key, Ignored)
<1>1. Edited(buffer).buffer = buffer /\ Edited(buffer).state = "Continue" /\ SameLines(Edited(buffer))
  BY EditedFields
<1>2. /\ Ignored.buffer = buffer /\ Ignored.state = "Continue" /\ SameLines(Ignored)
  BY IgnoredFields
<1>3. StateOf(key) = "Continue"
  BY DEF StateOf, Erasing, Continues
<1>4. E!Targets(key) = {} /\ E!Turns(key) = EditedLine /\ E!Inserts(key) = <<>>
  BY DEF Erasing
<1>5. KeyEffect(key, Edited(buffer))
  BY <1>1, <1>3, <1>4, LeavesAll
<1>6. KeyEffect(key, Ignored)
  BY <1>2, <1>3, <1>4, LeavesAll
<1> QED BY <1>5, <1>6

LEMMA ErasesLeft ==
  ASSUME EditorOK, NEW key, Erasing(key),
         E!Erases(key) = <<E!Max({0, buffer.cursor - 1}), buffer.cursor>>
  PROVE  KeyEffect(key, Edited(DeleteLeft(buffer)))
<1> DEFINE pos == buffer.cursor
<1>1. pos \in 0 .. Len(buffer.content) /\ Len(buffer.content) \in Nat
  BY Position
<1>2. E!Max({0, pos - 1}) = IF 0 < pos - 1 THEN pos - 1 ELSE 0
  <2>1. pos - 1 \in Int
    BY <1>1
  <2>2. Max({0, pos - 1}) = IF 0 < pos - 1 THEN pos - 1 ELSE 0
    BY <2>1, MaxOfTwo
  <2> QED BY <2>2, LinkedExtremes
<1>3. CASE pos = 0
  <2>1. DeleteLeft(buffer) = buffer
    BY <1>3 DEF DeleteLeft
  <2>2. E!Max({0, pos - 1}) = pos
    BY <1>2, <1>3
  <2> QED BY <2>1, <2>2, NothingErased
<1>4. CASE pos # 0
  <2>1. DeleteLeft(buffer) = Without(buffer, pos - 1, pos)
    BY <1>4 DEF DeleteLeft
  <2>2. E!Max({0, pos - 1}) = pos - 1 /\ pos - 1 \in 0 .. pos
    BY <1>1, <1>2, <1>4
  <2> QED BY <1>1, <2>1, <2>2, SpansCut
<1> QED BY <1>3, <1>4

LEMMA ErasesRight ==
  ASSUME EditorOK, NEW key, Erasing(key),
         E!Erases(key) = <<buffer.cursor, E!Min({E!Size, buffer.cursor + 1})>>
  PROVE  KeyEffect(key, Edited(DeleteRight(buffer)))
<1> DEFINE pos == buffer.cursor
           size == Len(buffer.content)
<1>1. pos \in 0 .. size /\ size \in Nat /\ E!Size = size
  BY Position
<1>2. E!Min({size, pos + 1}) = IF pos + 1 < size THEN pos + 1 ELSE size
  <2>1. pos + 1 \in Int /\ size \in Int
    BY <1>1
  <2>2. Min({size, pos + 1}) = IF pos + 1 < size THEN pos + 1 ELSE size
    BY <2>1, MinOfTwo
  <2> QED BY <2>2, LinkedExtremes
<1>3. CASE pos >= size
  <2>1. DeleteRight(buffer) = buffer
    BY <1>3 DEF DeleteRight
  <2>2. E!Min({size, pos + 1}) = pos
    BY <1>1, <1>2, <1>3
  <2>3. E!Erases(key) = <<pos, pos>>
    BY <1>1, <2>2
  <2> QED BY <2>1, <2>3, NothingErased
<1>4. CASE ~(pos >= size)
  <2>1. DeleteRight(buffer) = Without(buffer, pos, pos + 1)
    BY <1>4 DEF DeleteRight
  <2>2. E!Min({size, pos + 1}) = pos + 1 /\ pos + 1 \in 0 .. size /\ pos \in 0 .. pos + 1
    BY <1>1, <1>2, <1>4
  <2>3. E!Erases(key) = <<pos, pos + 1>>
    BY <1>1, <2>2
  <2> QED BY <2>1, <2>2, <2>3, SpansCut
<1> QED BY <1>3, <1>4

LEMMA ErasesWords ==
  ASSUME EditorOK, NEW key, Erasing(key)
  PROVE  /\ E!Erases(key) = <<E!WordLeft, buffer.cursor>>
              => KeyEffect(key, Edited(DeleteWordLeft(buffer)))
         /\ E!Erases(key) = <<buffer.cursor, E!WordRight>>
              => KeyEffect(key, Edited(DeleteWordRight(buffer)))
<1> DEFINE pos == buffer.cursor
           left == SkipWordLeft(buffer).cursor
           right == SkipWordRight(buffer).cursor
<1>1. buffer \in Buffers /\ pos \in 0 .. Len(buffer.content) /\ Len(buffer.content) \in Nat
  BY Position
<1>2. left = E!WordLeft /\ left \in 0 .. pos
  BY <1>1, SkipWordLeftPlace, LinkedWords
<1>3. right = E!WordRight /\ right \in pos .. Len(buffer.content)
  BY <1>1, SkipWordRightPlace, LinkedWords
<1>4. DeleteWordLeft(buffer) = Without(buffer, left, pos)
  BY DEF DeleteWordLeft
<1>5. DeleteWordRight(buffer) = Without(buffer, pos, right)
  BY DEF DeleteWordRight
<1> HIDE DEF left, right
<1>6. right \in 0 .. Len(buffer.content) /\ pos \in 0 .. right
  BY <1>1, <1>3
<1>7. ASSUME E!Erases(key) = <<E!WordLeft, pos>>
      PROVE  KeyEffect(key, Edited(DeleteWordLeft(buffer)))
  BY <1>1, <1>2, <1>4, <1>7, SpansCut
<1>8. ASSUME E!Erases(key) = <<pos, E!WordRight>>
      PROVE  KeyEffect(key, Edited(DeleteWordRight(buffer)))
  BY <1>3, <1>5, <1>6, <1>8, SpansCut
<1> QED BY <1>7, <1>8

(* The keys in groups, as process_input passes them on. *)
LEMMA PlainKeyEffect ==
  ASSUME EditorOK, NEW k, k # "UnicodeChar", k # "Enter"
  PROVE  KeyEffect(KeyOf(k, {}, 0), ProcessKey(k))
<1> DEFINE key == KeyOf(k, {}, 0)
<1>1. Continues(key)
  BY PlainKeys DEF Continues
<1>2. E!Inserts(key) = <<>>
  BY PlainKeys
<1>3. k \notin {"Left", "Right", "Home", "End", "PageUp", "PageDown"} => E!Targets(key) = {}
  BY PlainKeys
<1>4. k \notin {"Backspace", "Delete"} => E!Erases(key) = <<buffer.cursor, buffer.cursor>>
  BY PlainKeys
<1>5. k \notin {"Up", "Down"} => E!Turns(key) = EditedLine
  BY PlainKeys
<1>6. CASE k = "Left"
  <2>1. E!Targets(key) = {E!Max({0, buffer.cursor - 1})}
    BY <1>6, PlainKeys
  <2>2. ProcessKey(k) = Edited(MoveLeft(buffer))
    BY <1>6 DEF ProcessKey
  <2> QED BY <1>1, <2>1, <2>2, MovesLeft
<1>7. CASE k = "Right"
  <2>1. E!Targets(key) = {E!Min({E!Size, buffer.cursor + 1})}
    BY <1>7, PlainKeys
  <2>2. ProcessKey(k) = Edited(MoveRight(buffer))
    BY <1>7 DEF ProcessKey
  <2> QED BY <1>1, <2>1, <2>2, MovesRight
<1>8. CASE k = "Home"
  <2>1. E!Targets(key) = {E!BeginOf(buffer.cursor)}
    BY <1>8, PlainKeys
  <2>2. ProcessKey(k) = Edited(MoveToLineBeginning(buffer))
    BY <1>8 DEF ProcessKey
  <2> QED BY <1>1, <2>1, <2>2, MovesToBegin
<1>9. CASE k = "End"
  <2>1. E!Targets(key) = {E!EndOf(buffer.cursor)}
    BY <1>9, PlainKeys
  <2>2. ProcessKey(k) = Edited(MoveToLineEnd(buffer))
    BY <1>9 DEF ProcessKey
  <2> QED BY <1>1, <2>1, <2>2, MovesToEnd
<1>10. CASE k = "PageUp"
  <2>1. E!Targets(key) = {0}
    BY <1>10, PlainKeys
  <2>2. ProcessKey(k) = Edited(MoveToBeginning(buffer))
    BY <1>10 DEF ProcessKey
  <2> QED BY <1>1, <2>1, <2>2, MovesToEnds
<1>11. CASE k = "PageDown"
  <2>1. E!Targets(key) = {E!Size}
    BY <1>11, PlainKeys
  <2>2. ProcessKey(k) = Edited(MoveToEnd(buffer))
    BY <1>11 DEF ProcessKey
  <2> QED BY <1>1, <2>1, <2>2, MovesToEnds
<1>12. CASE k = "Backspace"
  <2>1. E!Erases(key) = <<E!Max({0, buffer.cursor - 1}), buffer.cursor>>
    BY <1>12, PlainKeys
  <2>2. ProcessKey(k) = Edited(DeleteLeft(buffer))
    BY <1>12 DEF ProcessKey
  <2>3. Erasing(key)
    BY <1>1, <1>2, <1>3, <1>5, <1>12 DEF Erasing
  <2> QED BY <2>1, <2>2, <2>3, ErasesLeft
<1>13. CASE k = "Delete"
  <2>1. E!Erases(key) = <<buffer.cursor, E!Min({E!Size, buffer.cursor + 1})>>
    BY <1>13, PlainKeys
  <2>2. ProcessKey(k) = Edited(DeleteRight(buffer))
    BY <1>13 DEF ProcessKey
  <2>3. Erasing(key)
    BY <1>1, <1>2, <1>3, <1>5, <1>13 DEF Erasing
  <2> QED BY <2>1, <2>2, <2>3, ErasesRight
<1>14. CASE k = "Up"
  <2>1. E!Turns(key) = IF EditedLine > 1 THEN EditedLine - 1 ELSE EditedLine
    BY <1>14, PlainKeys
  <2>2. ProcessKey(k) = HistoryPrevious
    BY <1>14 DEF ProcessKey
  <2>3. E!Targets(key) = {}
    BY <1>3, <1>14
  <2>4. E!Erases(key) = <<buffer.cursor, buffer.cursor>>
    BY <1>4, <1>14
  <2> QED BY <1>1, <1>2, <2>1, <2>2, <2>3, <2>4, PreviousEffect DEF Continues
<1>15. CASE k = "Down"
  <2>1. E!Turns(key) = IF EditedLine < Len(AllLines) THEN EditedLine + 1 ELSE EditedLine
    BY <1>15, PlainKeys
  <2>2. ProcessKey(k) = HistoryNext
    BY <1>15 DEF ProcessKey
  <2>3. E!Targets(key) = {}
    BY <1>3, <1>15
  <2>4. E!Erases(key) = <<buffer.cursor, buffer.cursor>>
    BY <1>4, <1>15
  <2> QED BY <1>1, <1>2, <2>1, <2>2, <2>3, <2>4, NextEffect DEF Continues
<1>16. CASE k \notin {"Left", "Right", "Home", "End", "PageUp", "PageDown", "Backspace", "Delete", "Up", "Down"}
  <2>1. ProcessKey(k) = Ignored
    BY <1>16 DEF ProcessKey
  <2>2. Erasing(key)
    BY <1>1, <1>2, <1>3, <1>5, <1>16 DEF Erasing
  <2>3. E!Erases(key) = <<buffer.cursor, buffer.cursor>>
    BY <1>4, <1>16
  <2> QED BY <2>1, <2>2, <2>3, NothingErased
<1> QED BY <1>6, <1>7, <1>8, <1>9, <1>10, <1>11, <1>12, <1>13, <1>14, <1>15, <1>16

LEMMA ModifiedKeyEffect ==
  ASSUME EditorOK, IsMultiline, NEW k, k # "UnicodeChar", NEW m, m = {"Alt"} \/ m = {"Ctrl"}
  PROVE  KeyEffect(KeyOf(k, m, 0), ProcessAltKey(k))
<1> DEFINE key == KeyOf(k, m, 0)
<1>1. Continues(key)
  BY ModifiedKeys DEF Continues
<1>2. /\ k = "Enter" => E!Inserts(key) = <<E!NewLine>>
      /\ k # "Enter" => E!Inserts(key) = <<>>
  BY ModifiedKeys
<1>3. k \notin {"Home", "End", "Left", "Right", "Up", "Down"} => E!Targets(key) = {}
  BY ModifiedKeys
<1>4. k \notin {"Backspace", "Delete"} => E!Erases(key) = <<buffer.cursor, buffer.cursor>>
  BY ModifiedKeys
<1>5. E!Turns(key) = EditedLine
  BY ModifiedKeys
<1>6. CASE k = "Home"
  <2>1. E!Targets(key) = {E!BeginOf(buffer.cursor)}
    BY <1>6, ModifiedKeys
  <2>2. ProcessAltKey(k) = Edited(MoveToLineBeginning(buffer))
    BY <1>6 DEF ProcessAltKey
  <2> QED BY <1>1, <2>1, <2>2, MovesToBegin
<1>7. CASE k = "End"
  <2>1. E!Targets(key) = {E!EndOf(buffer.cursor)}
    BY <1>7, ModifiedKeys
  <2>2. ProcessAltKey(k) = Edited(MoveToLineEnd(buffer))
    BY <1>7 DEF ProcessAltKey
  <2> QED BY <1>1, <2>1, <2>2, MovesToEnd
<1>8. CASE k = "Left"
  <2>1. E!Targets(key) = {E!WordLeft}
    BY <1>8, ModifiedKeys
  <2>2. ProcessAltKey(k) = Edited(SkipWordLeft(buffer))
    BY <1>8 DEF ProcessAltKey
  <2> QED BY <1>1, <2>1, <2>2, MovesByWords
<1>9. CASE k = "Right"
  <2>1. E!Targets(key) = {E!WordRight}
    BY <1>9, ModifiedKeys
  <2>2. ProcessAltKey(k) = Edited(SkipWordRight(buffer))
    BY <1>9 DEF ProcessAltKey
  <2> QED BY <1>1, <2>1, <2>2, MovesByWords
<1>10. CASE k = "Up"
  <2>1. E!Targets(key) = E!UpTargets
    BY <1>10, ModifiedKeys
  <2>2. ProcessAltKey(k) = Edited(MoveUp(buffer))
    BY <1>10 DEF ProcessAltKey
  <2> QED BY <1>1, <2>1, <2>2, MovesByLines
<1>11. CASE k = "Down"
  <2>1. E!Targets(key) = E!DownTargets
    BY <1>11, ModifiedKeys
  <2>2. ProcessAltKey(k) = Edited(MoveDown(buffer))
    BY <1>11 DEF ProcessAltKey
  <2> QED BY <1>1, <2>1, <2>2, MovesByLines
<1>12. CASE k = "Backspace"
  <2>1. E!Erases(key) = <<E!WordLeft, buffer.cursor>>
    BY <1>12, ModifiedKeys
  <2>2. ProcessAltKey(k) = Edited(DeleteWordLeft(buffer))
    BY <1>12 DEF ProcessAltKey
  <2>3. Erasing(key)
    BY <1>1, <1>2, <1>3, <1>5, <1>12 DEF Erasing
  <2> QED BY <2>1, <2>2, <2>3, ErasesWords
<1>13. CASE k = "Delete"
  <2>1. E!Erases(key) = <<buffer.cursor, E!WordRight>>
    BY <1>13, ModifiedKeys
  <2>2. ProcessAltKey(k) = Edited(DeleteWordRight(buffer))
    BY <1>13 DEF ProcessAltKey
  <2>3. Erasing(key)
    BY <1>1, <1>2, <1>3, <1>5, <1>13 DEF Erasing
  <2> QED BY <2>1, <2>2, <2>3, ErasesWords
<1>14. CASE k = "Enter"
  <2>1. E!Inserts(key) = <<LineFeed>> /\ E!Targets(key) = {}
    BY <1>2, <1>3, <1>14 DEF E!NewLine, LineFeed
  <2>2. ProcessAltKey(k) = Edited(Insert(buffer, <<LineFeed>>))
    BY <1>14 DEF ProcessAltKey
  <2>3. LineFeed \in Characters
    BY DEF Characters
  <2> QED BY <1>1, <1>5, <2>1, <2>2, <2>3, PutsIn DEF Continues
<1>15. CASE k \notin {"Home", "End", "Left", "Right", "Up", "Down", "Backspace", "Delete", "Enter"}
  <2>1. ProcessAltKey(k) = Ignored
    BY <1>15 DEF ProcessAltKey
  <2>2. Erasing(key)
    BY <1>1, <1>2, <1>3, <1>5, <1>15 DEF Erasing
  <2>3. E!Erases(key) = <<buffer.cursor, buffer.cursor>>
    BY <1>4, <1>15
  <2> QED BY <2>1, <2>2, <2>3, NothingErased
<1> QED BY <1>6, <1>7, <1>8, <1>9, <1>10, <1>11, <1>12, <1>13, <1>14, <1>15

LEMMA AltCharEffect ==
  ASSUME EditorOK, NEW u
  PROVE  KeyEffect(KeyOf("UnicodeChar", {"Alt"}, u), ProcessAltChar(u))
<1> DEFINE key == KeyOf("UnicodeChar", {"Alt"}, u)
<1>1. Continues(key)
  BY AltChars DEF Continues
<1>2. E!Inserts(key) = <<>> /\ E!Turns(key) = EditedLine
  BY AltChars
<1>3. u # 98 /\ u # 102 => E!Targets(key) = {}
  BY AltChars
<1>4. u # 100 => E!Erases(key) = <<buffer.cursor, buffer.cursor>>
  BY AltChars
<1>5. CASE u = 98
  <2>1. E!Targets(key) = {E!WordLeft}
    BY <1>5, AltChars
  <2>2. ProcessAltChar(u) = Edited(SkipWordLeft(buffer))
    BY <1>5 DEF ProcessAltChar
  <2> QED BY <1>1, <2>1, <2>2, MovesByWords
<1>6. CASE u = 102
  <2>1. E!Targets(key) = {E!WordRight}
    BY <1>6, AltChars
  <2>2. ProcessAltChar(u) = Edited(SkipWordRight(buffer))
    BY <1>6 DEF ProcessAltChar
  <2> QED BY <1>1, <2>1, <2>2, MovesByWords
<1>7. CASE u = 100
  <2>1. E!Erases(key) = <<buffer.cursor, E!WordRight>>
    BY <1>7, AltChars
  <2>2. ProcessAltChar(u) = Edited(DeleteWordRight(buffer))
    BY <1>7 DEF ProcessAltChar
  <2>3. Erasing(key)
    BY <1>1, <1>2, <1>3, <1>7 DEF Erasing
  <2> QED BY <2>1, <2>2, <2>3, ErasesWords
<1>8. CASE u # 98 /\ u # 102 /\ u # 100
  <2>1. ProcessAltChar(u) = Ignored
    BY <1>8 DEF ProcessAltChar
  <2>2. Erasing(key)
    BY <1>1, <1>2, <1>3, <1>8 DEF Erasing
  <2>3. E!Erases(key) = <<buffer.cursor, buffer.cursor>>
    BY <1>4, <1>8
  <2> QED BY <2>1, <2>2, <2>3, NothingErased
<1> QED BY <1>5, <1>6, <1>7, <1>8

LEMMA StopEffect ==
  ASSUME EditorOK, NEW key, NEW why, why = StateOf(key),
         E!Targets(key) = {}, E!Turns(key) = EditedLine, E!Inserts(key) = <<>>,
         E!Cut(E!Erases(key)[1], E!Erases(key)[2]) = buffer.content,
         E!Erases(key)[1] = buffer.cursor
  PROVE  KeyEffect(key, Stopped(why))
<1>1. /\ Stopped(why).buffer = buffer /\ Stopped(why).state = why
      /\ SameLines(Stopped(why))
  BY StoppedFields
<1> QED BY <1>1, Leaves

LEMMA NothingToCut ==
  ASSUME EditorOK
  PROVE  E!Cut(buffer.cursor, buffer.cursor) = buffer.content
<1>1. E!Cut(buffer.cursor, buffer.cursor)
        = SubSeq(buffer.content, 1, buffer.cursor)
            \o SubSeq(buffer.content, buffer.cursor + 1, Len(buffer.content))
  BY LinkedText
<1> QED BY <1>1, Position, NothingCut

LEMMA CtrlCharEffect ==
  ASSUME EditorOK, NEW u
  PROVE  KeyEffect(KeyOf("UnicodeChar", {"Ctrl"}, u), ProcessCtrlChar(u))
<1> DEFINE key == KeyOf("UnicodeChar", {"Ctrl"}, u)
           pos == buffer.cursor
<1>1. ~E!Enters(key) /\ E!Inserts(key) = <<>>
  BY CtrlChars
<1>2. E!Cancels(key) <=> (u = 99 \/ (u = 100 /\ E!Size = 0))
  BY CtrlChars
<1>3. u \notin {98, 102, 97, 101} => E!Targets(key) = {}
  BY CtrlChars
<1>4. u # 100 => E!Erases(key) = <<pos, pos>>
  BY CtrlChars
<1>5. u # 112 /\ u # 110 => E!Turns(key) = EditedLine
  BY CtrlChars
<1>6. u # 99 /\ u # 100 => Continues(key)
  BY <1>1, <1>2 DEF Continues
<1>7. u = 100 => E!Erases(key) = <<pos, E!Min({E!Size, pos + 1})>>
  BY CtrlChars
<1>8. CASE u = 98
  <2>1. E!Targets(key) = {E!Max({0, pos - 1})}
    BY <1>8, CtrlChars
  <2>2. ProcessCtrlChar(u) = Edited(MoveLeft(buffer))
    BY <1>8 DEF ProcessCtrlChar
  <2> QED BY <1>6, <1>8, <2>1, <2>2, MovesLeft
<1>9. CASE u = 102
  <2>1. E!Targets(key) = {E!Min({E!Size, pos + 1})}
    BY <1>9, CtrlChars
  <2>2. ProcessCtrlChar(u) = Edited(MoveRight(buffer))
    BY <1>9 DEF ProcessCtrlChar
  <2> QED BY <1>6, <1>9, <2>1, <2>2, MovesRight
<1>10. CASE u = 97
  <2>1. E!Targets(key) = {E!BeginOf(pos)}
    BY <1>10, CtrlChars
  <2>2. ProcessCtrlChar(u) = Edited(MoveToLineBeginning(buffer))
    BY <1>10 DEF ProcessCtrlChar
  <2> QED BY <1>6, <1>10, <2>1, <2>2, MovesToBegin
<1>11. CASE u = 101
  <2>1. E!Targets(key) = {E!EndOf(pos)}
    BY <1>11, CtrlChars
  <2>2. ProcessCtrlChar(u) = Edited(MoveToLineEnd(buffer))
    BY <1>11 DEF ProcessCtrlChar
  <2> QED BY <1>6, <1>11, <2>1, <2>2, MovesToEnd
<1>12. CASE u = 112
  <2>1. E!Turns(key) = IF EditedLine > 1 THEN EditedLine - 1 ELSE EditedLine
    BY <1>12, CtrlChars
  <2>2. ProcessCtrlChar(u) = HistoryPrevious
    BY <1>12 DEF ProcessCtrlChar
  <2>3. E!Targets(key) = {}
    BY <1>3, <1>12
  <2>4. E!Erases(key) = <<pos, pos>>
    BY <1>4, <1>12
  <2> QED BY <1>1, <1>6, <1>12, <2>1, <2>2, <2>3, <2>4, PreviousEffect DEF Continues
<1>13. CASE u = 110
  <2>1. E!Turns(key) = IF EditedLine < Len(AllLines) THEN EditedLine + 1 ELSE EditedLine
    BY <1>13, CtrlChars
  <2>2. ProcessCtrlChar(u) = HistoryNext
    BY <1>13 DEF ProcessCtrlChar
  <2>3. E!Targets(key) = {}
    BY <1>3, <1>13
  <2>4. E!Erases(key) = <<pos, pos>>
    BY <1>4, <1>13
  <2> QED BY <1>1, <1>6, <1>13, <2>1, <2>2, <2>3, <2>4, NextEffect DEF Continues
<1>14. CASE u = 99
  <2>1. ProcessCtrlChar(u) = Stopped("ControlBreak")
    BY <1>14 DEF ProcessCtrlChar
  <2>2. StateOf(key) = "ControlBreak"
    BY <1>1, <1>2, <1>14 DEF StateOf
  <2>3. E!Erases(key) = <<pos, pos>>
    BY <1>4, <1>14
  <2>4. E!Erases(key)[1] = pos /\ E!Erases(key)[2] = pos
    BY <2>3
  <2>5. E!Cut(pos, pos) = buffer.content
    BY NothingToCut
  <2>6. E!Targets(key) = {} /\ E!Turns(key) = EditedLine
    BY <1>3, <1>5, <1>14
  <2> QED BY <1>1, <2>1, <2>2, <2>4, <2>5, <2>6, StopEffect
<1>15. CASE u = 100 /\ buffer.content = <<>>
  <2>1. ProcessCtrlChar(u) = Stopped("ControlBreak")
    BY <1>15 DEF ProcessCtrlChar
  <2>2. E!Size = 0 /\ pos = 0
    BY <1>15, Position
  <2>3. StateOf(key) = "ControlBreak"
    BY <1>1, <1>2, <1>15, <2>2 DEF StateOf
  <2>4. E!Min({0, 1}) = 0
    BY MinOfTwo, LinkedExtremes
  <2>5. E!Erases(key) = <<pos, pos>>
    BY <1>7, <1>15, <2>2, <2>4
  <2>6. E!Erases(key)[1] = pos /\ E!Erases(key)[2] = pos
    BY <2>5
  <2>7. E!Cut(pos, pos) = buffer.content
    BY NothingToCut
  <2>8. E!Targets(key) = {} /\ E!Turns(key) = EditedLine
    BY <1>3, <1>5, <1>15
  <2> QED BY <1>1, <2>1, <2>3, <2>6, <2>7, <2>8, StopEffect
<1>16. CASE u = 100 /\ buffer.content # <<>>
  <2>1. ProcessCtrlChar(u) = Edited(DeleteRight(buffer))
    BY <1>16 DEF ProcessCtrlChar
  <2>2. E!Size # 0
    BY <1>16, Position DEF Texts
  <2>3. Erasing(key)
    BY <1>1, <1>2, <1>3, <1>5, <1>16, <2>2 DEF Erasing, Continues
  <2> QED BY <1>7, <1>16, <2>1, <2>3, ErasesRight
<1>17. CASE u \notin {97, 98, 99, 100, 101, 102, 110, 112}
  <2>1. ProcessCtrlChar(u) = Ignored
    BY <1>17 DEF ProcessCtrlChar
  <2>2. Erasing(key)
    BY <1>1, <1>3, <1>5, <1>6, <1>17 DEF Erasing
  <2>3. E!Erases(key) = <<pos, pos>>
    BY <1>4, <1>17
  <2> QED BY <2>1, <2>2, <2>3, NothingErased
<1> QED BY <1>8, <1>9, <1>10, <1>11, <1>12, <1>13, <1>14, <1>15, <1>16, <1>17

LEMMA EnterEffect ==
  ASSUME EditorOK, IsMultiline, continueNl = IsOpen(buffer.content)
  PROVE  KeyEffect(KeyOf("Enter", {}, 0), ProcessEnter)
<1> DEFINE key == KeyOf("Enter", {}, 0)
<1>1. /\ E!Enters(key) <=> ~IsOpen(E!Text)
      /\ E!Inserts(key) = IF IsOpen(E!Text) THEN <<E!NewLine>> ELSE <<>>
      /\ ~E!Cancels(key) /\ E!Targets(key) = {} /\ E!Turns(key) = EditedLine
      /\ E!Erases(key) = <<buffer.cursor, buffer.cursor>>
  BY PlainKeys
<1>2. E!Text = buffer.content
  BY LinkedText
<1>3. CASE continueNl
  <2>1. ProcessEnter = Edited(Insert(buffer, <<LineFeed>>))
    BY <1>3 DEF ProcessEnter
  <2>2. E!Inserts(key) = <<LineFeed>> /\ ~E!Enters(key)
    BY <1>1, <1>2, <1>3 DEF E!NewLine, LineFeed
  <2>3. LineFeed \in Characters
    BY DEF Characters
  <2> QED BY <1>1, <2>1, <2>2, <2>3, PutsIn
<1>4. CASE ~continueNl
  <2>1. ProcessEnter = Stopped("Finished")
    BY <1>4 DEF ProcessEnter
  <2>2. E!Inserts(key) = <<>> /\ StateOf(key) = "Finished"
    BY <1>1, <1>2, <1>4 DEF StateOf
  <2>3. E!Erases(key)[1] = buffer.cursor /\ E!Erases(key)[2] = buffer.cursor
    BY <1>1
  <2> QED BY <1>1, <2>1, <2>2, <2>3, NothingToCut, StopEffect
<1> QED BY <1>3, <1>4

LEMMA CharEffect ==
  ASSUME EditorOK, NEW u \in Characters
  PROVE  KeyEffect(KeyOf("UnicodeChar", {}, u), Edited(Insert(buffer, <<u>>)))
<1> DEFINE key == KeyOf("UnicodeChar", {}, u)
<1>1. /\ E!Targets(key) = {} /\ E!Turns(key) = EditedLine /\ E!Inserts(key) = <<u>>
      /\ ~E!Enters(key) /\ ~E!Cancels(key)
  BY RestOfKeys
<1> QED BY <1>1, PutsIn

LEMMA BothModifiers ==
  ASSUME EditorOK, NEW k, NEW m, NEW u, m # {}, m # {"Alt"}, m # {"Ctrl"}
  PROVE  KeyEffect(KeyOf(k, m, u), Ignored)
<1> DEFINE key == KeyOf(k, m, u)
<1>1. /\ E!Targets(key) = {} /\ E!Turns(key) = EditedLine
      /\ E!Inserts(key) = <<>> /\ E!Erases(key) = <<buffer.cursor, buffer.cursor>>
      /\ ~E!Enters(key) /\ ~E!Cancels(key)
  BY RestOfKeys
<1> QED BY <1>1, NothingErased DEF Erasing, Continues

(* process_input dispatches every key to what Editor says of it. *)
(* What decoding a sequence of a key yields.                               *)
Dispatchable(decoded) ==
  /\ decoded.key = "UnicodeChar" => decoded.unicode \in Characters
  /\ decoded.key # "UnicodeChar" => decoded.unicode = 0

(* Every key does to the text, the cursor and the history what Editor says *)
(* of it: process_input with the operations of EditBuffer and the history, *)
(* whatever the text and the lines of the history are.                     *)
THEOREM DispatchedEffect ==
  ASSUME EditorOK, IsMultiline, continueNl = IsOpen(buffer.content),
         NEW decoded, Dispatchable(decoded)
  PROVE  KeyEffect(KeyOf(decoded.key, Normalized(decoded.mod), decoded.unicode),
                   Dispatched(decoded))
<1> DEFINE k == decoded.key
           m == Normalized(decoded.mod)
           u == decoded.unicode
           e == Dispatched(decoded)
<1>1. CASE m = {}
  <2>1. e = ProcessPlain(k, u)
    BY <1>1 DEF Dispatched
  <2>2. CASE k = "UnicodeChar"
    <3>1. ProcessPlain(k, u) = Edited(Insert(buffer, <<u>>))
      BY <2>2 DEF ProcessPlain
    <3> QED BY <1>1, <2>1, <2>2, <3>1, CharEffect DEF Dispatchable
  <2>3. CASE k = "Enter"
    <3>1. ProcessPlain(k, u) = ProcessEnter
      BY <2>3 DEF ProcessPlain
    <3>2. u = 0
      BY <2>3 DEF Dispatchable
    <3> QED BY <1>1, <2>1, <2>3, <3>1, <3>2, EnterEffect
  <2>4. CASE k # "UnicodeChar" /\ k # "Enter"
    <3>1. ProcessPlain(k, u) = ProcessKey(k)
      BY <2>4 DEF ProcessPlain
    <3>2. u = 0
      BY <2>4 DEF Dispatchable
    <3> QED BY <1>1, <2>1, <2>4, <3>1, <3>2, PlainKeyEffect
  <2> QED BY <2>2, <2>3, <2>4
<1>2. CASE m = {"Alt"} /\ k = "UnicodeChar"
  <2>1. e = ProcessAltChar(u)
    BY <1>2, Modifiers DEF Dispatched
  <2> QED BY <1>2, <2>1, AltCharEffect
<1>3. CASE m = {"Ctrl"} /\ k = "UnicodeChar"
  <2>1. e = ProcessCtrlChar(u)
    BY <1>3, Modifiers DEF Dispatched
  <2> QED BY <1>3, <2>1, CtrlCharEffect
<1>4. CASE (m = {"Alt"} \/ m = {"Ctrl"}) /\ k # "UnicodeChar"
  <2>1. m # {}
    BY <1>4, Modifiers
  <2>2. e = ProcessAltKey(k)
    BY <1>4, <2>1 DEF Dispatched
  <2>3. u = 0
    BY <1>4 DEF Dispatchable
  <2> QED BY <1>4, <2>2, <2>3, ModifiedKeyEffect
<1>5. CASE m # {} /\ m # {"Alt"} /\ m # {"Ctrl"}
  <2>1. e = Ignored
    BY <1>5 DEF Dispatched
  <2> QED BY <1>5, <2>1, BothModifiers
<1> QED BY <1>1, <1>2, <1>3, <1>4, <1>5

-----------------------------------------------------------------------------
(* What is decoded does not depend on what follows it.                     *)

ByteValues == 0 .. 255

ByteSeqs == Seq(ByteValues)

Extending(more, bytes) ==
  Len(bytes) <= Len(more) /\ \A i \in 1 .. Len(bytes) : more[i] = bytes[i]

LEMMA PartsExtend ==
  ASSUME NEW bytes \in ByteSeqs, NEW more \in ByteSeqs, Extending(more, bytes),
         NEW n \in 1 .. Len(bytes) + 1
  PROVE  /\ SubSeq(bytes, n, Len(bytes)) \in ByteSeqs
         /\ SubSeq(more, n, Len(more)) \in ByteSeqs
         /\ Len(SubSeq(bytes, n, Len(bytes))) = Len(bytes) - n + 1
         /\ Extending(SubSeq(more, n, Len(more)), SubSeq(bytes, n, Len(bytes)))
<1>1. Len(bytes) \in Nat /\ Len(more) \in Nat /\ Len(bytes) <= Len(more)
  BY DEF ByteSeqs, Extending
<1>2. /\ n \in Nat /\ n >= 1 /\ Len(bytes) <= Len(bytes) /\ Len(more) <= Len(more)
      /\ n <= Len(bytes) + 1 /\ n <= Len(more) + 1
  BY <1>1
<1>3. /\ SubSeq(bytes, n, Len(bytes)) \in ByteSeqs
      /\ Len(SubSeq(bytes, n, Len(bytes))) = IF n <= Len(bytes) THEN Len(bytes) - n + 1 ELSE 0
      /\ \A i \in 1 .. Len(bytes) - n + 1 : SubSeq(bytes, n, Len(bytes))[i] = bytes[n + i - 1]
  BY <1>1, <1>2, PartIs DEF ByteSeqs
<1>4. /\ SubSeq(more, n, Len(more)) \in ByteSeqs
      /\ Len(SubSeq(more, n, Len(more))) = IF n <= Len(more) THEN Len(more) - n + 1 ELSE 0
      /\ \A i \in 1 .. Len(more) - n + 1 : SubSeq(more, n, Len(more))[i] = more[n + i - 1]
  BY <1>1, <1>2, PartIs DEF ByteSeqs
<1>5. Len(SubSeq(bytes, n, Len(bytes))) = Len(bytes) - n + 1
  BY <1>1, <1>2, <1>3
<1>6. Len(SubSeq(more, n, Len(more))) = Len(more) - n + 1
  BY <1>1, <1>2, <1>4
<1>7. ASSUME NEW i \in 1 .. Len(bytes) - n + 1
      PROVE  SubSeq(more, n, Len(more))[i] = SubSeq(bytes, n, Len(bytes))[i]
  <2>1. i \in 1 .. Len(more) - n + 1 /\ n + i - 1 \in 1 .. Len(bytes)
    BY <1>1, <1>2
  <2>2. more[n + i - 1] = bytes[n + i - 1]
    BY <2>1 DEF Extending
  <2>3. SubSeq(bytes, n, Len(bytes))[i] = bytes[n + i - 1]
    BY <1>3
  <2>4. SubSeq(more, n, Len(more))[i] = more[n + i - 1]
    BY <1>4, <2>1
  <2> QED BY <2>2, <2>3, <2>4
<1>8. Len(SubSeq(bytes, n, Len(bytes))) <= Len(SubSeq(more, n, Len(more)))
  BY <1>1, <1>2, <1>5, <1>6
<1>9. Extending(SubSeq(more, n, Len(more)), SubSeq(bytes, n, Len(bytes)))
  BY <1>5, <1>7, <1>8 DEF Extending
<1> QED BY <1>3, <1>4, <1>5, <1>9

LEMMA HeadsEqual ==
  ASSUME NEW bytes \in ByteSeqs, NEW more \in ByteSeqs, Extending(more, bytes),
         NEW n \in 0 .. Len(bytes), NEW m \in Nat, m >= 1
  PROVE  SubSeq(more, m, n) = SubSeq(bytes, m, n)
<1>1. Len(bytes) \in Nat /\ Len(more) \in Nat /\ Len(bytes) <= Len(more)
  BY DEF ByteSeqs, Extending
<1>2. n \in Nat /\ n <= Len(bytes) /\ n <= Len(more)
  BY <1>1
<1>3. /\ SubSeq(bytes, m, n) \in ByteSeqs
      /\ Len(SubSeq(bytes, m, n)) = IF m <= n THEN n - m + 1 ELSE 0
      /\ \A i \in 1 .. n - m + 1 : SubSeq(bytes, m, n)[i] = bytes[m + i - 1]
  BY <1>1, <1>2, PartIs DEF ByteSeqs
<1>4. /\ SubSeq(more, m, n) \in ByteSeqs
      /\ Len(SubSeq(more, m, n)) = IF m <= n THEN n - m + 1 ELSE 0
      /\ \A i \in 1 .. n - m + 1 : SubSeq(more, m, n)[i] = more[m + i - 1]
  BY <1>1, <1>2, PartIs DEF ByteSeqs
<1>5. ASSUME NEW i \in 1 .. Len(SubSeq(more, m, n))
      PROVE  SubSeq(more, m, n)[i] = SubSeq(bytes, m, n)[i]
  <2>1. i \in 1 .. n - m + 1 /\ m + i - 1 \in 1 .. Len(bytes)
    BY <1>2, <1>4
  <2>2. more[m + i - 1] = bytes[m + i - 1]
    BY <2>1 DEF Extending
  <2>3. SubSeq(bytes, m, n)[i] = bytes[m + i - 1]
    BY <1>3, <2>1
  <2>4. SubSeq(more, m, n)[i] = more[m + i - 1]
    BY <1>4, <2>1
  <2> QED BY <2>2, <2>3, <2>4
<1>6. Len(SubSeq(more, m, n)) = Len(SubSeq(bytes, m, n))
  BY <1>3, <1>4
<1> HIDE DEF Extending
<1> QED BY <1>3, <1>4, <1>5, <1>6, SameSeq DEF ByteSeqs

LEMMA CodePointStable ==
  ASSUME NEW bytes \in ByteSeqs, NEW more \in ByteSeqs, Extending(more, bytes)
  PROVE  /\ CodePoint(bytes).len \in {0, 1, 2, 3, 4}
         /\ CodePoint(bytes).len <= Len(bytes)
         /\ CodePoint(bytes).len > 0 => CodePoint(more) = CodePoint(bytes)
<1> DEFINE n == Len(bytes)
           m == Len(more)
<1>1. n \in Nat /\ m \in Nat /\ n <= m
  BY DEF ByteSeqs, Extending
<1>2. CASE n = 0
  <2>1. CodePoint(bytes).len = 0
    BY <1>2 DEF CodePoint, n, m
  <2> QED BY <1>2, <2>1
<1>3. CASE n = 1
  <2>1. more[1] = bytes[1]
    BY <1>3 DEF Extending, n
  <2> HIDE DEF n, m
  <2>2. m # 0 /\ n # 0
    BY <1>1, <1>3
  <2> QED BY <1>3, <2>1, <2>2 DEF CodePoint, n, m
<1>4. CASE n = 2
  <2>1. more[1] = bytes[1] /\ more[2] = bytes[2]
    BY <1>4 DEF Extending, n
  <2> HIDE DEF n, m
  <2>2. m # 0 /\ m # 1 /\ n # 0 /\ n # 1
    BY <1>1, <1>4
  <2> QED BY <1>4, <2>1, <2>2 DEF CodePoint, n, m
<1>5. CASE n = 3
  <2>1. more[1] = bytes[1] /\ more[2] = bytes[2] /\ more[3] = bytes[3]
    BY <1>5 DEF Extending, n
  <2> HIDE DEF n, m
  <2>2. /\ m # 0 /\ m # 1 /\ m # 2
        /\ n # 0 /\ n # 1 /\ n # 2
    BY <1>1, <1>5
  <2> QED BY <1>5, <2>1, <2>2 DEF CodePoint, n, m
<1>6. CASE n > 3
  <2>1. more[1] = bytes[1] /\ more[2] = bytes[2] /\ more[3] = bytes[3] /\ more[4] = bytes[4]
    BY <1>1, <1>6 DEF Extending, n
  <2> HIDE DEF n, m
  <2>2. /\ m # 0 /\ m # 1 /\ m # 2 /\ m # 3
        /\ n # 0 /\ n # 1 /\ n # 2 /\ n # 3
    BY <1>1, <1>6
  <2>3. CodePoint(more) = CodePoint(bytes)
    BY <2>1, <2>2 DEF CodePoint, n, m
  <2>4. CodePoint(bytes).len \in {0, 1, 2, 3, 4}
    BY <2>2 DEF CodePoint, n, m
  <2>5. CodePoint(bytes).len <= n
    BY <1>1, <1>6, <2>4
  <2> QED BY <2>3, <2>4, <2>5 DEF n
<1> HIDE DEF n, m
<1>7. n = 0 \/ n = 1 \/ n = 2 \/ n = 3 \/ n > 3
  BY <1>1
<1> QED BY <1>2, <1>3, <1>4, <1>5, <1>6, <1>7

LEMMA DecodedFields ==
  ASSUME NEW len, NEW key, NEW mod, NEW unicode
  PROVE  /\ Decoded(len, key, mod, unicode).len = len
         /\ Decoded(len, key, mod, unicode).key = key
         /\ Decoded(len, key, mod, unicode).unicode = unicode
         /\ Key(len, key, mod) = Decoded(len, key, mod, 0)
         /\ Nothing = Decoded(0, "Unknown", {}, 0)
  BY DEF Decoded, Key, Nothing

(* The keys of TermInputSeq are no characters. *)
LEMMA TableKeys ==
  /\ \A b : ControlKey(b) # "UnicodeChar"
  /\ \A n : NumberKey(n) # "UnicodeChar"
  /\ \A b : CsiKey(b) # "UnicodeChar"
  /\ \A b : Ss3Key(b) # "UnicodeChar"
<1>1. \A b : ControlKey(b) # "UnicodeChar"
  BY DEF ControlKey
<1>2. \A n : NumberKey(n) # "UnicodeChar"
  BY DEF NumberKey
<1>3. \A b : CsiKey(b) # "UnicodeChar"
  BY DEF CsiKey
<1>4. \A b : Ss3Key(b) # "UnicodeChar"
  BY DEF Ss3Key
<1> QED BY <1>1, <1>2, <1>3, <1>4

NoChar(d) == d.key # "UnicodeChar" /\ d.unicode = 0

LEMMA KeyIsNoChar ==
  /\ NoChar(Nothing)
  /\ \A len, key, mod : key # "UnicodeChar" => NoChar(Key(len, key, mod))
  BY DEF NoChar, Nothing, Key, Decoded

LEMMA LookupNoChar ==
  ASSUME NEW bytes
  PROVE  NoChar(Lookup(bytes))
<1>1. NoChar(CsiSequence(bytes))
  <2> DEFINE finals == {i \in 3 .. Len(bytes) : bytes[i] \notin Digits \cup {Semicolon}}
             len == Min(finals)
             args == Arguments(SubSeq(bytes, 3, len - 1))
             mod == ModifierOf(IF Len(args) > 1 THEN args[2] ELSE 0)
  <2>1. CsiSequence(bytes)
          = IF finals = {} THEN Nothing
            ELSE IF bytes[len] = Tilde /\ args[1] \in 1 .. 24
            THEN Key(len, NumberKey(args[1]), mod)
            ELSE IF bytes[len] \in Letters
            THEN Key(len, CsiKey(bytes[len]), mod)
            ELSE Key(len, "Unknown", {})
    BY DEF CsiSequence
  <2> HIDE DEF finals, len, args, mod
  <2>2. NoChar(Key(len, NumberKey(args[1]), mod))
    BY KeyIsNoChar, TableKeys
  <2>3. NoChar(Key(len, CsiKey(bytes[len]), mod))
    BY KeyIsNoChar, TableKeys
  <2>4. NoChar(Key(len, "Unknown", {}))
    BY KeyIsNoChar
  <2> QED BY <2>1, <2>2, <2>3, <2>4, KeyIsNoChar
<1>2. NoChar(Key(1, ControlKey(bytes[1]), {}))
  BY KeyIsNoChar, TableKeys
<1>3. NoChar(Key(3, IF bytes[3] \in Letters THEN Ss3Key(bytes[3]) ELSE "Unknown", {}))
  <2>1. (IF bytes[3] \in Letters THEN Ss3Key(bytes[3]) ELSE "Unknown") # "UnicodeChar"
    BY TableKeys
  <2> QED BY <2>1, KeyIsNoChar
<1> QED BY <1>1, <1>2, <1>3, KeyIsNoChar DEF Lookup

LEMMA DecodedNoChar ==
  ASSUME NEW bytes
  PROVE  DecodeInput(bytes).key # "UnicodeChar" => DecodeInput(bytes).unicode = 0
<1> DEFINE Fine(d) == d.key # "UnicodeChar" => d.unicode = 0
<1>1. \A x : NoChar(x) => Fine(x)
  BY DEF NoChar
<1>2. ASSUME NEW offset, NEW mod
      PROVE  Fine(DecodeChar(bytes, offset, mod))
  <2> DEFINE byte == bytes[offset + 1]
             char == CodePoint(SubSeq(bytes, offset + 1, Len(bytes)))
  <2>1. DecodeChar(bytes, offset, mod)
          = IF byte < 32
            THEN Decoded(offset + 1, "UnicodeChar", mod \cup {"Ctrl"},
                         IF byte \in 1 .. 26 THEN byte + 96 ELSE byte + 64)
            ELSE IF char.len > 0
            THEN Decoded(char.len + offset, "UnicodeChar", mod, char.unicode)
            ELSE IF char.len = 0 THEN Nothing
            ELSE Key(1 + offset, "Unknown", {})
    BY DEF DecodeChar
  <2>2. \A len, m, u : Fine(Decoded(len, "UnicodeChar", m, u))
    BY DecodedFields
  <2>3. Fine(Nothing) /\ Fine(Key(1 + offset, "Unknown", {}))
    BY <1>1, KeyIsNoChar
  <2> HIDE DEF byte, char, Fine
  <2> QED BY <2>1, <2>2, <2>3
<1>3. Fine(DecodeEscaped(bytes))
  <2> DEFINE sequence == Lookup(Tail(bytes))
  <2>1. DecodeEscaped(bytes)
          = IF Len(bytes) = 1 THEN Key(1, "Escape", {})
            ELSE IF sequence.len # 0
            THEN Key(sequence.len + 1, sequence.key, sequence.mod \cup {"Alt"})
            ELSE IF bytes[2] = Escape THEN Key(2, "Escape", {"Alt"})
            ELSE DecodeChar(bytes, 1, {"Alt"})
    BY DEF DecodeEscaped
  <2>2. sequence.key # "UnicodeChar"
    BY LookupNoChar DEF NoChar
  <2> HIDE DEF sequence, Fine
  <2>3. NoChar(Key(sequence.len + 1, sequence.key, sequence.mod \cup {"Alt"}))
    BY <2>2, KeyIsNoChar
  <2>4. NoChar(Key(1, "Escape", {})) /\ NoChar(Key(2, "Escape", {"Alt"}))
    BY KeyIsNoChar
  <2>5. Fine(DecodeChar(bytes, 1, {"Alt"}))
    BY <1>2
  <2> QED BY <1>1, <2>1, <2>3, <2>4, <2>5
<1>4. Fine(Lookup(bytes)) /\ Fine(Nothing)
  BY <1>1, LookupNoChar, KeyIsNoChar
<1>5. Fine(DecodeChar(bytes, 0, {}))
  BY <1>2
<1> HIDE DEF Fine
<1>6. Fine(DecodeInput(bytes))
  BY <1>3, <1>4, <1>5 DEF DecodeInput
<1> QED BY <1>6 DEF Fine

LEMMA NothingHasNoLength == Nothing.len = 0
  BY DEF Nothing, Decoded

LEMMA KeyHasLength ==
  ASSUME NEW len, NEW key, NEW mod
  PROVE  Key(len, key, mod).len = len
  BY DEF Key, Decoded

LEMMA Lengths ==
  ASSUME NEW bytes \in ByteSeqs, NEW more \in ByteSeqs, Extending(more, bytes)
  PROVE  /\ Len(bytes) \in Nat /\ Len(more) \in Nat /\ Len(bytes) <= Len(more)
         /\ bytes # <<>> => (Len(bytes) >= 1 /\ Len(more) >= 1 /\ more # <<>> /\ more[1] = bytes[1])
         /\ Len(bytes) >= 2 => more[2] = bytes[2]
         /\ Len(bytes) >= 3 => more[3] = bytes[3]
<1> DEFINE n == Len(bytes)
           m == Len(more)
<1>1. n \in Nat /\ m \in Nat /\ n <= m
  BY DEF ByteSeqs, Extending
<1>2. bytes # <<>> => n # 0
  BY DEF ByteSeqs
<1>3. m # 0 => more # <<>>
  OBVIOUS
<1>4. \A i \in 1 .. n : more[i] = bytes[i]
  BY DEF Extending
<1> HIDE DEF n, m
<1>5. bytes # <<>> => n >= 1 /\ m >= 1
  BY <1>1, <1>2
<1>6. /\ n >= 1 => more[1] = bytes[1]
      /\ n >= 2 => more[2] = bytes[2]
      /\ n >= 3 => more[3] = bytes[3]
  BY <1>1, <1>4
<1>7. m >= 1 => m # 0
  BY <1>1
<1> QED BY <1>1, <1>3, <1>5, <1>6, <1>7 DEF n, m

LEMMA LookupPlain ==
  ASSUME NEW bytes, bytes # <<>>, bytes[1] # Escape
  PROVE  Lookup(bytes) = IF ControlKey(bytes[1]) = "Unknown" THEN Nothing
                         ELSE Key(1, ControlKey(bytes[1]), {})
  BY DEF Lookup

Finals(bytes) == {i \in 3 .. Len(bytes) : bytes[i] \notin Digits \cup {Semicolon}}

LEMMA CsiIs ==
  ASSUME NEW bytes
  PROVE  LET len == Min(Finals(bytes))
             args == Arguments(SubSeq(bytes, 3, len - 1))
             mod == ModifierOf(IF Len(args) > 1 THEN args[2] ELSE 0)
         IN CsiSequence(bytes)
              = IF Finals(bytes) = {} THEN Nothing
                ELSE IF bytes[len] = Tilde /\ args[1] \in 1 .. 24
                THEN Key(len, NumberKey(args[1]), mod)
                ELSE IF bytes[len] \in Letters
                THEN Key(len, CsiKey(bytes[len]), mod)
                ELSE Key(len, "Unknown", {})
  BY DEF CsiSequence, Finals

LEMMA CsiStable ==
  ASSUME NEW bytes \in ByteSeqs, NEW more \in ByteSeqs, Extending(more, bytes),
         CsiSequence(bytes).len # 0
  PROVE  CsiSequence(more) = CsiSequence(bytes)
<1> DEFINE n == Len(bytes)
           m == Len(more)
           len == Min(Finals(bytes))
<1>1. n \in Nat /\ m \in Nat /\ n <= m
  BY Lengths
<1>2. \A i \in 1 .. n : more[i] = bytes[i]
  BY DEF Extending
<1>3. Finals(bytes) # {}
  BY CsiIs, NothingHasNoLength
<1>4. /\ \A i : i \in Finals(bytes) <=> (i \in 3 .. n /\ bytes[i] \notin Digits \cup {Semicolon})
      /\ \A i : i \in Finals(more) <=> (i \in 3 .. m /\ more[i] \notin Digits \cup {Semicolon})
  BY DEF Finals
<1> HIDE DEF n, m
<1>5. Finals(bytes) \in SUBSET Nat /\ Finals(more) \in SUBSET Int
  BY <1>1, <1>4
<1>6. len \in Finals(bytes) /\ \A i \in Finals(bytes) : len <= i
  BY <1>3, <1>5, MinOf
<1> HIDE DEF len
<1>7. len \in 3 .. n /\ len \in Nat /\ len \in 1 .. n
  BY <1>1, <1>4, <1>6
<1>8. len \in Finals(more)
  BY <1>1, <1>2, <1>4, <1>6, <1>7
<1>9. ASSUME NEW i \in Finals(more) PROVE len <= i
  <2>1. i \in Int /\ i \in 3 .. m
    BY <1>1, <1>4
  <2>2. CASE i <= n
    <3>1. i \in 1 .. n /\ i \in 3 .. n
      BY <1>1, <2>1, <2>2
    <3>2. i \in Finals(bytes)
      BY <1>2, <1>4, <3>1
    <3> QED BY <1>6, <3>2
  <2>3. CASE i > n
    BY <1>1, <1>7, <2>1, <2>3
  <2>4. i <= n \/ i > n
    BY <1>1, <2>1
  <2> QED BY <2>2, <2>3, <2>4
<1>10. Min(Finals(more)) = len
  BY <1>5, <1>8, <1>9, MinIs
<1>11. more[len] = bytes[len]
  BY <1>2, <1>7
<1>12. SubSeq(more, 3, len - 1) = SubSeq(bytes, 3, len - 1)
  <2>1. len - 1 \in 0 .. n
    BY <1>1, <1>7
  <2> QED BY <2>1, HeadsEqual DEF n
<1>13. Finals(more) # {}
  BY <1>8
<1> DEFINE args == Arguments(SubSeq(bytes, 3, len - 1))
           mod == ModifierOf(IF Len(args) > 1 THEN args[2] ELSE 0)
<1>14. CsiSequence(bytes)
         = IF bytes[len] = Tilde /\ args[1] \in 1 .. 24
           THEN Key(len, NumberKey(args[1]), mod)
           ELSE IF bytes[len] \in Letters
           THEN Key(len, CsiKey(bytes[len]), mod)
           ELSE Key(len, "Unknown", {})
  BY <1>3, CsiIs DEF len
<1>15. CsiSequence(more)
         = IF bytes[len] = Tilde /\ args[1] \in 1 .. 24
           THEN Key(len, NumberKey(args[1]), mod)
           ELSE IF bytes[len] \in Letters
           THEN Key(len, CsiKey(bytes[len]), mod)
           ELSE Key(len, "Unknown", {})
  BY <1>10, <1>11, <1>12, <1>13, CsiIs
<1> QED BY <1>14, <1>15

LEMMA LookupStable ==
  ASSUME NEW bytes \in ByteSeqs, NEW more \in ByteSeqs, Extending(more, bytes),
         Lookup(bytes).len # 0
  PROVE  Lookup(more) = Lookup(bytes)
<1>1. bytes # <<>>
  BY NothingHasNoLength DEF Lookup
<1>2. more # <<>> /\ more[1] = bytes[1] /\ Len(bytes) \in Nat /\ Len(more) \in Nat /\ Len(bytes) <= Len(more)
  BY <1>1, Lengths
<1>3. CASE bytes[1] # Escape
  BY <1>1, <1>2, <1>3, LookupPlain
<1>4. CASE bytes[1] = Escape
  <2>1. ~(Len(bytes) < 3)
    BY <1>1, <1>4, NothingHasNoLength DEF Lookup
  <2>2. Len(bytes) >= 3 /\ Len(bytes) >= 2 /\ ~(Len(more) < 3)
    BY <1>2, <2>1
  <2>3. more[2] = bytes[2] /\ more[3] = bytes[3]
    BY <2>2, Lengths
  <2>4. CASE bytes[2] = Bracket
    <3>1. Lookup(bytes) = CsiSequence(bytes)
      BY <1>1, <1>4, <2>1, <2>4 DEF Lookup
    <3>2. Lookup(more) = CsiSequence(more)
      BY <1>2, <1>4, <2>2, <2>3, <2>4 DEF Lookup
    <3> QED BY <3>1, <3>2, CsiStable
  <2>5. CASE bytes[2] # Bracket
    <3>1. Lookup(bytes) = IF bytes[2] = LetterO
                          THEN Key(3, IF bytes[3] \in Letters THEN Ss3Key(bytes[3]) ELSE "Unknown", {})
                          ELSE Nothing
      BY <1>1, <1>4, <2>1, <2>5 DEF Lookup
    <3>2. Lookup(more) = IF bytes[2] = LetterO
                         THEN Key(3, IF bytes[3] \in Letters THEN Ss3Key(bytes[3]) ELSE "Unknown", {})
                         ELSE Nothing
      BY <1>2, <1>4, <2>2, <2>3, <2>5 DEF Lookup
    <3> QED BY <3>1, <3>2
  <2> QED BY <2>4, <2>5
<1> QED BY <1>3, <1>4

(* What DecodeInput does by the first bytes. *)
LEMMA PlainDecoded ==
  ASSUME NEW bytes, bytes # <<>>, bytes[1] # Escape
  PROVE  DecodeInput(bytes) = IF ControlKey(bytes[1]) = "Unknown"
                              THEN DecodeChar(bytes, 0, {})
                              ELSE Key(1, ControlKey(bytes[1]), {})
<1>1. CASE ControlKey(bytes[1]) = "Unknown"
  <2>1. Lookup(bytes).len = 0
    BY <1>1, LookupPlain, NothingHasNoLength
  <2> QED BY <1>1, <2>1 DEF DecodeInput
<1>2. CASE ControlKey(bytes[1]) # "Unknown"
  <2>1. Lookup(bytes) = Key(1, ControlKey(bytes[1]), {})
    BY <1>2, LookupPlain
  <2>2. Lookup(bytes).len # 0
    <3>1. Key(1, ControlKey(bytes[1]), {}).len = 1
      BY KeyHasLength
    <3> QED BY <2>1, <3>1
  <2> QED BY <1>2, <2>1, <2>2 DEF DecodeInput
<1> QED BY <1>1, <1>2

LEMMA CharIs ==
  ASSUME NEW bytes, NEW offset, NEW mod
  PROVE  LET byte == bytes[offset + 1]
             char == CodePoint(SubSeq(bytes, offset + 1, Len(bytes)))
         IN DecodeChar(bytes, offset, mod)
              = IF byte < 32
                THEN Decoded(offset + 1, "UnicodeChar", mod \cup {"Ctrl"},
                             IF byte \in 1 .. 26 THEN byte + 96 ELSE byte + 64)
                ELSE IF char.len > 0
                THEN Decoded(char.len + offset, "UnicodeChar", mod, char.unicode)
                ELSE IF char.len = 0 THEN Nothing
                ELSE Key(1 + offset, "Unknown", {})
  BY DEF DecodeChar

LEMMA CharStable ==
  ASSUME NEW bytes \in ByteSeqs, NEW more \in ByteSeqs, Extending(more, bytes),
         NEW offset \in {0, 1}, offset < Len(bytes), NEW mod,
         DecodeChar(bytes, offset, mod).len # 0
  PROVE  DecodeChar(more, offset, mod) = DecodeChar(bytes, offset, mod)
<1> DEFINE part == SubSeq(bytes, offset + 1, Len(bytes))
           rest == SubSeq(more, offset + 1, Len(more))
           byte == bytes[offset + 1]
<1>1. Len(bytes) \in Nat /\ offset + 1 \in 1 .. Len(bytes) + 1 /\ offset + 1 \in 1 .. Len(bytes)
  BY Lengths
<1>2. more[offset + 1] = byte
  BY <1>1 DEF Extending
<1>3. part \in ByteSeqs /\ rest \in ByteSeqs /\ Extending(rest, part)
  BY <1>1, PartsExtend
<1>4. /\ CodePoint(part).len \in {0, 1, 2, 3, 4}
      /\ CodePoint(part).len > 0 => CodePoint(rest) = CodePoint(part)
  BY <1>3, CodePointStable
<1>5. DecodeChar(bytes, offset, mod)
        = IF byte < 32
          THEN Decoded(offset + 1, "UnicodeChar", mod \cup {"Ctrl"},
                       IF byte \in 1 .. 26 THEN byte + 96 ELSE byte + 64)
          ELSE IF CodePoint(part).len > 0
          THEN Decoded(CodePoint(part).len + offset, "UnicodeChar", mod, CodePoint(part).unicode)
          ELSE IF CodePoint(part).len = 0 THEN Nothing
          ELSE Key(1 + offset, "Unknown", {})
  BY CharIs
<1>6. DecodeChar(more, offset, mod)
        = IF byte < 32
          THEN Decoded(offset + 1, "UnicodeChar", mod \cup {"Ctrl"},
                       IF byte \in 1 .. 26 THEN byte + 96 ELSE byte + 64)
          ELSE IF CodePoint(rest).len > 0
          THEN Decoded(CodePoint(rest).len + offset, "UnicodeChar", mod, CodePoint(rest).unicode)
          ELSE IF CodePoint(rest).len = 0 THEN Nothing
          ELSE Key(1 + offset, "Unknown", {})
  BY <1>2, CharIs
<1> HIDE DEF part, rest, byte
<1>7. CASE byte < 32
  BY <1>5, <1>6, <1>7
<1>8. CASE ~(byte < 32)
  <2>1. CodePoint(part).len # 0
    BY <1>5, <1>8, NothingHasNoLength
  <2>2. CodePoint(part).len > 0
    BY <1>4, <2>1
  <2> QED BY <1>4, <1>5, <1>6, <1>8, <2>2
<1> QED BY <1>7, <1>8

LEMMA EscapedIs ==
  ASSUME NEW bytes
  PROVE  LET sequence == Lookup(Tail(bytes))
         IN DecodeEscaped(bytes)
              = IF Len(bytes) = 1 THEN Key(1, "Escape", {})
                ELSE IF sequence.len # 0
                THEN Key(sequence.len + 1, sequence.key, sequence.mod \cup {"Alt"})
                ELSE IF bytes[2] = Escape THEN Key(2, "Escape", {"Alt"})
                ELSE DecodeChar(bytes, 1, {"Alt"})
  BY DEF DecodeEscaped

LEMMA EscapeDecoded ==
  ASSUME NEW bytes, bytes # <<>>, bytes[1] = Escape
  PROVE  DecodeInput(bytes) = IF Lookup(bytes).len # 0 THEN Lookup(bytes)
                              ELSE DecodeEscaped(bytes)
  BY DEF DecodeInput

LEMMA TailsExtend ==
  ASSUME NEW bytes \in ByteSeqs, NEW more \in ByteSeqs, Extending(more, bytes), bytes # <<>>
  PROVE  /\ Tail(bytes) \in ByteSeqs /\ Tail(more) \in ByteSeqs
         /\ Extending(Tail(more), Tail(bytes))
         /\ Len(Tail(bytes)) = Len(bytes) - 1
         /\ \A i \in 1 .. Len(bytes) - 1 : Tail(bytes)[i] = bytes[i + 1]
<1>1. Len(bytes) \in Nat /\ Len(more) \in Nat /\ Len(bytes) >= 1 /\ Len(bytes) <= Len(more) /\ more # <<>>
  BY Lengths
<1>2. Tail(bytes) \in ByteSeqs /\ Len(Tail(bytes)) = Len(bytes) - 1
  BY DEF ByteSeqs
<1>3. Tail(more) \in ByteSeqs /\ Len(Tail(more)) = Len(more) - 1
  BY <1>1 DEF ByteSeqs
<1>4. \A i \in 1 .. Len(bytes) - 1 : Tail(bytes)[i] = bytes[i + 1]
  BY DEF ByteSeqs
<1>5. \A i \in 1 .. Len(more) - 1 : Tail(more)[i] = more[i + 1]
  BY <1>1 DEF ByteSeqs
<1> DEFINE n == Len(bytes)
           m == Len(more)
<1>6. \A i \in 1 .. n : more[i] = bytes[i]
  BY DEF Extending
<1>7. n \in Nat /\ m \in Nat /\ n >= 1 /\ n <= m
  BY <1>1
<1>8. /\ \A i \in 1 .. n - 1 : Tail(bytes)[i] = bytes[i + 1]
      /\ \A i \in 1 .. m - 1 : Tail(more)[i] = more[i + 1]
  BY <1>4, <1>5
<1>9. Len(Tail(bytes)) = n - 1 /\ Len(Tail(more)) = m - 1
  BY <1>2, <1>3
<1> HIDE DEF n, m
<1>10. ASSUME NEW i \in 1 .. n - 1
       PROVE  Tail(more)[i] = Tail(bytes)[i]
  <2>1. i + 1 \in 1 .. n /\ i \in 1 .. m - 1
    BY <1>7
  <2>2. more[i + 1] = bytes[i + 1]
    BY <1>6, <2>1
  <2> QED BY <1>8, <2>1, <2>2
<1>11. n - 1 <= m - 1
  BY <1>7
<1>12. Extending(Tail(more), Tail(bytes))
  BY <1>9, <1>10, <1>11 DEF Extending
<1> QED BY <1>2, <1>3, <1>4, <1>12

LEMMA ShortSeqs ==
  ASSUME NEW bytes \in ByteSeqs
  PROVE  /\ Len(bytes) = 1 => bytes = <<bytes[1]>>
         /\ Len(bytes) = 2 => bytes = <<bytes[1], bytes[2]>>
<1> USE DEF ByteSeqs
<1>1. ASSUME Len(bytes) = 1 PROVE bytes = <<bytes[1]>>
  <2>1. <<bytes[1]>> \in Seq(ByteValues) /\ Len(<<bytes[1]>>) = 1
    BY <1>1
  <2>2. \A i \in 1 .. 1 : <<bytes[1]>>[i] = bytes[i]
    OBVIOUS
  <2> QED BY <1>1, <2>1, <2>2, SameSeq
<1>2. ASSUME Len(bytes) = 2 PROVE bytes = <<bytes[1], bytes[2]>>
  <2>1. <<bytes[1], bytes[2]>> \in Seq(ByteValues) /\ Len(<<bytes[1], bytes[2]>>) = 2
    BY <1>2
  <2>2. \A i \in 1 .. 2 : <<bytes[1], bytes[2]>>[i] = bytes[i]
    OBVIOUS
  <2> QED BY <1>2, <2>1, <2>2, SameSeq
<1> QED BY <1>1, <1>2

(* The bytes that may be those of a key.                                   *)
Sequences == ByteSeqs \ ({<<>>} \cup Introducers)

LEMMA EscapesAreLong ==
  ASSUME NEW bytes \in Sequences, bytes[1] = Escape
  PROVE  /\ Len(bytes) >= 2
         /\ bytes[2] \in {Escape, Bracket, LetterO} => Len(bytes) >= 3
<1>1. bytes \in ByteSeqs /\ bytes # <<>>
  BY DEF Sequences
<1>2. Len(bytes) \in Nat /\ Len(bytes) # 0
  BY <1>1 DEF ByteSeqs
<1>3. Len(bytes) # 1
  BY <1>1, ShortSeqs DEF Sequences, Introducers
<1>4. ASSUME bytes[2] \in {Escape, Bracket, LetterO} PROVE Len(bytes) # 2
  BY <1>1, <1>4, ShortSeqs DEF Sequences, Introducers
<1> DEFINE n == Len(bytes)
<1>5. n \in Nat /\ n # 0 /\ n # 1
  BY <1>2, <1>3
<1> HIDE DEF n
<1>6. n >= 2 /\ (n # 2 => n >= 3)
  BY <1>5
<1> QED BY <1>4, <1>6 DEF n

(* When nothing is found in the tables, what follows does not change it. *)
LEMMA LookupFails ==
  ASSUME NEW bytes, bytes # <<>>, bytes[1] = Escape, bytes[2] # Bracket, bytes[2] # LetterO
  PROVE  Lookup(bytes) = Nothing
  BY DEF Lookup

(* A key is decoded alike whatever is received after it: decode_input      *)
(* takes nothing from the bytes of the next key, and needs nothing from    *)
(* them.                                                                   *)
THEOREM DecodeStable ==
  ASSUME NEW bytes \in Sequences, NEW more \in ByteSeqs, Extending(more, bytes),
         DecodeInput(bytes).len = Len(bytes)
  PROVE  DecodeInput(more) = DecodeInput(bytes)
<1> DEFINE n == Len(bytes)
<1>1. bytes \in ByteSeqs /\ bytes # <<>>
  BY DEF Sequences
<1>2. n \in Nat /\ n >= 1 /\ more # <<>> /\ more[1] = bytes[1]
  BY <1>1, Lengths
<1>3. DecodeInput(bytes).len = n
  OBVIOUS
<1>4. CASE bytes[1] # Escape
  <2>1. CASE ControlKey(bytes[1]) # "Unknown"
    BY <1>1, <1>2, <1>4, <2>1, PlainDecoded
  <2>2. CASE ControlKey(bytes[1]) = "Unknown"
    <3>1. DecodeInput(bytes) = DecodeChar(bytes, 0, {})
      BY <1>1, <1>4, <2>2, PlainDecoded
    <3>2. DecodeInput(more) = DecodeChar(more, 0, {})
      BY <1>2, <1>4, <2>2, PlainDecoded
    <3>3. DecodeChar(bytes, 0, {}).len # 0 /\ 0 < Len(bytes)
      BY <1>2, <1>3, <3>1
    <3> QED BY <1>1, <3>1, <3>2, <3>3, CharStable
  <2> QED BY <2>1, <2>2
<1>5. CASE bytes[1] = Escape /\ Lookup(bytes).len # 0
  <2>1. Lookup(more) = Lookup(bytes)
    BY <1>1, <1>5, LookupStable
  <2>2. DecodeInput(bytes) = Lookup(bytes)
    BY <1>1, <1>5, EscapeDecoded
  <2>3. DecodeInput(more) = Lookup(more)
    BY <1>2, <1>5, <2>1, EscapeDecoded
  <2> QED BY <2>1, <2>2, <2>3
<1>6. CASE bytes[1] = Escape /\ Lookup(bytes).len = 0
  <2> DEFINE t == Tail(bytes)
  <2>1. DecodeInput(bytes) = DecodeEscaped(bytes)
    BY <1>1, <1>6, EscapeDecoded
  <2>2. n >= 2 /\ (bytes[2] \in {Escape, Bracket, LetterO} => n >= 3)
    BY <1>6, EscapesAreLong
  <2>3. n # 1 /\ 1 \in 1 .. n - 1 /\ more[2] = bytes[2] /\ n - 1 >= 1 /\ 1 < n
    BY <1>1, <1>2, <2>2, Lengths
  <2>4. /\ t \in ByteSeqs /\ Tail(more) \in ByteSeqs /\ Extending(Tail(more), t)
        /\ Len(t) = n - 1 /\ t[1] = bytes[2]
    BY <1>1, <2>3, TailsExtend
  <2>5. t # <<>> /\ Tail(more) # <<>> /\ Tail(more)[1] = bytes[2] /\ Len(more) # 1
    <3>1. t # <<>>
      <4>1. Len(t) >= 1
        BY <2>3, <2>4
      <4>2. Len(<<>>) = 0
        OBVIOUS
      <4> HIDE DEF t
      <4> QED BY <4>1, <4>2
    <3>2. Len(more) # 1
      BY <1>1, <1>2, <2>2, Lengths
    <3> QED BY <2>4, <3>1, <3>2, Lengths
  <2> HIDE DEF t, n
  <2>6. DecodeEscaped(bytes)
          = IF Lookup(t).len # 0
            THEN Key(Lookup(t).len + 1, Lookup(t).key, Lookup(t).mod \cup {"Alt"})
            ELSE IF bytes[2] = Escape THEN Key(2, "Escape", {"Alt"})
            ELSE DecodeChar(bytes, 1, {"Alt"})
    BY <2>3, EscapedIs DEF t, n
  <2>7. DecodeEscaped(more)
          = IF Lookup(Tail(more)).len # 0
            THEN Key(Lookup(Tail(more)).len + 1, Lookup(Tail(more)).key,
                     Lookup(Tail(more)).mod \cup {"Alt"})
            ELSE IF bytes[2] = Escape THEN Key(2, "Escape", {"Alt"})
            ELSE DecodeChar(more, 1, {"Alt"})
    BY <2>3, <2>5, EscapedIs
  <2>8. ASSUME Lookup(t).len = 0, bytes[2] # Escape
        PROVE  Lookup(Tail(more)).len = 0
    <3>1. ControlKey(bytes[2]) = "Unknown"
      <4>1. SUFFICES ASSUME ControlKey(bytes[2]) # "Unknown" PROVE FALSE
        OBVIOUS
      <4>2. Lookup(t) = Key(1, ControlKey(bytes[2]), {})
        BY <2>4, <2>5, <2>8, <4>1, LookupPlain
      <4>3. Key(1, ControlKey(bytes[2]), {}).len = 1
        BY KeyHasLength
      <4> QED BY <2>8, <4>2, <4>3
    <3>2. Lookup(Tail(more)) = Nothing
      BY <2>5, <2>8, <3>1, LookupPlain
    <3> QED BY <3>2, NothingHasNoLength
  <2>9. bytes[2] # Bracket /\ bytes[2] # LetterO
    <3>1. ASSUME bytes[2] \in {Bracket, LetterO} PROVE FALSE
      <4>1. n >= 3 /\ ~(n < 3)
        BY <1>2, <2>2, <3>1 DEF n
      <4>2. bytes[2] # Escape /\ ControlKey(bytes[2]) = "Unknown"
        BY <3>1 DEF Bracket, LetterO, Escape, ControlKey
      <4>3. Lookup(t) = Nothing
        BY <2>4, <2>5, <4>2, LookupPlain
      <4>4. DecodeEscaped(bytes) = DecodeChar(bytes, 1, {"Alt"})
        BY <2>6, <4>2, <4>3, NothingHasNoLength
      <4> DEFINE part == SubSeq(bytes, 2, Len(bytes))
      <4>5. bytes[2] \in {91, 79} /\ ~(bytes[2] < 32) /\ bytes[2] < 128
        BY <3>1 DEF Bracket, LetterO
      <4>6. part[1] = bytes[2] /\ Len(part) # 0
        <5>1. bytes \in Seq(ByteValues) /\ Len(bytes) >= 3 /\ Len(bytes) \in Nat
          BY <1>1, <1>2, <4>1 DEF ByteSeqs, n
        <5> QED BY <5>1
      <4>7. CodePoint(part).len = 1
        BY <4>5, <4>6 DEF CodePoint
      <4> HIDE DEF part
      <4>8. DecodeChar(bytes, 1, {"Alt"})
              = Decoded(CodePoint(part).len + 1, "UnicodeChar", {"Alt"}, CodePoint(part).unicode)
        <5>1. 1 + 1 = 2
          OBVIOUS
        <5>2. DecodeChar(bytes, 1, {"Alt"})
                = IF bytes[2] < 32
                  THEN Decoded(2, "UnicodeChar", {"Alt"} \cup {"Ctrl"},
                               IF bytes[2] \in 1 .. 26 THEN bytes[2] + 96 ELSE bytes[2] + 64)
                  ELSE IF CodePoint(part).len > 0
                  THEN Decoded(CodePoint(part).len + 1, "UnicodeChar", {"Alt"},
                               CodePoint(part).unicode)
                  ELSE IF CodePoint(part).len = 0 THEN Nothing
                  ELSE Key(1 + 1, "Unknown", {})
          BY <5>1, CharIs DEF part
        <5>3. CodePoint(part).len > 0
          BY <4>7
        <5> QED BY <4>5, <5>2, <5>3
      <4>9. DecodeChar(bytes, 1, {"Alt"}).len = CodePoint(part).len + 1
        <5>1. Decoded(CodePoint(part).len + 1, "UnicodeChar", {"Alt"}, CodePoint(part).unicode).len
                = CodePoint(part).len + 1
          BY DEF Decoded
        <5> QED BY <4>8, <5>1
      <4> QED BY <1>2, <1>3, <2>1, <4>1, <4>4, <4>7, <4>9
    <3> QED BY <3>1
  <2>10. Lookup(more).len = 0
    BY <1>2, <1>6, <2>3, <2>9, LookupFails, NothingHasNoLength
  <2>11. DecodeInput(more) = DecodeEscaped(more)
    BY <1>2, <1>6, <2>10, EscapeDecoded
  <2>12. CASE Lookup(t).len # 0
    <3>1. Lookup(Tail(more)) = Lookup(t)
      BY <2>4, <2>12, LookupStable
    <3> QED BY <2>1, <2>6, <2>7, <2>11, <2>12, <3>1
  <2>13. CASE Lookup(t).len = 0 /\ bytes[2] # Escape
    <3>1. DecodeEscaped(bytes) = DecodeChar(bytes, 1, {"Alt"})
      BY <2>6, <2>13
    <3>2. DecodeEscaped(more) = DecodeChar(more, 1, {"Alt"})
      BY <2>7, <2>8, <2>13
    <3>3. DecodeChar(bytes, 1, {"Alt"}).len # 0 /\ 1 < Len(bytes)
      BY <1>2, <1>3, <2>1, <2>3, <3>1 DEF n
    <3> QED BY <1>1, <2>1, <2>11, <3>1, <3>2, <3>3, CharStable
  <2>14. CASE Lookup(t).len = 0 /\ bytes[2] = Escape
    <3>1. DecodeEscaped(bytes) = Key(2, "Escape", {"Alt"})
      BY <2>6, <2>14
    <3>2. Key(2, "Escape", {"Alt"}).len = 2
      BY KeyHasLength
    <3>3. n >= 3 /\ n \in Nat
      BY <1>2, <2>2, <2>14 DEF n
    <3>4. n = 2
      BY <1>3, <2>1, <3>1, <3>2
    <3> QED BY <3>3, <3>4
  <2> QED BY <2>12, <2>13, <2>14
<1> QED BY <1>4, <1>5, <1>6

(* The beginning of a character is not decoded before it is complete. *)
LEMMA BeginningWaits ==
  ASSUME NEW bytes \in ByteSeqs, NEW more \in ByteSeqs, Extending(more, bytes),
         bytes # <<>>, bytes[1] # Escape, Len(bytes) < Len(more),
         DecodeInput(more).len = Len(more)
  PROVE  DecodeInput(bytes).len = 0
<1>1. Len(bytes) \in Nat /\ Len(bytes) >= 1 /\ Len(more) \in Nat /\ more # <<>> /\ more[1] = bytes[1]
  BY Lengths
<1>2. Len(more) # 1 /\ 0 < Len(bytes)
  <2> DEFINE n == Len(bytes)
             m == Len(more)
  <2>1. n \in Nat /\ n >= 1 /\ m \in Nat /\ n < m
    BY <1>1
  <2> HIDE DEF n, m
  <2>2. m # 1 /\ 0 < n
    BY <2>1
  <2> QED BY <2>2 DEF n, m
<1>3. ControlKey(bytes[1]) = "Unknown"
  <2>1. SUFFICES ASSUME ControlKey(bytes[1]) # "Unknown" PROVE FALSE
    OBVIOUS
  <2>2. DecodeInput(more) = Key(1, ControlKey(bytes[1]), {})
    BY <1>1, <2>1, PlainDecoded
  <2>3. Key(1, ControlKey(bytes[1]), {}).len = 1
    BY KeyHasLength
  <2> QED BY <1>2, <2>2, <2>3
<1>4. DecodeInput(bytes) = DecodeChar(bytes, 0, {}) /\ DecodeInput(more) = DecodeChar(more, 0, {})
  BY <1>1, <1>3, PlainDecoded
<1>5. SUFFICES ASSUME DecodeChar(bytes, 0, {}).len # 0 PROVE FALSE
  BY <1>4
<1>6. DecodeChar(more, 0, {}) = DecodeChar(bytes, 0, {})
  BY <1>2, <1>5, CharStable
<1> DEFINE part == SubSeq(bytes, 1, Len(bytes))
<1>7. part \in ByteSeqs /\ Len(part) = Len(bytes)
  BY DEF ByteSeqs
<1>8. CodePoint(part).len \in {0, 1, 2, 3, 4} /\ CodePoint(part).len <= Len(part)
  <2>1. Extending(part, part)
    BY <1>1, <1>7 DEF Extending
  <2> QED BY <1>7, <2>1, CodePointStable
<1> HIDE DEF part
<1>9. DecodeChar(bytes, 0, {})
        = IF bytes[1] < 32
          THEN Decoded(1, "UnicodeChar", {"Ctrl"},
                       IF bytes[1] \in 1 .. 26 THEN bytes[1] + 96 ELSE bytes[1] + 64)
          ELSE IF CodePoint(part).len > 0
          THEN Decoded(CodePoint(part).len + 0, "UnicodeChar", {}, CodePoint(part).unicode)
          ELSE IF CodePoint(part).len = 0 THEN Nothing
          ELSE Key(1, "Unknown", {})
  <2>1. 0 + 1 = 1 /\ 1 + 0 = 1 /\ {} \cup {"Ctrl"} = {"Ctrl"}
    OBVIOUS
  <2> QED BY <2>1, CharIs DEF part
<1>10. DecodeChar(bytes, 0, {}).len <= Len(bytes)
  <2>1. CASE bytes[1] < 32
    <3>1. DecodeChar(bytes, 0, {}).len = 1
      <4> DEFINE u == IF bytes[1] \in 1 .. 26 THEN bytes[1] + 96 ELSE bytes[1] + 64
      <4>1. Decoded(1, "UnicodeChar", {"Ctrl"}, u).len = 1
        BY DEF Decoded
      <4>2. DecodeChar(bytes, 0, {}) = Decoded(1, "UnicodeChar", {"Ctrl"}, u)
        BY <1>9, <2>1
      <4> QED BY <4>1, <4>2
    <3> QED BY <1>1, <3>1
  <2>2. CASE ~(bytes[1] < 32) /\ CodePoint(part).len > 0
    <3>1. DecodeChar(bytes, 0, {}).len = CodePoint(part).len + 0
      <4>1. Decoded(CodePoint(part).len + 0, "UnicodeChar", {}, CodePoint(part).unicode).len
              = CodePoint(part).len + 0
        BY DEF Decoded
      <4> QED BY <1>9, <2>2, <4>1
    <3> QED BY <1>1, <1>7, <1>8, <3>1
  <2>3. CASE ~(bytes[1] < 32) /\ ~(CodePoint(part).len > 0)
    <3>1. CodePoint(part).len = 0
      BY <1>8, <2>3
    <3> QED BY <1>1, <1>9, <2>3, <3>1, NothingHasNoLength
  <2> QED BY <2>1, <2>2, <2>3
<1> QED BY <1>1, <1>4, <1>6, <1>10

LEMMA NoInputWaits == DecodeInput(<<>>).len = 0
  BY NothingHasNoLength DEF DecodeInput

-----------------------------------------------------------------------------
(* What has been received: the bytes of n keys, and a part of the next.    *)

Placed(bytes, sent, n, p, c) ==
  /\ c[0] = 0
  /\ \A k \in 1 .. n : c[k] = c[k - 1] + Len(sent[k])
  /\ \A k \in 1 .. n : \A j \in 1 .. Len(sent[k]) : bytes[c[k - 1] + j] = sent[k][j]
  /\ Len(bytes) = c[n] + Len(p)
  /\ \A j \in 1 .. Len(p) : bytes[c[n] + j] = p[j]

Joins(bytes, sent, n, p) == \E c \in [0 .. n -> Nat] : Placed(bytes, sent, n, p, c)

LEMMA PlacesGrow ==
  ASSUME NEW n \in Nat, NEW sent, \A k \in 1 .. n : sent[k] \in ByteSeqs,
         NEW c \in [0 .. n -> Nat], \A k \in 1 .. n : c[k] = c[k - 1] + Len(sent[k]),
         NEW m \in 0 .. n
  PROVE  \A k \in m .. n : c[m] <= c[k]
<1> DEFINE A == {k \in 0 .. n - m : c[m] <= c[m + k]}
<1>1. c[m] \in Nat
  OBVIOUS
<1>2. 0 \in A
  <2>1. m + 0 = m /\ 0 \in 0 .. n - m
    OBVIOUS
  <2> QED BY <1>1, <2>1
<1>3. ASSUME NEW k \in 1 .. n - m, k - 1 \in A PROVE k \in A
  <2> DEFINE i == m + k
  <2>1. i \in 1 .. n /\ m + (k - 1) = i - 1 /\ i - 1 \in 0 .. n /\ i \in 0 .. n
    OBVIOUS
  <2>2. c[m] <= c[i - 1]
    BY <1>3, <2>1
  <2>3. Len(sent[i]) \in Nat
    BY <2>1 DEF ByteSeqs
  <2>4. c[i] = c[i - 1] + Len(sent[i]) /\ c[i - 1] \in Nat
    BY <2>1
  <2> DEFINE x == c[i - 1]
             y == Len(sent[i])
             z == c[m]
  <2>5. x \in Nat /\ y \in Nat /\ z \in Nat /\ z <= x /\ c[i] = x + y
    BY <1>1, <2>2, <2>3, <2>4
  <2> HIDE DEF x, y, z
  <2>6. z <= x + y
    BY <2>5
  <2>7. c[m] <= c[i]
    BY <2>5, <2>6 DEF z
  <2> QED BY <2>7
<1>4. n - m \in Nat
  OBVIOUS
<1> HIDE DEF A
<1>5. \A k \in 0 .. n - m : k \in A
  BY <1>2, <1>3, <1>4, Upwards
<1>6. ASSUME NEW k \in m .. n PROVE c[m] <= c[k]
  <2>1. k - m \in 0 .. n - m /\ m + (k - m) = k
    OBVIOUS
  <2>2. k - m \in A
    BY <1>5, <2>1
  <2>3. c[m] <= c[m + (k - m)]
    BY <2>2 DEF A
  <2> QED BY <2>1, <2>3
<1> QED BY <1>6

(* More of the next key. *)
LEMMA JoinsMore ==
  ASSUME NEW n \in Nat, NEW sent, \A k \in 1 .. n : sent[k] \in ByteSeqs,
         NEW bytes \in ByteSeqs, NEW p \in ByteSeqs, Joins(bytes, sent, n, p),
         NEW q \in ByteSeqs
  PROVE  Joins(bytes \o q, sent, n, p \o q)
<1>1. PICK c \in [0 .. n -> Nat] : Placed(bytes, sent, n, p, c)
  BY DEF Joins
<1> DEFINE more == bytes \o q
           r == p \o q
           l == Len(bytes)
           lp == Len(p)
           lq == Len(q)
<1>2. /\ l \in Nat /\ lq \in Nat /\ Len(more) = l + lq
      /\ \A i \in 1 .. l : more[i] = bytes[i]
      /\ \A i \in 1 .. lq : more[l + i] = q[i]
  BY ConcatIs DEF ByteSeqs
<1>3. /\ lp \in Nat /\ Len(r) = lp + lq
      /\ \A i \in 1 .. lp : r[i] = p[i]
      /\ \A i \in 1 .. lq : r[lp + i] = q[i]
  BY ConcatIs DEF ByteSeqs
<1>4. /\ c[0] = 0
      /\ \A k \in 1 .. n : c[k] = c[k - 1] + Len(sent[k])
      /\ \A k \in 1 .. n : \A j \in 1 .. Len(sent[k]) : bytes[c[k - 1] + j] = sent[k][j]
      /\ l = c[n] + lp
      /\ \A j \in 1 .. lp : bytes[c[n] + j] = p[j]
  BY <1>1 DEF Placed
<1> HIDE DEF more, r, l, lp, lq
<1>5. c[n] \in Nat
  OBVIOUS
<1>6. ASSUME NEW k \in 1 .. n, NEW j \in 1 .. Len(sent[k])
      PROVE  more[c[k - 1] + j] = sent[k][j]
  <2>1. k \in 0 .. n /\ k \in k .. n /\ n \in k .. n /\ k - 1 \in 0 .. n
    OBVIOUS
  <2>2. c[k] <= c[n]
    BY <1>4, <2>1, PlacesGrow
  <2>3. Len(sent[k]) \in Nat
    BY DEF ByteSeqs
  <2>4. c[k] = c[k - 1] + Len(sent[k]) /\ c[k - 1] \in Nat /\ c[k] \in Nat
    BY <1>4, <2>1
  <2> DEFINE x == c[k - 1]
             y == Len(sent[k])
             z == c[k]
             w == c[n]
  <2>5. /\ x \in Nat /\ y \in Nat /\ z \in Nat /\ w \in Nat /\ z <= w /\ z = x + y
        /\ l = w + lp /\ j \in 1 .. y
    BY <1>4, <1>5, <2>2, <2>3, <2>4
  <2> HIDE DEF x, y, z, w
  <2>6. x + j \in 1 .. l
    BY <1>2, <1>3, <2>5
  <2>7. more[x + j] = bytes[x + j]
    BY <1>2, <2>6
  <2>8. bytes[x + j] = sent[k][j]
    BY <1>4 DEF x
  <2> QED BY <2>7, <2>8 DEF x
<1>7. ASSUME NEW j \in 1 .. Len(r)
      PROVE  more[c[n] + j] = r[j]
  <2> DEFINE w == c[n]
  <2>1. w \in Nat /\ l = w + lp /\ j \in 1 .. lp + lq
    BY <1>3, <1>4, <1>5
  <2>2. \A i \in 1 .. lp : bytes[w + i] = p[i]
    BY <1>4
  <2> HIDE DEF w
  <2>3. CASE j <= lp
    <3>1. j \in 1 .. lp /\ w + j \in 1 .. l
      BY <1>2, <1>3, <2>1, <2>3
    <3> QED BY <1>2, <1>3, <2>2, <3>1 DEF w
  <2>4. CASE j > lp
    <3>1. j - lp \in 1 .. lq /\ l + (j - lp) = w + j /\ lp + (j - lp) = j
      BY <1>2, <1>3, <2>1, <2>4
    <3>2. more[l + (j - lp)] = q[j - lp] /\ r[lp + (j - lp)] = q[j - lp]
      BY <1>2, <1>3, <3>1
    <3> QED BY <3>1, <3>2 DEF w
  <2>5. j <= lp \/ j > lp
    BY <1>3, <2>1
  <2> QED BY <2>3, <2>4, <2>5
<1>8. Len(more) = c[n] + Len(r)
  <2> DEFINE w == c[n]
  <2>1. w \in Nat /\ l = w + lp
    BY <1>4, <1>5
  <2> HIDE DEF w
  <2>2. l + lq = w + (lp + lq)
    BY <1>2, <1>3, <2>1
  <2> QED BY <1>2, <1>3, <2>2 DEF w
<1>9. Placed(more, sent, n, r, c)
  BY <1>4, <1>6, <1>7, <1>8 DEF Placed
<1> QED BY <1>9 DEF Joins, more, r

(* The next key is complete. *)
LEMMA JoinsNext ==
  ASSUME NEW n \in Nat, NEW sent, \A k \in 1 .. n + 1 : sent[k] \in ByteSeqs,
         NEW bytes \in ByteSeqs, Joins(bytes, sent, n, sent[n + 1])
  PROVE  Joins(bytes, sent, n + 1, <<>>)
<1>1. PICK c \in [0 .. n -> Nat] : Placed(bytes, sent, n, sent[n + 1], c)
  BY DEF Joins
<1> DEFINE last == c[n] + Len(sent[n + 1])
           d == [k \in 0 .. n + 1 |-> IF k = n + 1 THEN last ELSE c[k]]
<1>2. /\ c[0] = 0
      /\ \A k \in 1 .. n : c[k] = c[k - 1] + Len(sent[k])
      /\ \A k \in 1 .. n : \A j \in 1 .. Len(sent[k]) : bytes[c[k - 1] + j] = sent[k][j]
      /\ Len(bytes) = last
      /\ \A j \in 1 .. Len(sent[n + 1]) : bytes[c[n] + j] = sent[n + 1][j]
  BY <1>1 DEF Placed
<1>3. last \in Nat
  <2>1. n + 1 \in 1 .. n + 1
    OBVIOUS
  <2>2. sent[n + 1] \in Seq(ByteValues)
    BY <2>1 DEF ByteSeqs
  <2>3. Len(sent[n + 1]) \in Nat /\ c[n] \in Nat
    BY <2>2
  <2> DEFINE x == c[n]
             y == Len(sent[n + 1])
  <2>4. x \in Nat /\ y \in Nat
    BY <2>3
  <2> HIDE DEF x, y
  <2>5. x + y \in Nat
    BY <2>4
  <2> QED BY <2>5 DEF x, y
<1> HIDE DEF last
<1>4. d \in [0 .. n + 1 -> Nat]
  <2>1. ASSUME NEW k \in 0 .. n + 1 PROVE (IF k = n + 1 THEN last ELSE c[k]) \in Nat
    <3>1. k # n + 1 => k \in 0 .. n
      OBVIOUS
    <3> QED BY <1>3, <3>1
  <2> QED BY <2>1
<1>5. d[n + 1] = last /\ \A k \in 0 .. n : d[k] = c[k]
  OBVIOUS
<1> HIDE DEF d
<1>6. d[0] = 0
  BY <1>2, <1>5
<1>7. ASSUME NEW k \in 1 .. n + 1 PROVE d[k] = d[k - 1] + Len(sent[k])
  <2>1. CASE k = n + 1
    <3>1. k - 1 = n /\ n \in 0 .. n
      BY <2>1
    <3> QED BY <1>5, <2>1, <3>1 DEF last
  <2>2. CASE k # n + 1
    <3>1. k \in 1 .. n /\ k \in 0 .. n /\ k - 1 \in 0 .. n
      BY <2>2
    <3> QED BY <1>2, <1>5, <3>1
  <2> QED BY <2>1, <2>2
<1>8. ASSUME NEW k \in 1 .. n + 1, NEW j \in 1 .. Len(sent[k])
      PROVE  bytes[d[k - 1] + j] = sent[k][j]
  <2>1. CASE k = n + 1
    <3>1. k - 1 = n /\ n \in 0 .. n
      BY <2>1
    <3>2. d[k - 1] = c[n]
      BY <1>5, <3>1
    <3> QED BY <1>2, <2>1, <3>2
  <2>2. CASE k # n + 1
    <3>1. k \in 1 .. n /\ k - 1 \in 0 .. n
      BY <2>2
    <3>2. d[k - 1] = c[k - 1]
      BY <1>5, <3>1
    <3> QED BY <1>2, <3>1, <3>2
  <2> QED BY <2>1, <2>2
<1>9. Len(<<>>) = 0 /\ last + 0 = last
  BY <1>3
<1>10. Len(bytes) = d[n + 1] + Len(<<>>)
  BY <1>2, <1>5, <1>9
<1>11. \A j \in 1 .. Len(<<>>) : bytes[d[n + 1] + j] = <<>>[j]
  BY <1>9
<1>12. Placed(bytes, sent, n + 1, <<>>, d)
  BY <1>6, <1>7, <1>8, <1>10, <1>11 DEF Placed
<1> QED BY <1>4, <1>12 DEF Joins

(* The bytes of the first key are what comes first, and may be dropped. *)
LEMMA JoinsFirst ==
  ASSUME NEW n \in Nat, n >= 1, NEW sent, \A k \in 1 .. n : sent[k] \in ByteSeqs,
         NEW bytes \in ByteSeqs, NEW p \in ByteSeqs, Joins(bytes, sent, n, p),
         NEW rest, \A k \in 1 .. n - 1 : rest[k] = sent[k + 1]
  PROVE  /\ Extending(bytes, sent[1])
         /\ Joins(SubSeq(bytes, Len(sent[1]) + 1, Len(bytes)), rest, n - 1, p)
<1>1. PICK c \in [0 .. n -> Nat] : Placed(bytes, sent, n, p, c)
  BY DEF Joins
<1> DEFINE l == Len(bytes)
           lp == Len(p)
           x == Len(sent[1])
           left == SubSeq(bytes, x + 1, l)
           d == [k \in 0 .. n - 1 |-> c[k + 1] - x]
<1>2. /\ c[0] = 0
      /\ \A k \in 1 .. n : c[k] = c[k - 1] + Len(sent[k])
      /\ \A k \in 1 .. n : \A j \in 1 .. Len(sent[k]) : bytes[c[k - 1] + j] = sent[k][j]
      /\ l = c[n] + lp
      /\ \A j \in 1 .. lp : bytes[c[n] + j] = p[j]
  BY <1>1 DEF Placed
<1>3. l \in Nat /\ lp \in Nat /\ 1 \in 1 .. n /\ x \in Nat
  <2>1. 1 \in 1 .. n
    OBVIOUS
  <2>2. sent[1] \in Seq(ByteValues) /\ bytes \in Seq(ByteValues) /\ p \in Seq(ByteValues)
    BY <2>1 DEF ByteSeqs
  <2> QED BY <2>1, <2>2
<1>4. c[1] = x
  <2>1. c[1] = c[1 - 1] + x /\ 1 - 1 = 0
    BY <1>2, <1>3
  <2> HIDE DEF x
  <2> QED BY <1>2, <1>3, <2>1
<1>5. \A k \in 1 .. n : x <= c[k]
  <2>1. 1 \in 0 .. n
    OBVIOUS
  <2>2. ASSUME NEW k \in 1 .. n PROVE c[1] <= c[k]
    <3> DEFINE m == 1
    <3>1. m \in 0 .. n /\ k \in m .. n
      BY <2>1
    <3>2. \A i \in 1 .. n : c[i] = c[i - 1] + Len(sent[i])
      BY <1>2
    <3> HIDE DEF m, l, lp, x, left, d
    <3>3. c[m] <= c[k]
      BY <3>1, <3>2, PlacesGrow
    <3> QED BY <3>3 DEF m
  <2> QED BY <1>4, <2>2
<1>6. \A j \in 1 .. x : bytes[j] = sent[1][j]
  <2>1. ASSUME NEW j \in 1 .. x PROVE bytes[j] = sent[1][j]
    <3> DEFINE k == 1
    <3>1. k \in 1 .. n /\ j \in 1 .. Len(sent[k]) /\ k - 1 = 0
      BY <1>3
    <3> HIDE DEF k, x
    <3>2. bytes[c[k - 1] + j] = sent[k][j]
      BY <1>2, <3>1
    <3>3. 0 + j = j
      BY <1>3
    <3> QED BY <1>2, <3>1, <3>2, <3>3 DEF k
  <2> QED BY <2>1
<1> DEFINE w == c[n]
<1>7. w \in Nat /\ x <= w /\ l = w + lp
  BY <1>2, <1>5
<1> HIDE DEF l, lp, x, w
<1>8. x <= l /\ x + 1 \in Nat /\ x + 1 >= 1 /\ l <= l
  BY <1>3, <1>7
<1>9. Extending(bytes, sent[1])
  BY <1>6, <1>8 DEF Extending, x, l
<1>10. /\ Len(left) = IF x + 1 <= l THEN l - (x + 1) + 1 ELSE 0
       /\ \A i \in 1 .. l - (x + 1) + 1 : left[i] = bytes[(x + 1) + i - 1]
  BY <1>3, <1>8, PartIs DEF ByteSeqs, l
<1> HIDE DEF left
<1>11. Len(left) = l - x
  BY <1>3, <1>8, <1>10
<1>12. ASSUME NEW i \in 1 .. l - x PROVE left[i] = bytes[x + i]
  <2>1. i \in 1 .. l - (x + 1) + 1 /\ (x + 1) + i - 1 = x + i
    BY <1>3, <1>8
  <2> QED BY <1>10, <2>1
<1>13. d \in [0 .. n - 1 -> Nat]
  <2>1. ASSUME NEW k \in 0 .. n - 1 PROVE c[k + 1] - x \in Nat
    <3>1. k + 1 \in 1 .. n /\ k + 1 \in 0 .. n
      OBVIOUS
    <3>2. c[k + 1] \in Nat /\ x <= c[k + 1]
      BY <1>5, <3>1
    <3> QED BY <1>3, <3>2
  <2> QED BY <2>1
<1>14. \A k \in 0 .. n - 1 : d[k] = c[k + 1] - x
  OBVIOUS
<1> HIDE DEF d
<1>15. d[0] = 0
  <2>1. 0 \in 0 .. n - 1 /\ 0 + 1 = 1
    OBVIOUS
  <2>2. d[0] = c[1] - x
    BY <1>14, <2>1
  <2> QED BY <1>3, <1>4, <2>2
<1>16. ASSUME NEW k \in 1 .. n - 1
       PROVE  /\ d[k] = d[k - 1] + Len(rest[k])
              /\ \A j \in 1 .. Len(rest[k]) : left[d[k - 1] + j] = rest[k][j]
  <2>1. k \in 0 .. n - 1 /\ k - 1 \in 0 .. n - 1 /\ k + 1 \in 1 .. n /\ (k - 1) + 1 = k
        /\ (k + 1) - 1 = k /\ k \in 1 .. n /\ k \in 0 .. n /\ k + 1 \in 0 .. n
    OBVIOUS
  <2>2. rest[k] = sent[k + 1] /\ sent[k + 1] \in ByteSeqs
    BY <2>1
  <2>3. d[k] = c[k + 1] - x /\ d[k - 1] = c[k] - x
    BY <1>14, <2>1
  <2>4. c[k + 1] = c[k] + Len(sent[k + 1])
    BY <1>2, <2>1
  <2> DEFINE y == Len(sent[k + 1])
             u == c[k]
             v == c[k + 1]
  <2>5. y \in Nat
    BY <2>2 DEF ByteSeqs
  <2>6. u \in Nat /\ v \in Nat /\ x <= u /\ v = u + y
    BY <1>5, <2>1, <2>4
  <2>7. v <= w
    <3> DEFINE m == k + 1
    <3>1. m \in 0 .. n /\ n \in m .. n
      BY <2>1
    <3> HIDE DEF m
    <3>2. \A i \in m .. n : c[m] <= c[i]
      <4>1. \A i \in 1 .. n : c[i] = c[i - 1] + Len(sent[i])
        BY <1>2
      <4> QED BY <3>1, <4>1, PlacesGrow
    <3>3. c[m] <= c[n]
      BY <3>1, <3>2
    <3> QED BY <3>2 DEF m, w
  <2>8. d[k] = v - x /\ d[k - 1] = u - x
    BY <2>3
  <2>9. \A j \in 1 .. y : bytes[u + j] = sent[k + 1][j]
    BY <1>2, <2>1
  <2> HIDE DEF y, u, v
  <2>10. d[k] = d[k - 1] + y
    BY <1>3, <2>5, <2>6, <2>8
  <2>11. ASSUME NEW j \in 1 .. y PROVE left[d[k - 1] + j] = sent[k + 1][j]
    <3>1. (u - x) + j \in 1 .. l - x /\ x + ((u - x) + j) = u + j
      BY <1>3, <1>7, <2>5, <2>6, <2>7
    <3>2. left[(u - x) + j] = bytes[x + ((u - x) + j)]
      BY <1>12, <3>1
    <3> QED BY <2>8, <2>9, <3>1, <3>2
  <2> QED BY <2>2, <2>10, <2>11 DEF y
<1>17. d[n - 1] = w - x
  <2>1. n - 1 \in 0 .. n - 1 /\ (n - 1) + 1 = n
    OBVIOUS
  <2> QED BY <1>14, <2>1 DEF w
<1>18. Len(left) = d[n - 1] + lp
  <2>1. l - x = (w - x) + lp
    BY <1>3, <1>7
  <2> QED BY <1>11, <1>17, <2>1
<1>19. ASSUME NEW j \in 1 .. lp PROVE left[d[n - 1] + j] = p[j]
  <2>1. (w - x) + j \in 1 .. l - x /\ x + ((w - x) + j) = w + j
    BY <1>3, <1>7
  <2>2. left[(w - x) + j] = bytes[x + ((w - x) + j)]
    BY <1>12, <2>1
  <2>3. bytes[w + j] = p[j]
    BY <1>2 DEF w
  <2> QED BY <1>17, <2>1, <2>2, <2>3
<1>20. Placed(left, rest, n - 1, p, d)
  BY <1>15, <1>16, <1>18, <1>19 DEF Placed, lp
<1> QED BY <1>9, <1>13, <1>20 DEF Joins, left, x, l

(* Keys that are sent as decode_input knows them, escape sequences as one. *)
OrdinaryKeys == ~SplitsSequences /\ \A key \in UNION Keyboards : key.key # "Unknown"

KeySeqs == Seq(UNION Keyboards)

SentFor(keys) == [k \in 1 .. Len(keys) |-> Encoding(keys[k])]

(* n of the keys have arrived in bytes, and the part p of the next one;    *)
(* the rest of it and the other keys are in pieces.                        *)
Arrived(bytes, pieces, keys, n, p) ==
  /\ Joins(bytes, SentFor(keys), n, p)
  /\ Len(pieces) = Len(keys) - n
  /\ pieces = <<>> => p = <<>>
  /\ pieces # <<>> => p \o pieces[1] = Encoding(keys[n + 1]) /\ pieces[1] # <<>>
  /\ \A i \in 2 .. Len(pieces) : pieces[i] = Encoding(keys[n + i])
  /\ p # <<>> => p[1] # Escape

(* What is received and what is sent is what the keys stand for.           *)
Streams(bytes, pieces, keys) ==
  /\ bytes \in ByteSeqs /\ pieces \in Seq(ByteSeqs) /\ keys \in KeySeqs
  /\ \E n \in 0 .. Len(keys), p \in ByteSeqs : Arrived(bytes, pieces, keys, n, p)

LEMMA EncodingIs ==
  ASSUME OrdinaryKeys, NEW key \in UNION Keyboards
  PROVE  /\ Encoding(key) \in Sequences /\ Encoding(key) \in ByteSeqs
         /\ IsSentAs(key, Encoding(key))
<1>1. IsSentAs(key, Encoding(key))
  BY EncodingAssumption DEF OrdinaryKeys
<1> QED BY <1>1 DEF IsSentAs, Sequences, ByteSeqs, ByteValues

LEMMA SentIs ==
  ASSUME OrdinaryKeys, NEW keys \in KeySeqs
  PROVE  /\ Len(keys) \in Nat
         /\ \A k \in 1 .. Len(keys) :
               /\ keys[k] \in UNION Keyboards
               /\ SentFor(keys)[k] = Encoding(keys[k])
               /\ Encoding(keys[k]) \in ByteSeqs
               /\ Encoding(keys[k]) # <<>>
               /\ SentFor(keys)[k] \in ByteSeqs
<1>1. Len(keys) \in Nat /\ \A k \in 1 .. Len(keys) : keys[k] \in UNION Keyboards
  BY DEF KeySeqs
<1>2. ASSUME NEW k \in 1 .. Len(keys)
      PROVE  /\ SentFor(keys)[k] = Encoding(keys[k])
             /\ Encoding(keys[k]) \in ByteSeqs
             /\ Encoding(keys[k]) # <<>>
  <2>1. SentFor(keys)[k] = Encoding(keys[k])
    BY DEF SentFor
  <2>2. keys[k] \in UNION Keyboards
    BY <1>1
  <2>3. Encoding(keys[k]) \in Sequences
    BY <2>2, EncodingIs
  <2> QED BY <2>1, <2>3 DEF Sequences
<1> QED BY <1>1, <1>2

LEMMA NothingStreams == Streams(<<>>, <<>>, <<>>)
<1>1. <<>> \in ByteSeqs /\ <<>> \in Seq(ByteSeqs) /\ <<>> \in KeySeqs /\ Len(<<>>) = 0
  BY DEF ByteSeqs, KeySeqs
<1> DEFINE c == [k \in 0 .. 0 |-> 0]
<1>2. c \in [0 .. 0 -> Nat] /\ c[0] = 0
  OBVIOUS
<1> HIDE DEF c
<1>3. Placed(<<>>, SentFor(<<>>), 0, <<>>, c)
  BY <1>1, <1>2 DEF Placed
<1>4. Joins(<<>>, SentFor(<<>>), 0, <<>>)
  BY <1>2, <1>3 DEF Joins
<1>5. Arrived(<<>>, <<>>, <<>>, 0, <<>>)
  BY <1>1, <1>4 DEF Arrived
<1> QED BY <1>1, <1>5 DEF Streams

(* Only the keys that have arrived count. *)
LEMMA JoinsSame ==
  ASSUME NEW n \in Nat, NEW sent, NEW other, \A k \in 1 .. n : other[k] = sent[k],
         NEW bytes, NEW p, Joins(bytes, sent, n, p)
  PROVE  Joins(bytes, other, n, p)
<1>1. PICK c \in [0 .. n -> Nat] : Placed(bytes, sent, n, p, c)
  BY DEF Joins
<1>2. /\ c[0] = 0
      /\ Len(bytes) = c[n] + Len(p)
      /\ \A j \in 1 .. Len(p) : bytes[c[n] + j] = p[j]
  BY <1>1 DEF Placed
<1>3. \A k \in 1 .. n : c[k] = c[k - 1] + Len(other[k])
  BY <1>1, ZenonT(20) DEF Placed
<1>4. \A k \in 1 .. n : \A j \in 1 .. Len(other[k]) : bytes[c[k - 1] + j] = other[k][j]
  BY <1>1, ZenonT(20) DEF Placed
<1>5. Placed(bytes, other, n, p, c)
  BY <1>2, <1>3, <1>4, Zenon DEF Placed
<1> QED BY <1>1, <1>5 DEF Joins

LEMMA TypedStreams ==
  ASSUME OrdinaryKeys, NEW bytes, NEW pieces, NEW keys, Streams(bytes, pieces, keys),
         NEW key \in UNION Keyboards
  PROVE  Streams(bytes, Append(pieces, Encoding(key)), Append(keys, key))
<1> DEFINE sent == Encoding(key)
           more == Append(pieces, sent)
           all == Append(keys, key)
           m == Len(pieces)
           l == Len(keys)
<1>1. PICK n \in 0 .. l, p \in ByteSeqs : Arrived(bytes, pieces, keys, n, p)
  BY DEF Streams
<1>2. bytes \in ByteSeqs /\ pieces \in Seq(ByteSeqs) /\ keys \in KeySeqs
  BY DEF Streams
<1>3. l \in Nat /\ m \in Nat
  BY <1>2 DEF KeySeqs
<1>4. sent \in ByteSeqs /\ sent # <<>>
  BY EncodingIs DEF Sequences
<1> HIDE DEF sent
<1>5. /\ more \in Seq(ByteSeqs) /\ Len(more) = m + 1 /\ more[m + 1] = sent
      /\ \A i \in 1 .. m : more[i] = pieces[i]
  BY <1>2, <1>4
<1>6. /\ all \in KeySeqs /\ Len(all) = l + 1 /\ all[l + 1] = key
      /\ \A i \in 1 .. l : all[i] = keys[i]
  BY <1>2 DEF KeySeqs
<1>7. /\ Joins(bytes, SentFor(keys), n, p)
      /\ m = l - n
      /\ pieces = <<>> => p = <<>>
      /\ pieces # <<>> => p \o pieces[1] = Encoding(keys[n + 1]) /\ pieces[1] # <<>>
      /\ \A i \in 2 .. m : pieces[i] = Encoding(keys[n + i])
      /\ p # <<>> => p[1] # Escape
  BY <1>1 DEF Arrived
<1>8. pieces = <<>> <=> m = 0
  BY <1>2
<1> HIDE DEF more, all, m, l
<1>9. n \in 0 .. l + 1 /\ n \in Nat /\ m + 1 = (l + 1) - n /\ n + (m + 1) = l + 1
  BY <1>3, <1>7
<1>10. Joins(bytes, SentFor(all), n, p)
  <2>1. ASSUME NEW k \in 1 .. n PROVE SentFor(all)[k] = SentFor(keys)[k]
    <3>1. k \in 1 .. l /\ k \in 1 .. l + 1
      BY <1>3
    <3> QED BY <1>6, <3>1 DEF SentFor, l
  <2> QED BY <1>7, <1>9, <2>1, JoinsSame
<1>11. more # <<>>
  <2>1. Len(more) # 0
    BY <1>3, <1>5
  <2>2. Len(<<>>) = 0
    OBVIOUS
  <2> QED BY <2>1, <2>2
<1>12. p \o more[1] = Encoding(all[n + 1]) /\ more[1] # <<>>
  <2>1. CASE m = 0
    <3>1. p = <<>> /\ more[1] = sent
      BY <1>5, <1>7, <1>8, <2>1
    <3>2. n + 1 = l + 1
      BY <1>9, <2>1
    <3>3. <<>> \o sent = sent
      BY <1>4 DEF ByteSeqs
    <3> QED BY <1>4, <1>6, <3>1, <3>2, <3>3 DEF sent
  <2>2. CASE m # 0
    <3>1. 1 \in 1 .. m /\ n + 1 \in 1 .. l
      BY <1>3, <1>7, <2>2
    <3>2. more[1] = pieces[1] /\ all[n + 1] = keys[n + 1]
      BY <1>5, <1>6, <3>1
    <3> QED BY <1>7, <1>8, <2>2, <3>2
  <2> QED BY <2>1, <2>2
<1>13. ASSUME NEW i \in 2 .. m + 1 PROVE more[i] = Encoding(all[n + i])
  <2>1. CASE i = m + 1
    <3>1. all[n + i] = key
      BY <1>6, <1>9, <2>1
    <3> QED BY <1>5, <2>1, <3>1 DEF sent
  <2>2. CASE i # m + 1
    <3>1. i \in 1 .. m /\ i \in 2 .. m /\ n + i \in 1 .. l
      BY <1>3, <1>7, <2>2
    <3> QED BY <1>5, <1>6, <1>7, <3>1
  <2> QED BY <2>1, <2>2
<1>14. Arrived(bytes, more, all, n, p)
  BY <1>5, <1>6, <1>7, <1>9, <1>10, <1>11, <1>12, <1>13 DEF Arrived
<1>15. n \in 0 .. Len(all)
  BY <1>6, <1>9
<1>16. Streams(bytes, more, all)
  BY <1>2, <1>5, <1>6, <1>14, <1>15 DEF Streams
<1> QED BY <1>16 DEF more, all, sent

LEMMA ConcatBytes ==
  ASSUME NEW a \in ByteSeqs, NEW b \in ByteSeqs
  PROVE  a \o b \in ByteSeqs
  BY DEF ByteSeqs

LEMMA ConcatThree ==
  ASSUME NEW a \in ByteSeqs, NEW b \in ByteSeqs, NEW c \in ByteSeqs
  PROVE  (a \o b) \o c = a \o (b \o c)
  BY ConcatAssociative DEF ByteSeqs

LEMMA FlattenIs ==
  ASSUME NEW s \in Seq(ByteSeqs), Len(s) # 0
  PROVE  \E f \in [1 .. Len(s) -> ByteSeqs] :
            /\ f[1] = s[1]
            /\ \A i \in 2 .. Len(s) : f[i] = f[i - 1] \o s[i]
            /\ FlattenSeq(s) = f[Len(s)]
<1> DEFINE N == Len(s)
           v == s[1]
           step == [i \in 1 .. N - 1 |-> [b \in ByteSeqs |-> b \o s[i + 1]]]
           h == CHOOSE f : f = [i \in 1 .. N |-> IF i = 1 THEN s[i] ELSE f[i - 1] \o s[i]]
<1>1. N \in Nat /\ N # 0 /\ \A i \in 1 .. N : s[i] \in ByteSeqs
  OBVIOUS
<1>2. FlattenSeq(s) = h[N]
  BY <1>1 DEF FlattenSeq
<1> HIDE DEF N
<1>3. N - 1 \in Nat /\ 1 \in 1 .. N
  BY <1>1
<1>4. step \in [1 .. N - 1 -> [ByteSeqs -> ByteSeqs]]
  <2>1. ASSUME NEW i \in 1 .. N - 1, NEW b \in ByteSeqs
        PROVE  b \o s[i + 1] \in ByteSeqs
    <3>1. i + 1 \in 1 .. N
      BY <1>1
    <3>2. s[i + 1] \in ByteSeqs
      BY <1>1, <3>1
    <3> QED BY <3>2 DEF ByteSeqs
  <2> QED BY <2>1
<1>5. PICK g \in [0 .. N - 1 -> ByteSeqs] : Builds(g, N - 1, v, step)
  <2>1. v \in ByteSeqs
    BY <1>1, <1>3
  <2> HIDE DEF step, v
  <2> QED BY <1>3, <1>4, <2>1, Recursion
<1>6. g[0] = s[1]
  BY <1>5 DEF Builds
<1>7. ASSUME NEW i \in 2 .. N PROVE g[i - 1] = g[i - 2] \o s[i]
  <2>1. i - 1 \in 1 .. N - 1 /\ (i - 1) - 1 = i - 2 /\ (i - 1) + 1 = i /\ i - 2 \in 0 .. N - 1
    BY <1>1
  <2>2. g[i - 1] = step[i - 1][g[i - 2]]
    BY <1>5, <2>1 DEF Builds
  <2>3. g[i - 2] \in ByteSeqs
    BY <2>1
  <2>4. step[i - 1] = [b \in ByteSeqs |-> b \o s[i]]
    BY <2>1
  <2> QED BY <2>2, <2>3, <2>4
<1> HIDE DEF step, v
<1> DEFINE f == [i \in 1 .. N |-> g[i - 1]]
<1>8. f \in [1 .. N -> ByteSeqs]
  <2>1. \A i \in 1 .. N : i - 1 \in 0 .. N - 1
    BY <1>1
  <2> QED BY <2>1
<1>9. f[1] = s[1]
  <2>1. f[1] = g[1 - 1] /\ 1 - 1 = 0
    BY <1>3
  <2> QED BY <1>6, <2>1
<1>10. ASSUME NEW i \in 2 .. N PROVE f[i] = f[i - 1] \o s[i]
  <2>1. i \in 1 .. N /\ i - 1 \in 1 .. N /\ (i - 1) - 1 = i - 2
    BY <1>1
  <2>2. f[i] = g[i - 1] /\ f[i - 1] = g[i - 2]
    BY <2>1
  <2> QED BY <1>7, <2>2
<1>11. f = [i \in 1 .. N |-> IF i = 1 THEN s[i] ELSE f[i - 1] \o s[i]]
  <2>1. ASSUME NEW i \in 1 .. N
        PROVE  f[i] = IF i = 1 THEN s[i] ELSE f[i - 1] \o s[i]
    <3>1. CASE i = 1
      BY <1>9, <3>1
    <3>2. CASE i # 1
      <4>1. i \in 2 .. N
        BY <1>1, <3>2
      <4> QED BY <1>10, <3>2, <4>1
    <3> QED BY <3>1, <3>2
  <2>2. f = [i \in 1 .. N |-> f[i]]
    OBVIOUS
  <2> HIDE DEF f
  <2> QED BY <2>1, <2>2
<1> HIDE DEF f
<1>12. h = [i \in 1 .. N |-> IF i = 1 THEN s[i] ELSE h[i - 1] \o s[i]]
  BY <1>11
<1> HIDE DEF h
<1>13. h[1] = s[1] /\ \A i \in 2 .. N : h[i] = h[i - 1] \o s[i]
  <2>1. h[1] = s[1]
    BY <1>3, <1>12
  <2>2. ASSUME NEW i \in 2 .. N PROVE h[i] = h[i - 1] \o s[i]
    <3>1. i \in 1 .. N /\ i # 1
      BY <1>1
    <3> QED BY <1>12, <3>1
  <2> QED BY <2>1, <2>2
<1>14. h \in [1 .. N -> ByteSeqs]
  <2> DEFINE k == [i \in 0 .. N - 1 |-> h[i + 1]]
  <2>1. k[0] \in ByteSeqs
    <3>1. 0 \in 0 .. N - 1 /\ 0 + 1 = 1
      BY <1>1
    <3>2. k[0] = h[1]
      BY <3>1
    <3> HIDE DEF k
    <3> QED BY <1>1, <1>3, <1>13, <3>2
  <2>2. ASSUME NEW i \in 1 .. N - 1, k[i - 1] \in ByteSeqs PROVE k[i] \in ByteSeqs
    <3>1. i \in 0 .. N - 1 /\ i - 1 \in 0 .. N - 1 /\ (i - 1) + 1 = i
          /\ i + 1 \in 2 .. N /\ (i + 1) - 1 = i /\ i + 1 \in 1 .. N
      BY <1>1
    <3>2. k[i] = h[i + 1] /\ k[i - 1] = h[i]
      BY <3>1
    <3>3. h[i + 1] = h[i] \o s[i + 1]
      BY <1>13, <3>1
    <3>4. s[i + 1] \in ByteSeqs /\ h[i] \in ByteSeqs
      BY <1>1, <2>2, <3>1, <3>2
    <3>5. h[i] \o s[i + 1] \in ByteSeqs
      BY <3>4, ConcatBytes
    <3> HIDE DEF k
    <3> QED BY <3>2, <3>3, <3>5
  <2>3. \A i \in 0 .. N - 1 : k[i] \in ByteSeqs
    <3> HIDE DEF k
    <3> QED BY <1>3, <2>1, <2>2, StaysIn
  <2>4. ASSUME NEW i \in 1 .. N PROVE h[i] \in ByteSeqs
    <3>1. i - 1 \in 0 .. N - 1 /\ (i - 1) + 1 = i
      BY <1>1
    <3>2. k[i - 1] = h[i]
      BY <3>1
    <3> QED BY <2>3, <3>1, <3>2
  <2>5. h = [i \in 1 .. N |-> h[i]]
    BY <1>12
  <2> QED BY <2>4, <2>5
<1> QED BY <1>2, <1>13, <1>14 DEF N

(* The pieces before the n-th one arrive, whole. *)
LEMMA WholePieces ==
  ASSUME OrdinaryKeys, NEW bytes \in ByteSeqs, NEW pieces \in Seq(ByteSeqs), NEW keys \in KeySeqs,
         NEW n \in 0 .. Len(keys), NEW p \in ByteSeqs, Arrived(bytes, pieces, keys, n, p),
         NEW m \in 1 .. Len(pieces)
  PROVE  /\ bytes \o FlattenSeq(SubSeq(pieces, 1, m)) \in ByteSeqs
         /\ n + m \in 0 .. Len(keys)
         /\ Joins(bytes \o FlattenSeq(SubSeq(pieces, 1, m)), SentFor(keys), n + m, <<>>)
<1> DEFINE s == SubSeq(pieces, 1, m)
           l == Len(keys)
           sent == SentFor(keys)
<1>1. /\ l \in Nat
      /\ \A k \in 1 .. l : sent[k] = Encoding(keys[k]) /\ sent[k] \in ByteSeqs
  BY SentIs
<1>2. /\ Joins(bytes, sent, n, p)
      /\ Len(pieces) = l - n
      /\ pieces # <<>> => p \o pieces[1] = Encoding(keys[n + 1]) /\ pieces[1] # <<>>
      /\ \A i \in 2 .. Len(pieces) : pieces[i] = Encoding(keys[n + i])
  BY DEF Arrived
<1>3. Len(pieces) \in Nat /\ m \in Nat /\ m >= 1 /\ pieces # <<>>
  OBVIOUS
<1>4. s \in Seq(ByteSeqs) /\ Len(s) = m /\ \A i \in 1 .. m : s[i] = pieces[i]
  OBVIOUS
<1>5. \A i \in 1 .. m : s[i] \in ByteSeqs
  BY <1>4
<1>6. PICK f \in [1 .. m -> ByteSeqs] :
         /\ f[1] = s[1]
         /\ \A i \in 2 .. m : f[i] = f[i - 1] \o s[i]
         /\ FlattenSeq(s) = f[m]
  <2>1. Len(s) # 0
    BY <1>3, <1>4
  <2> HIDE DEF s
  <2> QED BY <1>4, <2>1, FlattenIs
<1> HIDE DEF s, l, sent
<1>7. n + m \in 0 .. l /\ n \in Nat /\ m <= l - n
  BY <1>1, <1>2, <1>3 DEF l
<1> DEFINE A == {i \in 0 .. m - 1 : Joins(bytes \o f[i + 1], sent, n + i + 1, <<>>)}
<1>8. 0 \in A
  <2>1. n + 1 \in 1 .. l /\ \A k \in 1 .. n + 1 : k \in 1 .. l
    BY <1>1, <1>3, <1>7
  <2>2. 1 \in 1 .. m /\ \A k \in 1 .. n : k \in 1 .. l
    BY <1>3, <2>1
  <2>3. f[1] \in ByteSeqs /\ f[1] = pieces[1]
    BY <1>4, <1>6, <2>2
  <2>4. \A k \in 1 .. n : sent[k] \in ByteSeqs
    BY <1>1, <2>2
  <2>5. Joins(bytes \o f[1], sent, n, p \o f[1])
    BY <1>2, <1>7, <2>3, <2>4, JoinsMore
  <2>6. p \o f[1] = sent[n + 1]
    BY <1>1, <1>2, <1>3, <2>1, <2>3
  <2>7. \A k \in 1 .. n + 1 : sent[k] \in ByteSeqs
    BY <1>1, <2>1
  <2>8. bytes \o f[1] \in ByteSeqs
    BY <2>3 DEF ByteSeqs
  <2>9. Joins(bytes \o f[1], sent, n + 1, <<>>)
    BY <1>7, <2>5, <2>6, <2>7, <2>8, JoinsNext
  <2>10. 0 \in 0 .. m - 1 /\ 0 + 1 = 1 /\ n + 0 + 1 = n + 1
    BY <1>3, <1>7
  <2> QED BY <2>9, <2>10
<1>9. ASSUME NEW i \in 1 .. m - 1, i - 1 \in A PROVE i \in A
  <2>1. /\ i \in 0 .. m - 1 /\ i + 1 \in 2 .. m /\ i + 1 \in 1 .. m /\ i \in 1 .. m
        /\ (i - 1) + 1 = i /\ n + (i - 1) + 1 = n + i /\ (i + 1) - 1 = i /\ n + i \in Nat
        /\ n + (i + 1) = n + i + 1 /\ n + i + 1 \in 1 .. l /\ i + 1 \in 2 .. Len(pieces)
    BY <1>1, <1>2, <1>3, <1>7 DEF l
  <2>2. \A k \in 1 .. n + i + 1 : k \in 1 .. l
    BY <1>1, <2>1
  <2>3. \A k \in 1 .. n + i + 1 : sent[k] \in ByteSeqs
    BY <1>1, <2>2
  <2>4. \A k \in 1 .. n + i : sent[k] \in ByteSeqs
    BY <2>1, <2>3
  <2>5. Joins(bytes \o f[i], sent, n + i, <<>>)
    BY <1>9, <2>1
  <2>6. f[i] \in ByteSeqs /\ s[i + 1] \in ByteSeqs /\ f[i + 1] = f[i] \o s[i + 1]
    BY <1>5, <1>6, <2>1
  <2>7. bytes \o f[i] \in ByteSeqs /\ <<>> \in ByteSeqs
    BY <2>6 DEF ByteSeqs
  <2>8. Joins((bytes \o f[i]) \o s[i + 1], sent, n + i, <<>> \o s[i + 1])
    BY <2>1, <2>4, <2>5, <2>6, <2>7, JoinsMore
  <2>9. (bytes \o f[i]) \o s[i + 1] = bytes \o f[i + 1]
    <3> DEFINE x == f[i]
               y == s[i + 1]
    <3>1. x \in ByteSeqs /\ y \in ByteSeqs /\ f[i + 1] = x \o y
      BY <2>6
    <3> HIDE DEF x, y
    <3>2. (bytes \o x) \o y = bytes \o (x \o y)
      BY <3>1, ConcatThree
    <3> QED BY <3>1, <3>2 DEF x, y
  <2>10. <<>> \o s[i + 1] = s[i + 1]
    BY <2>6 DEF ByteSeqs
  <2>11. s[i + 1] = sent[n + i + 1]
    <3>1. pieces[i + 1] = Encoding(keys[n + (i + 1)])
      BY <1>2, <2>1
    <3>2. s[i + 1] = pieces[i + 1]
      BY <1>4, <2>1
    <3> QED BY <1>1, <2>1, <3>1, <3>2
  <2>12. Joins(bytes \o f[i + 1], sent, n + i, sent[n + i + 1])
    BY <2>8, <2>9, <2>10, <2>11
  <2>13. bytes \o f[i + 1] \in ByteSeqs
    BY <2>6, <2>7, <2>9 DEF ByteSeqs
  <2>14. Joins(bytes \o f[i + 1], sent, n + i + 1, <<>>)
    BY <2>1, <2>3, <2>12, <2>13, JoinsNext
  <2> QED BY <2>1, <2>14
<1>10. m - 1 \in Nat /\ m - 1 \in 0 .. m - 1 /\ (m - 1) + 1 = m /\ n + (m - 1) + 1 = n + m
  BY <1>3, <1>7
<1> HIDE DEF A
<1>11. m - 1 \in A
  BY <1>8, <1>9, <1>10, Upwards
<1>12. Joins(bytes \o f[m], sent, n + m, <<>>)
  BY <1>10, <1>11 DEF A
<1>13. bytes \o f[m] \in ByteSeqs
  <2>1. f[m] \in ByteSeqs
    BY <1>3
  <2> QED BY <2>1 DEF ByteSeqs
<1> QED BY <1>6, <1>7, <1>12, <1>13 DEF s, l, sent

(* Then the pieces after those are what is left.                           *)
LEMMA RestArrives ==
  ASSUME OrdinaryKeys, NEW bytes \in ByteSeqs, NEW pieces \in Seq(ByteSeqs), NEW keys \in KeySeqs,
         NEW n \in 0 .. Len(keys), NEW p \in ByteSeqs, Arrived(bytes, pieces, keys, n, p),
         NEW m \in 1 .. Len(pieces), NEW more,
         Joins(more, SentFor(keys), n + m, <<>>)
  PROVE  Arrived(more, SubSeq(pieces, m + 1, Len(pieces)), keys, n + m, <<>>)
<1> DEFINE l == Len(keys)
           r == Len(pieces)
           rest == SubSeq(pieces, m + 1, r)
<1>1. l \in Nat /\ r \in Nat /\ m \in Nat /\ m >= 1 /\ m <= r /\ r = l - n /\ n \in Nat
  BY SentIs DEF Arrived
<1>2. \A i \in 2 .. r : pieces[i] = Encoding(keys[n + i])
  BY DEF Arrived
<1>3. /\ rest \in Seq(ByteSeqs)
      /\ Len(rest) = IF m + 1 <= r THEN r - (m + 1) + 1 ELSE 0
      /\ \A i \in 1 .. r - (m + 1) + 1 : rest[i] = pieces[(m + 1) + i - 1]
  <2>1. m + 1 \in Nat /\ m + 1 >= 1 /\ r <= Len(pieces)
    BY <1>1
  <2> QED BY <1>1, <2>1, PartIs
<1>4. rest # <<>> => Len(rest) # 0
  BY <1>3
<1> HIDE DEF l, r, rest
<1>5. Len(rest) = r - m
  BY <1>1, <1>3
<1>6. ASSUME NEW i \in 1 .. r - m PROVE rest[i] = Encoding(keys[(n + m) + i])
  <2>1. i \in 1 .. r - (m + 1) + 1 /\ (m + 1) + i - 1 = m + i /\ m + i \in 2 .. r
        /\ n + (m + i) = (n + m) + i
    BY <1>1
  <2> QED BY <1>2, <1>3, <2>1
<1>7. Len(rest) = l - (n + m)
  BY <1>1, <1>5
<1>8. rest # <<>> => <<>> \o rest[1] = Encoding(keys[(n + m) + 1]) /\ rest[1] # <<>>
  <2> SUFFICES ASSUME rest # <<>>
               PROVE  <<>> \o rest[1] = Encoding(keys[(n + m) + 1]) /\ rest[1] # <<>>
    OBVIOUS
  <2>1. 1 \in 1 .. r - m /\ (n + m) + 1 \in 1 .. l
    BY <1>1, <1>4, <1>5
  <2>2. rest[1] = Encoding(keys[(n + m) + 1])
    BY <1>6, <2>1
  <2>3. Encoding(keys[(n + m) + 1]) \in ByteSeqs /\ Encoding(keys[(n + m) + 1]) # <<>>
    BY <2>1, SentIs DEF l
  <2>4. <<>> \o rest[1] = rest[1]
    BY <2>2, <2>3 DEF ByteSeqs
  <2> QED BY <2>2, <2>3, <2>4
<1>9. \A i \in 2 .. Len(rest) : rest[i] = Encoding(keys[(n + m) + i])
  <2>1. \A i \in 2 .. Len(rest) : i \in 1 .. r - m
    BY <1>1, <1>5
  <2> QED BY <1>6, <2>1
<1> QED BY <1>7, <1>8, <1>9 DEF Arrived, l, r, rest

(* Then a part of the next piece. *)
LEMMA PartArrives ==
  ASSUME OrdinaryKeys, NEW bytes \in ByteSeqs, NEW pieces \in Seq(ByteSeqs), NEW keys \in KeySeqs,
         NEW n \in 0 .. Len(keys), NEW p \in ByteSeqs, Arrived(bytes, pieces, keys, n, p),
         pieces # <<>>, NEW part \in 1 .. Len(pieces[1]) - 1, MayCut(pieces[1], part)
  PROVE  LET head == SubSeq(pieces[1], 1, part)
             left == SubSeq(pieces[1], part + 1, Len(pieces[1]))
         IN Streams(bytes \o head, <<left>> \o Tail(pieces), keys)
<1> DEFINE first == pieces[1]
           head == SubSeq(first, 1, part)
           left == SubSeq(first, part + 1, Len(first))
           after == <<left>> \o Tail(pieces)
           l == Len(keys)
           r == Len(pieces)
<1>1. l \in Nat /\ r \in Nat /\ r >= 1 /\ first \in ByteSeqs /\ Tail(pieces) \in Seq(ByteSeqs)
      /\ Len(Tail(pieces)) = r - 1 /\ \A i \in 1 .. r - 1 : Tail(pieces)[i] = pieces[i + 1]
  BY SentIs
<1>2. /\ Joins(bytes, SentFor(keys), n, p)
      /\ r = l - n
      /\ p \o first = Encoding(keys[n + 1])
      /\ \A i \in 2 .. r : pieces[i] = Encoding(keys[n + i])
      /\ p # <<>> => p[1] # Escape
  BY DEF Arrived
<1> HIDE DEF first
<1>3. Len(first) \in Nat /\ part \in Nat /\ part >= 1 /\ part < Len(first) /\ part \in 0 .. Len(first)
      /\ first[1] # Escape
  <2>1. Len(first) \in Nat /\ part \in 1 .. Len(first) - 1
    BY <1>1 DEF ByteSeqs, first
  <2> DEFINE x == Len(first)
  <2>2. x \in Nat /\ part \in 1 .. x - 1
    BY <2>1
  <2> HIDE DEF x
  <2>3. part \in Nat /\ part >= 1 /\ part < x /\ part \in 0 .. x /\ part # 0
    BY <2>2
  <2>4. first[1] # Escape
    BY <2>3 DEF MayCut, OrdinaryKeys, first
  <2> QED BY <2>1, <2>3, <2>4 DEF x
<1>4. head \in ByteSeqs /\ left \in ByteSeqs /\ head \o left = first
  <2>1. head \in ByteSeqs /\ left \in ByteSeqs
    <3>1. first \in Seq(ByteValues)
      BY <1>1 DEF ByteSeqs
    <3>2. part + 1 \in Nat /\ part + 1 >= 1 /\ 1 \in Nat /\ 1 >= 1 /\ part <= Len(first)
          /\ Len(first) <= Len(first)
      BY <1>3
    <3> QED BY <1>3, <3>1, <3>2, PartIs DEF ByteSeqs
  <2>2. head \o left = first
    BY <1>1, <1>3, PartAndRest DEF ByteSeqs
  <2> QED BY <2>1, <2>2
<1>5. head # <<>> /\ head[1] = first[1] /\ left # <<>>
  <2>1. first \in Seq(ByteValues)
    BY <1>1 DEF ByteSeqs
  <2>2. /\ Len(head) = IF 1 <= part THEN part - 1 + 1 ELSE 0
        /\ \A i \in 1 .. part - 1 + 1 : head[i] = first[1 + i - 1]
    <3>1. 1 \in Nat /\ 1 >= 1 /\ part <= Len(first)
      BY <1>3
    <3> QED BY <1>3, <2>1, <3>1, PartIs
  <2>3. Len(left) = IF part + 1 <= Len(first) THEN Len(first) - (part + 1) + 1 ELSE 0
    <3>1. part + 1 \in Nat /\ part + 1 >= 1 /\ Len(first) <= Len(first)
      BY <1>3
    <3> QED BY <1>3, <2>1, <3>1, PartIs
  <2> DEFINE x == Len(first)
  <2>4. x \in Nat /\ Len(left) = IF part + 1 <= x THEN x - (part + 1) + 1 ELSE 0
    BY <1>3, <2>3
  <2>5. part \in Nat /\ part >= 1 /\ part < x
    BY <1>3
  <2> HIDE DEF x, head, left
  <2>6. Len(left) # 0 /\ Len(head) # 0
    BY <2>2, <2>4, <2>5
  <2>7. 1 \in 1 .. part - 1 + 1 /\ 1 + 1 - 1 = 1
    BY <2>5
  <2>8. head[1] = first[1]
    BY <2>2, <2>7
  <2>9. Len(<<>>) = 0
    OBVIOUS
  <2> QED BY <2>6, <2>8, <2>9
<1> HIDE DEF head, left
<1>6. /\ after \in Seq(ByteSeqs) /\ Len(after) = r /\ after[1] = left /\ after # <<>>
      /\ \A i \in 2 .. r : after[i] = pieces[i]
  <2>1. <<left>> \in Seq(ByteSeqs) /\ Len(<<left>>) = 1 /\ <<left>>[1] = left
    BY <1>4
  <2> DEFINE one == <<left>>
             t == Tail(pieces)
  <2>2. one \in Seq(ByteSeqs) /\ t \in Seq(ByteSeqs) /\ Len(one) = 1 /\ one[1] = left
        /\ Len(t) = r - 1 /\ \A i \in 1 .. r - 1 : t[i] = pieces[i + 1]
    BY <1>1, <2>1
  <2> HIDE DEF one, t, r
  <2>3. /\ one \o t \in Seq(ByteSeqs)
        /\ Len(one \o t) = Len(one) + Len(t)
        /\ \A i \in 1 .. Len(one) : (one \o t)[i] = one[i]
        /\ \A i \in 1 .. Len(t) : (one \o t)[Len(one) + i] = t[i]
    <3> DEFINE S == ByteSeqs
    <3>1. one \in Seq(S) /\ t \in Seq(S)
      BY <2>2
    <3> HIDE DEF S
    <3>2. /\ one \o t \in Seq(S)
          /\ Len(one \o t) = Len(one) + Len(t)
          /\ \A i \in 1 .. Len(one) : (one \o t)[i] = one[i]
          /\ \A i \in 1 .. Len(t) : (one \o t)[Len(one) + i] = t[i]
      BY <3>1, ConcatIs
    <3> QED BY <3>2 DEF S
  <2>4. Len(one \o t) = r /\ one \o t # <<>>
    <3>1. Len(one \o t) = r /\ r # 0
      BY <1>1, <2>2, <2>3
    <3> QED BY <3>1, <2>3
  <2>5. (one \o t)[1] = left
    <3>1. 1 \in 1 .. Len(one)
      BY <2>2
    <3> QED BY <2>2, <2>3, <3>1
  <2>6. ASSUME NEW i \in 2 .. r PROVE (one \o t)[i] = pieces[i]
    <3>1. i - 1 \in 1 .. r - 1 /\ 1 + (i - 1) = i /\ (i - 1) + 1 = i
      BY <1>1
    <3>2. (one \o t)[1 + (i - 1)] = t[i - 1]
      BY <2>2, <2>3, <3>1
    <3> QED BY <2>2, <3>1, <3>2
  <2> QED BY <2>3, <2>4, <2>5, <2>6 DEF one, t
<1> HIDE DEF after
<1>7. p \o head \in ByteSeqs /\ bytes \o head \in ByteSeqs
  BY <1>4, ConcatBytes
<1>8. Joins(bytes \o head, SentFor(keys), n, p \o head)
  <2>1. n \in Nat /\ \A k \in 1 .. n : k \in 1 .. Len(keys)
    BY <1>1
  <2>2. \A k \in 1 .. n : SentFor(keys)[k] \in ByteSeqs
    BY <2>1, SentIs
  <2> QED BY <1>2, <1>4, <2>1, <2>2, JoinsMore
<1>9. (p \o head) \o left = Encoding(keys[n + 1])
  BY <1>2, <1>4, ConcatThree
<1>10. (p \o head)[1] # Escape
  <2>1. p \in Seq(ByteValues) /\ head \in Seq(ByteValues)
    BY <1>4 DEF ByteSeqs
  <2>2. /\ Len(p) \in Nat /\ Len(head) \in Nat
        /\ \A i \in 1 .. Len(p) : (p \o head)[i] = p[i]
    BY <2>1, ConcatIs
  <2>3. CASE p = <<>>
    <3>1. p \o head = head
      BY <2>1, <2>3
    <3> QED BY <1>3, <1>5, <3>1
  <2>4. CASE p # <<>>
    <3>1. 1 \in 1 .. Len(p)
      BY <2>1, <2>4
    <3> QED BY <1>2, <2>2, <2>4, <3>1
  <2> QED BY <2>3, <2>4
<1>11. Arrived(bytes \o head, after, keys, n, p \o head)
  <2>1. Len(after) = Len(keys) - n
    BY <1>2, <1>6
  <2>2. (p \o head) \o after[1] = Encoding(keys[n + 1]) /\ after[1] # <<>>
    BY <1>5, <1>6, <1>9
  <2>3. \A i \in 2 .. Len(after) : after[i] = Encoding(keys[n + i])
    BY <1>2, <1>6
  <2> QED BY <1>6, <1>8, <1>10, <2>1, <2>2, <2>3 DEF Arrived
<1>12. Streams(bytes \o head, after, keys)
  BY <1>6, <1>7, <1>11 DEF Streams
<1> QED BY <1>12 DEF head, left, after, first

(* However much of it is received, it is in order.                         *)
LEMMA ReceivedStreams ==
  ASSUME OrdinaryKeys, NEW bytes, NEW pieces, NEW keys, Streams(bytes, pieces, keys),
         NEW n \in 0 .. Len(pieces),
         NEW part \in 0 .. (IF n < Len(pieces) THEN Len(pieces[n + 1]) - 1 ELSE 0),
         NEW rest, rest = SubSeq(pieces, n + 1, Len(pieces)),
         part > 0 => MayCut(rest[1], part)
  PROVE  Streams(bytes \o FlattenSeq(SubSeq(pieces, 1, n))
                   \o (IF part = 0 THEN <<>> ELSE SubSeq(rest[1], 1, part)),
                 IF part = 0 THEN rest
                 ELSE <<SubSeq(rest[1], part + 1, Len(rest[1]))>> \o Tail(rest),
                 keys)
<1> DEFINE whole == bytes \o FlattenSeq(SubSeq(pieces, 1, n))
<1>1. bytes \in ByteSeqs /\ pieces \in Seq(ByteSeqs) /\ keys \in KeySeqs
  BY DEF Streams
<1>2. PICK k \in 0 .. Len(keys), p \in ByteSeqs : Arrived(bytes, pieces, keys, k, p)
  BY DEF Streams
<1>3. /\ whole \in ByteSeqs /\ rest \in Seq(ByteSeqs)
      /\ \E m \in 0 .. Len(keys), q \in ByteSeqs : Arrived(whole, rest, keys, m, q)
  <2>1. CASE n = 0
    <3>1. SubSeq(pieces, 1, 0) = <<>> /\ rest = pieces
      BY <1>1, <2>1
    <3>2. FlattenSeq(<<>>) = <<>>
      BY DEF FlattenSeq
    <3>3. bytes \o <<>> = bytes
      BY <1>1 DEF ByteSeqs
    <3>4. whole = bytes
      BY <2>1, <3>1, <3>2, <3>3
    <3> QED BY <1>1, <1>2, <3>1, <3>4
  <2>2. CASE n # 0
    <3>1. n \in 1 .. Len(pieces)
      BY <1>1, <2>2
    <3>2. /\ whole \in ByteSeqs /\ k + n \in 0 .. Len(keys)
          /\ Joins(whole, SentFor(keys), k + n, <<>>)
      BY <1>1, <1>2, <3>1, WholePieces
    <3> HIDE DEF whole
    <3>3. Arrived(whole, rest, keys, k + n, <<>>)
      BY <1>1, <1>2, <3>1, <3>2, RestArrives
    <3>4. <<>> \in ByteSeqs
      BY DEF ByteSeqs
    <3>5. rest \in Seq(ByteSeqs)
      BY <1>1, <3>1
    <3> QED BY <3>2, <3>3, <3>4, <3>5
  <2> QED BY <2>1, <2>2
<1>4. Streams(whole, rest, keys)
  BY <1>1, <1>3 DEF Streams
<1>5. n < Len(pieces) => rest # <<>> /\ rest[1] = pieces[n + 1]
  <2> SUFFICES ASSUME n < Len(pieces) PROVE rest # <<>> /\ rest[1] = pieces[n + 1]
    OBVIOUS
  <2> DEFINE r == Len(pieces)
             f == n + 1
             S == ByteSeqs
  <2>1. r \in Nat /\ f \in Nat /\ f >= 1 /\ f <= r /\ r <= Len(pieces) /\ pieces \in Seq(S)
        /\ rest = SubSeq(pieces, f, r)
    BY <1>1
  <2> HIDE DEF r, f, S
  <2>2. /\ Len(rest) = IF f <= r THEN r - f + 1 ELSE 0
        /\ \A i \in 1 .. r - f + 1 : rest[i] = pieces[f + i - 1]
    <3>1. /\ Len(SubSeq(pieces, f, r)) = IF f <= r THEN r - f + 1 ELSE 0
          /\ \A i \in 1 .. r - f + 1 : SubSeq(pieces, f, r)[i] = pieces[f + i - 1]
      BY ONLY <2>1, PartIs
    <3> QED BY ONLY <2>1, <3>1
  <2>3. Len(rest) # 0 /\ 1 \in 1 .. r - f + 1 /\ f + 1 - 1 = f
    BY <2>1, <2>2
  <2>4. rest[1] = pieces[f] /\ rest # <<>>
    BY <2>2, <2>3
  <2> QED BY <2>4 DEF f
<1> HIDE DEF whole
<1>6. CASE part = 0
  <2>1. whole \o <<>> = whole
    BY <1>3 DEF ByteSeqs
  <2> QED BY <1>4, <1>6, <2>1 DEF whole
<1>7. CASE part # 0
  <2>1. n < Len(pieces)
    <3> SUFFICES ASSUME ~(n < Len(pieces)) PROVE FALSE
      OBVIOUS
    <3>1. part \in 0 .. 0
      OBVIOUS
    <3> QED BY <1>7, <3>1
  <2>2. rest # <<>> /\ part \in 0 .. Len(rest[1]) - 1
    BY <1>5, <2>1
  <2>3. rest[1] \in ByteSeqs
    BY <1>3, <2>2
  <2>4. part \in 1 .. Len(rest[1]) - 1 /\ part > 0
    <3> DEFINE x == Len(rest[1])
    <3>1. x \in Nat /\ part \in 0 .. x - 1
      BY <2>2, <2>3 DEF ByteSeqs
    <3> HIDE DEF x
    <3>2. part \in 1 .. x - 1 /\ part > 0
      BY <1>7, <3>1
    <3> QED BY <3>2 DEF x
  <2>5. MayCut(rest[1], part)
    BY <2>4
  <2>6. PICK m \in 0 .. Len(keys), q \in ByteSeqs : Arrived(whole, rest, keys, m, q)
    BY <1>3
  <2>7. Streams(whole \o SubSeq(rest[1], 1, part),
                <<SubSeq(rest[1], part + 1, Len(rest[1]))>> \o Tail(rest), keys)
    BY <1>1, <1>3, <2>2, <2>4, <2>5, <2>6, PartArrives
  <2> QED BY <1>7, <2>7 DEF whole
<1> QED BY <1>6, <1>7

(* The keys after the first one. *)
LEMMA NextKeys ==
  ASSUME NEW keys \in KeySeqs, keys # <<>>
  PROVE  /\ SubSeq(keys, 2, Len(keys)) \in KeySeqs
         /\ Len(SubSeq(keys, 2, Len(keys))) = Len(keys) - 1
         /\ \A i \in 1 .. Len(keys) - 1 : SubSeq(keys, 2, Len(keys))[i] = keys[i + 1]
<1> DEFINE S == UNION Keyboards
           l == Len(keys)
           t == SubSeq(keys, 2, l)
<1>1. keys \in Seq(S) /\ l \in Nat /\ l <= Len(keys) /\ l # 0
  BY DEF KeySeqs
<1> HIDE DEF S, l
<1>2. /\ t \in Seq(S)
      /\ Len(t) = IF 2 <= l THEN l - 2 + 1 ELSE 0
      /\ \A i \in 1 .. l - 2 + 1 : t[i] = keys[2 + i - 1]
  BY ONLY <1>1, PartIs
<1> HIDE DEF t
<1>3. Len(t) = l - 1
  BY <1>1, <1>2
<1>4. ASSUME NEW i \in 1 .. l - 1 PROVE t[i] = keys[i + 1]
  <2>1. i \in 1 .. l - 2 + 1 /\ 2 + i - 1 = i + 1
    BY <1>1
  <2> QED BY <1>2, <2>1
<1> QED BY <1>2, <1>3, <1>4 DEF S, l, t, KeySeqs

(* What is waiting is less than a key. *)
LEMMA PartWaits ==
  ASSUME OrdinaryKeys, NEW bytes \in ByteSeqs, NEW pieces \in Seq(ByteSeqs), NEW keys \in KeySeqs,
         NEW p \in ByteSeqs, Arrived(bytes, pieces, keys, 0, p)
  PROVE  DecodeInput(bytes).len = 0
<1>1. /\ Joins(bytes, SentFor(keys), 0, p)
      /\ Len(pieces) = Len(keys) - 0
      /\ pieces = <<>> => p = <<>>
      /\ pieces # <<>> => p \o pieces[1] = Encoding(keys[0 + 1]) /\ pieces[1] # <<>>
      /\ p # <<>> => p[1] # Escape
  BY DEF Arrived
<1>2. bytes = p
  <2>1. PICK c \in [0 .. 0 -> Nat] : Placed(bytes, SentFor(keys), 0, p, c)
    BY <1>1 DEF Joins
  <2>2. c[0] = 0 /\ Len(bytes) = c[0] + Len(p) /\ \A j \in 1 .. Len(p) : bytes[c[0] + j] = p[j]
    BY <2>1 DEF Placed
  <2>3. Len(p) \in Nat /\ Len(bytes) \in Nat
    BY DEF ByteSeqs
  <2>4. Len(bytes) = Len(p)
    BY <2>2, <2>3
  <2>5. ASSUME NEW j \in 1 .. Len(bytes) PROVE bytes[j] = p[j]
    <3>1. j \in 1 .. Len(p) /\ 0 + j = j
      BY <2>3, <2>4
    <3> QED BY <2>2, <3>1
  <2> QED BY <2>4, <2>5, SameSeq DEF ByteSeqs
<1>3. CASE p = <<>>
  BY <1>2, <1>3, NoInputWaits
<1>4. CASE p # <<>>
  <2> DEFINE first == pieces[1]
             sent == Encoding(keys[1])
  <2>1. pieces # <<>> /\ p \o first = sent /\ first # <<>> /\ first \in ByteSeqs
    BY <1>1, <1>4
  <2>2. keys[1] \in UNION Keyboards
    <3>1. Len(pieces) # 0 /\ Len(pieces) \in Nat /\ Len(keys) \in Nat
      BY <2>1, SentIs
    <3>2. 1 \in 1 .. Len(keys)
      BY <1>1, <3>1
    <3> QED BY <3>2, SentIs
  <2>3. sent \in ByteSeqs /\ DecodeInput(sent).len = Len(sent)
    BY <2>2, EncodingIs DEF IsSentAs
  <2> HIDE DEF first, sent
  <2>4. /\ Len(sent) = Len(p) + Len(first) /\ Len(p) \in Nat /\ Len(first) \in Nat
        /\ \A i \in 1 .. Len(p) : sent[i] = p[i]
    <3>1. p \in Seq(ByteValues) /\ first \in Seq(ByteValues)
      BY <2>1 DEF ByteSeqs
    <3> QED BY <2>1, <3>1, ConcatIs
  <2>5. Len(first) # 0
    BY <2>1 DEF ByteSeqs
  <2>6. Len(p) < Len(sent) /\ Len(p) <= Len(sent)
    BY <2>4, <2>5
  <2>7. Extending(sent, p)
    BY <2>4, <2>6 DEF Extending
  <2>8. DecodeInput(p).len = 0
    BY <1>1, <1>4, <2>3, <2>6, <2>7, BeginningWaits
  <2> QED BY <1>2, <2>8
<1> QED BY <1>3, <1>4

(* What is decoded is the first key that was typed and has no effect yet,  *)
(* and the others are still to come, however the terminal's bytes were cut *)
(* when they were received (process_input, after read_input or             *)
(* feed_input).                                                            *)
THEOREM StreamDecoded ==
  ASSUME OrdinaryKeys, NEW bytes, NEW pieces, NEW keys, Streams(bytes, pieces, keys),
         DecodeInput(bytes).len # 0
  PROVE  LET decoded == DecodeInput(bytes)
         IN /\ keys # <<>> /\ keys[1] \in UNION Keyboards
            /\ keys[1] = KeyOf(decoded.key, Normalized(decoded.mod), decoded.unicode)
            /\ Dispatchable(decoded)
            /\ Streams(SubSeq(bytes, decoded.len + 1, Len(bytes)), pieces,
                       SubSeq(keys, 2, Len(keys)))
<1>1. bytes \in ByteSeqs /\ pieces \in Seq(ByteSeqs) /\ keys \in KeySeqs
  BY DEF Streams
<1>2. PICK n \in 0 .. Len(keys), p \in ByteSeqs : Arrived(bytes, pieces, keys, n, p)
  BY DEF Streams
<1> DEFINE l == Len(keys)
           sent == Encoding(keys[1])
           rest == SubSeq(keys, 2, l)
           decoded == DecodeInput(bytes)
           left == SubSeq(bytes, Len(sent) + 1, Len(bytes))
           r == Len(pieces)
<1>3. l \in Nat /\ n \in 0 .. l /\ r \in Nat
  BY <1>1, SentIs
<1>4. n # 0
  BY <1>1, <1>2, PartWaits
<1>5. n \in Nat /\ n >= 1 /\ 1 \in 1 .. l /\ l # 0
  BY <1>3, <1>4
<1>6. keys # <<>> /\ keys[1] \in UNION Keyboards
  BY <1>1, <1>5, SentIs
<1>7. /\ Joins(bytes, SentFor(keys), n, p)
      /\ r = l - n
      /\ pieces = <<>> => p = <<>>
      /\ pieces # <<>> => p \o pieces[1] = Encoding(keys[n + 1]) /\ pieces[1] # <<>>
      /\ \A i \in 2 .. r : pieces[i] = Encoding(keys[n + i])
      /\ p # <<>> => p[1] # Escape
  BY <1>2 DEF Arrived
<1>8. /\ rest \in KeySeqs /\ Len(rest) = l - 1
      /\ \A i \in 1 .. l - 1 : rest[i] = keys[i + 1]
  BY <1>1, <1>6, NextKeys
<1>9. /\ \A k \in 1 .. n : SentFor(keys)[k] \in ByteSeqs
      /\ \A k \in 1 .. n - 1 : SentFor(rest)[k] = SentFor(keys)[k + 1]
      /\ SentFor(keys)[1] = sent
  <2> HIDE DEF rest, l
  <2>1. \A k \in 1 .. n : k \in 1 .. l
    BY <1>3, <1>5
  <2>2. \A k \in 1 .. n : SentFor(keys)[k] \in ByteSeqs
    BY <1>1, <2>1, SentIs DEF l
  <2>3. ASSUME NEW k \in 1 .. n - 1 PROVE SentFor(rest)[k] = SentFor(keys)[k + 1]
    <3>1. k \in 1 .. l - 1 /\ k + 1 \in 1 .. l
      BY <1>3, <1>5
    <3>2. SentFor(rest)[k] = Encoding(rest[k])
      BY <1>8, <3>1 DEF SentFor
    <3>3. SentFor(keys)[k + 1] = Encoding(keys[k + 1])
      BY <3>1 DEF SentFor, l
    <3> QED BY <1>8, <3>1, <3>2, <3>3
  <2>4. SentFor(keys)[1] = sent
    BY <1>1, <1>5, SentIs DEF l
  <2> QED BY <2>2, <2>3, <2>4
<1>10. Extending(bytes, sent) /\ Joins(left, SentFor(rest), n - 1, p)
  <2> HIDE DEF rest, l, sent
  <2>1. /\ Extending(bytes, SentFor(keys)[1])
        /\ Joins(SubSeq(bytes, Len(SentFor(keys)[1]) + 1, Len(bytes)), SentFor(rest), n - 1, p)
    BY <1>1, <1>5, <1>7, <1>9, JoinsFirst
  <2> QED BY <1>9, <2>1
<1>11. sent \in Sequences /\ sent \in ByteSeqs /\ IsSentAs(keys[1], sent)
  BY <1>6, EncodingIs
<1> HIDE DEF sent, rest, l, left, r
<1>12. DecodeInput(sent).len = Len(sent)
  BY <1>11 DEF IsSentAs
<1>13. decoded = DecodeInput(sent) /\ decoded.len = Len(sent)
  BY <1>1, <1>10, <1>11, <1>12, DecodeStable
<1>14. keys[1] = KeyOf(decoded.key, Normalized(decoded.mod), decoded.unicode)
  <2>1. keys[1] = [key |-> DecodeInput(sent).key, mod |-> Normalized(DecodeInput(sent).mod),
                   unicode |-> DecodeInput(sent).unicode]
    BY <1>11 DEF IsSentAs
  <2>2. decoded = DecodeInput(sent)
    BY <1>13
  <2> HIDE DEF decoded
  <2> QED BY <2>1, <2>2 DEF KeyOf
<1>15. Dispatchable(decoded)
  <2>1. keys[1].unicode = decoded.unicode
    <3> HIDE DEF decoded
    <3> QED BY <1>14 DEF KeyOf
  <2>2. keys[1].unicode \in Characters
    BY <1>6 DEF Characters
  <2>3. decoded.key # "UnicodeChar" => decoded.unicode = 0
    BY DecodedNoChar
  <2> QED BY <2>1, <2>2, <2>3 DEF Dispatchable
<1>16. left \in ByteSeqs
  <2>1. Len(sent) \in Nat /\ Len(bytes) \in Nat
    BY <1>1, <1>11 DEF ByteSeqs
  <2> DEFINE a == Len(sent) + 1
             b == Len(bytes)
  <2>2. a \in Nat /\ b \in Nat /\ a >= 1 /\ b <= Len(bytes) /\ bytes \in Seq(ByteValues)
    BY <1>1, <2>1 DEF ByteSeqs
  <2> HIDE DEF a, b
  <2>3. SubSeq(bytes, a, b) \in Seq(ByteValues)
    BY ONLY <2>2, PartIs
  <2> QED BY <2>3 DEF left, a, b, ByteSeqs
<1>17. Arrived(left, pieces, rest, n - 1, p)
  <2> DEFINE m == n - 1
  <2>1. m + 1 = n /\ r = (l - 1) - m /\ m \in 0 .. l - 1
    BY <1>3, <1>5, <1>7
  <2>2. pieces # <<>> => p \o pieces[1] = Encoding(rest[m + 1]) /\ pieces[1] # <<>>
    <3> SUFFICES ASSUME pieces # <<>>
                 PROVE  p \o pieces[1] = Encoding(rest[m + 1]) /\ pieces[1] # <<>>
      OBVIOUS
    <3>1. r # 0
      BY <1>1 DEF r
    <3>2. n \in 1 .. l - 1
      BY <1>3, <1>5, <1>7, <3>1
    <3>3. rest[n] = keys[n + 1]
      BY <1>8, <3>2
    <3> QED BY <1>7, <2>1, <3>3
  <2>3. ASSUME NEW i \in 2 .. r PROVE pieces[i] = Encoding(rest[m + i])
    <3>1. m + i \in 1 .. l - 1 /\ (m + i) + 1 = n + i
      BY <1>3, <1>5, <1>7
    <3> QED BY <1>7, <1>8, <3>1
  <2> HIDE DEF m
  <2>4. Len(pieces) = Len(rest) - m
    BY <1>8, <2>1 DEF r
  <2>5. Joins(left, SentFor(rest), m, p)
    BY <1>10 DEF m
  <2>6. \A i \in 2 .. Len(pieces) : pieces[i] = Encoding(rest[m + i])
    BY <2>3 DEF r
  <2>7. Arrived(left, pieces, rest, m, p)
    BY <1>7, <2>2, <2>4, <2>5, <2>6 DEF Arrived
  <2> QED BY <2>7 DEF m
<1>18. n - 1 \in 0 .. Len(rest)
  BY <1>3, <1>5, <1>8
<1>19. Streams(left, pieces, rest)
  BY <1>1, <1>8, <1>16, <1>17, <1>18 DEF Streams
<1>20. Streams(SubSeq(bytes, decoded.len + 1, Len(bytes)), pieces, SubSeq(keys, 2, Len(keys)))
  <2> HIDE DEF decoded
  <2> QED BY <1>13, <1>19 DEF left, rest, l
<1> QED BY <1>6, <1>14, <1>15, <1>20

-----------------------------------------------------------------------------
(* A key takes effect.                                                     *)

LEMMA BecameLines ==
  ASSUME EditorOK, NEW e, SameLines(e), e.buffer \in Buffers
  PROVE  /\ LinesOf(e) = [AllLines EXCEPT ![EditedLine] = e.buffer.content]
         /\ LineOf(e) = EditedLine /\ KeptOf(e) = KeptLine
<1> DEFINE n == Len(history)
           text == buffer.content
           new == e.buffer.content
<1>1. /\ text \in Texts /\ new \in Texts /\ history \in Seq(Texts) /\ origBuffer \in Texts
      /\ historyCursor \in -1 .. n - 1 /\ n \in Nat
  BY BufferParts DEF EditorOK
<1>2. e.history = history /\ e.cursor = historyCursor /\ e.orig = origBuffer
  BY DEF SameLines
<1> HIDE DEF text, new
<1>3. CASE historyCursor = -1
  <2>1. AllLines = Append(history, text) /\ EditedLine = n + 1 /\ KeptLine = <<>>
    BY <1>3 DEF AllLines, EditedLine, KeptLine, text
  <2>2. LinesOf(e) = Append(history, new) /\ LineOf(e) = n + 1 /\ KeptOf(e) = <<>>
    BY <1>2, <1>3 DEF LinesOf, LineOf, KeptOf, new
  <2>3. [Append(history, text) EXCEPT ![n + 1] = new] = Append(history, new)
    <3> HIDE DEF n
    <3> DEFINE c == n + 1
               a == Append(history, text)
               b == Append(history, new)
               d == [a EXCEPT ![c] = new]
    <3>1. c \in 1 .. n + 1 /\ Len(history) = n
      BY <1>1 DEF n
    <3>2. /\ a \in Seq(Texts) /\ Len(a) = n + 1
          /\ \A j \in 1 .. n : a[j] = history[j]
      BY <1>1, <3>1, LastIsAppended
    <3>3. /\ b \in Seq(Texts) /\ Len(b) = n + 1 /\ b[n + 1] = new
          /\ \A j \in 1 .. n : b[j] = history[j]
      BY <1>1, <3>1, LastIsAppended
    <3>4. c = n + 1
      OBVIOUS
    <3> HIDE DEF a, b, c
    <3>5. /\ d \in Seq(Texts) /\ Len(d) = n + 1 /\ d[c] = new
          /\ \A j \in 1 .. n + 1 : j # c => d[j] = a[j]
      BY <1>1, <3>1, <3>2, ItemStored
    <3> HIDE DEF d
    <3>6. ASSUME NEW j \in 1 .. n + 1 PROVE b[j] = d[j]
      <4>1. CASE j = c
        BY <3>3, <3>4, <3>5, <4>1
      <4>2. CASE j # c
        <5>1. j \in 1 .. n
          BY <1>1, <3>4, <4>2
        <5> QED BY <3>2, <3>3, <3>5, <4>2, <5>1
      <4> QED BY <4>1, <4>2
    <3>7. b = d
      BY <3>3, <3>5, <3>6, SameSeq
    <3> QED BY <3>7 DEF a, b, c, d
  <2> QED BY <2>1, <2>2, <2>3 DEF new
<1>4. CASE historyCursor # -1
  <2> DEFINE c == historyCursor + 1
             one == [history EXCEPT ![c] = text]
             two == [history EXCEPT ![c] = new]
  <2>1. c \in 1 .. n /\ c \in 1 .. n + 1 /\ c # n + 1
    BY <1>1, <1>4
  <2>2. AllLines = Append(one, origBuffer) /\ EditedLine = c /\ KeptLine = history[c]
    BY <1>4 DEF AllLines, EditedLine, KeptLine, text
  <2>3. LinesOf(e) = Append(two, origBuffer) /\ LineOf(e) = c /\ KeptOf(e) = history[c]
    BY <1>2, <1>4 DEF LinesOf, LineOf, KeptOf, new
  <2> HIDE DEF c, one, two
  <2>4. /\ one \in Seq(Texts) /\ two \in Seq(Texts) /\ Len(one) = n /\ Len(two) = n
        /\ two[c] = new
        /\ \A j \in 1 .. n : j # c => two[j] = one[j]
    <3>1. /\ one \in Seq(Texts) /\ Len(one) = n
          /\ \A j \in 1 .. n : j # c => one[j] = history[j]
      BY <1>1, <2>1, ItemStored DEF one
    <3>2. /\ two \in Seq(Texts) /\ Len(two) = n /\ two[c] = new
          /\ \A j \in 1 .. n : j # c => two[j] = history[j]
      BY <1>1, <2>1, ItemStored DEF two
    <3> QED BY <3>1, <3>2
  <2> HIDE DEF n
  <2> DEFINE a == Append(one, origBuffer)
             b == Append(two, origBuffer)
             d == [a EXCEPT ![c] = new]
  <2>5. /\ a \in Seq(Texts) /\ Len(a) = n + 1 /\ a[n + 1] = origBuffer
        /\ \A j \in 1 .. n : a[j] = one[j]
    BY <1>1, <2>4, LastIsAppended
  <2>6. /\ b \in Seq(Texts) /\ Len(b) = n + 1 /\ b[n + 1] = origBuffer
        /\ \A j \in 1 .. n : b[j] = two[j]
    BY <1>1, <2>4, LastIsAppended
  <2> HIDE DEF a, b
  <2>7. /\ d \in Seq(Texts) /\ Len(d) = n + 1 /\ d[c] = new
        /\ \A j \in 1 .. n + 1 : j # c => d[j] = a[j]
    BY <1>1, <2>1, <2>5, ItemStored
  <2> HIDE DEF d
  <2>8. ASSUME NEW j \in 1 .. n + 1 PROVE b[j] = d[j]
    <3>1. CASE j = c
      <4>1. b[c] = two[c] /\ two[c] = new /\ d[c] = new
        BY <2>1, <2>4, <2>6, <2>7
      <4> QED BY <3>1, <4>1
    <3>2. CASE j = n + 1
      <4>1. b[n + 1] = origBuffer /\ a[n + 1] = origBuffer
        BY <2>5, <2>6
      <4>2. d[j] = a[j]
        BY <2>1, <2>7, <3>2
      <4> QED BY <3>2, <4>1, <4>2
    <3>3. CASE j # c /\ j # n + 1
      <4>1. j \in 1 .. n
        BY <1>1, <3>3
      <4>2. b[j] = two[j] /\ two[j] = one[j] /\ a[j] = one[j] /\ d[j] = a[j]
        BY <2>4, <2>5, <2>6, <2>7, <3>3, <4>1
      <4> QED BY <4>2
    <3> QED BY <3>1, <3>2, <3>3
  <2>9. b = d
    BY <2>6, <2>7, <2>8, SameSeq
  <2> QED BY <2>2, <2>3, <2>9 DEF a, b, d, new
<1> QED BY <1>3, <1>4

LEMMA ProcessedHandles ==
  ASSUME EditorOK, Streams(input, tty, typed), continueNl = IsOpen(buffer.content),
         IsMultiline, OrdinaryKeys, ProcessInput
  PROVE  /\ E!Handle
         /\ EditorOK'
         /\ Streams(input, tty, typed)'
         /\ (continueNl = IsOpen(buffer.content))'
         /\ pc' \in {"process", "finish"}
<1> DEFINE decoded == DecodeInput(input)
           e == Dispatched(decoded)
           key == typed[1]
<1>1. /\ pc = "process" /\ decoded.len # 0
      /\ input' = SubSeq(input, decoded.len + 1, Len(input))
      /\ typed' = SubSeq(typed, 2, Len(typed))
      /\ buffer' = e.buffer /\ state' = e.state /\ history' = e.history
      /\ historyCursor' = e.cursor /\ origBuffer' = e.orig
      /\ pc' = IF e.state = "Continue" THEN "process" ELSE "finish"
      /\ IF e.redraw THEN Redraw(e) ELSE UNCHANGED <<screen, cursorLine, continueNl, remains>>
      /\ UNCHANGED <<file, terminal, bounds>>
  BY Zenon DEF ProcessInput
<1>2. /\ typed # <<>> /\ key \in UNION Keyboards
      /\ key = KeyOf(decoded.key, Normalized(decoded.mod), decoded.unicode)
      /\ Dispatchable(decoded)
      /\ Streams(SubSeq(input, decoded.len + 1, Len(input)), tty, SubSeq(typed, 2, Len(typed)))
  BY <1>1, StreamDecoded
<1>3. typed \in KeySeqs
  BY DEF Streams
<1> HIDE DEF decoded
<1>4. KeyEffect(KeyOf(decoded.key, Normalized(decoded.mod), decoded.unicode), e)
  BY <1>2, DispatchedEffect
<1> HIDE DEF e, key
<1>5. KeyEffect(key, e)
  BY <1>2, <1>4
<1>6. /\ Sane(e)
      /\ MovedBy(key, e) \/ EditedBy(key, e) \/ TurnedBy(key, e)
      /\ e.state = StateOf(key)
      /\ ~e.redraw => e.buffer = buffer
  BY <1>5 DEF KeyEffect
<1>7. AllLines' = LinesOf(e) /\ EditedLine' = LineOf(e) /\ KeptLine' = KeptOf(e)
  <2>1. AllLines' = LinesOf(e)
    BY <1>1 DEF AllLines, LinesOf
  <2>2. EditedLine' = LineOf(e)
    BY <1>1 DEF EditedLine, LineOf
  <2>3. KeptLine' = KeptOf(e)
    BY <1>1 DEF KeptLine, KeptOf
  <2> QED BY <2>1, <2>2, <2>3
<1>8. buffer.cursor' = e.buffer.cursor
  BY <1>1
<1>9. ASSUME SameLines(e)
      PROVE  E!Became(e.buffer.content, e.buffer.cursor)
  <2>1. /\ LinesOf(e) = [AllLines EXCEPT ![EditedLine] = e.buffer.content]
        /\ LineOf(e) = EditedLine /\ KeptOf(e) = KeptLine
    BY <1>6, <1>9, BecameLines DEF Sane
  <2> QED BY <1>7, <1>8, <2>1 DEF E!Became
<1>10. E!Move(key) \/ E!Edit(key) \/ E!Turn(key)
  <2>1. CASE MovedBy(key, e)
    <3>1. /\ SameLines(e) /\ e.buffer.content = E!Text
          /\ e.buffer.cursor \in E!Targets(key)
      BY <2>1 DEF MovedBy
    <3>2. E!Became(E!Text, e.buffer.cursor)
      BY <1>9, <3>1
    <3> QED BY <3>1, <3>2 DEF E!Move
  <2>2. CASE EditedBy(key, e)
    <3>1. SameLines(e) /\ E!Targets(key) = {} /\ E!Turns(key) = EditedLine
      BY <2>2 DEF EditedBy
    <3>2. E!Became(e.buffer.content, e.buffer.cursor)
      BY <1>9, <3>1
    <3>3. CASE E!Inserts(key) # <<>>
      <4>1. /\ e.buffer.content = E!Before \o E!Inserts(key) \o E!After
            /\ e.buffer.cursor = buffer.cursor + 1
        BY <2>2, <3>3 DEF EditedBy
      <4>2. E!Became(E!Before \o E!Inserts(key) \o E!After, buffer.cursor + 1)
        BY <3>2, <4>1
      <4> QED BY <3>1, <3>3, <4>2 DEF E!Edit
    <3>4. CASE E!Inserts(key) = <<>>
      <4>1. /\ e.buffer.content = E!Cut(E!Erases(key)[1], E!Erases(key)[2])
            /\ e.buffer.cursor = E!Erases(key)[1]
        BY <2>2, <3>4 DEF EditedBy
      <4>2. E!Became(E!Cut(E!Erases(key)[1], E!Erases(key)[2]), E!Erases(key)[1])
        BY <3>2, <4>1
      <4> QED BY <3>1, <3>4, <4>2 DEF E!Edit
    <3> QED BY <3>3, <3>4
  <2>3. CASE TurnedBy(key, e)
    <3>1. E!Turns(key) # EditedLine /\ TurnedTo(e, E!Turns(key))
      BY <2>3 DEF TurnedBy
    <3> DEFINE line == E!Turns(key)
    <3> HIDE DEF line
    <3>2. /\ LinesOf(e) = AllLines /\ LineOf(e) = line
          /\ KeptOf(e) = IF line = Len(AllLines) THEN <<>> ELSE AllLines[line]
          /\ e.buffer.cursor = Len(AllLines[line])
      BY <3>1 DEF TurnedTo, line
    <3>3. E!TurnTo(line)
      BY <1>7, <1>8, <3>2 DEF E!TurnTo
    <3> QED BY <3>1, <3>3 DEF E!Turn, line
  <2> QED BY <1>6, <2>1, <2>2, <2>3
<1>11. AbstractPhase = "editing"
  BY <1>1 DEF AbstractPhase
<1>12. AbstractPhase' = IF E!Enters(key) THEN "entered"
                        ELSE IF E!Cancels(key) THEN "cancelled" ELSE "editing"
  <2>1. CASE E!Enters(key)
    <3>1. e.state = "Finished"
      BY <1>6, <2>1 DEF StateOf
    <3>2. pc' = "finish" /\ state' = "Finished"
      BY <1>1, <3>1
    <3> QED BY <2>1, <3>2 DEF AbstractPhase
  <2>2. CASE ~E!Enters(key) /\ E!Cancels(key)
    <3>1. e.state = "ControlBreak"
      BY <1>6, <2>2 DEF StateOf
    <3>2. pc' = "finish" /\ state' = "ControlBreak"
      BY <1>1, <3>1
    <3> QED BY <2>2, <3>2 DEF AbstractPhase
  <2>3. CASE ~E!Enters(key) /\ ~E!Cancels(key)
    <3>1. e.state = "Continue"
      BY <1>6, <2>3 DEF StateOf
    <3>2. pc' = "process"
      BY <1>1, <3>1
    <3> QED BY <2>3, <3>2 DEF AbstractPhase
  <2> QED BY <2>1, <2>2, <2>3
<1>13. typed' = Tail(typed) /\ Head(typed) = key
  <2>1. typed \in Seq(UNION Keyboards)
    BY <1>3 DEF KeySeqs
  <2> DEFINE S == UNION Keyboards
  <2>2. typed \in Seq(S)
    BY <2>1
  <2> HIDE DEF S
  <2>3. SubSeq(typed, 2, Len(typed)) = Tail(typed)
    BY <1>2, <2>2
  <2>4. Head(typed) = typed[1]
    BY <1>2, <2>2
  <2> QED BY <1>1, <2>3, <2>4 DEF key
<1>14. E!Handle
  <2>1. Loaded(file)' = Loaded(file)
    BY <1>1
  <2> QED BY <1>2, <1>10, <1>11, <1>12, <1>13, <2>1 DEF E!Handle
<1>15. EditorOK'
  <2>1. /\ e.buffer \in Buffers /\ e.history \in Seq(Texts)
        /\ e.cursor \in -1 .. Len(e.history) - 1 /\ e.orig \in Texts
    BY <1>6 DEF Sane
  <2> QED BY <1>1, <2>1 DEF EditorOK
<1>16. Streams(input, tty, typed)'
  <2>1. tty' = tty
    BY <1>1 DEF terminal
  <2> QED BY <1>1, <1>2, <2>1
<1>17. (continueNl = IsOpen(buffer.content))'
  <2>1. CASE e.redraw
    <3>1. Redraw(e)
      BY <1>1, <2>1
    <3>2. continueNl' = IsOpen(e.buffer.content)
      BY <3>1 DEF Redraw
    <3> QED BY <1>1, <3>2
  <2>2. CASE ~e.redraw
    <3>1. continueNl' = continueNl /\ e.buffer = buffer
      BY <1>1, <1>6, <2>2
    <3> QED BY <1>1, <3>1
  <2> QED BY <2>1, <2>2
<1>18. pc' \in {"process", "finish"}
  BY <1>1
<1> QED BY <1>14, <1>15, <1>16, <1>17, <1>18

-----------------------------------------------------------------------------
(* The history file.                                                       *)

FileRows == [tag : Tags, text : Texts]

LEMMA TextJoined ==
  ASSUME NEW a \in Texts, NEW b \in Texts
  PROVE  /\ a \o b \in Texts /\ <<LineFeed>> \in Texts /\ a \o <<LineFeed>> \o b \in Texts
         /\ <<>> \in Texts
<1>1. LineFeed \in Characters
  BY DEF Characters
<1>2. <<LineFeed>> \in Texts
  BY <1>1 DEF Texts
<1>3. \A x, y \in Texts : x \o y \in Texts
  BY DEF Texts
<1>4. <<>> \in Texts
  BY DEF Texts
<1> QED BY <1>2, <1>3, <1>4

LEMMA RowRead ==
  ASSUME NEW items \in Seq(Texts), NEW row \in FileRows
  PROVE  WithRow(items, row) \in Seq(Texts)
<1>1. row.text \in Texts
  BY DEF FileRows
<1>2. CASE row.tag \in {" ", "~"}
  <2>1. WithRow(items, row) = Append(items, row.text)
    BY <1>2 DEF WithRow
  <2> QED BY <1>1, <2>1, LastIsAppended
<1>3. CASE row.tag = "|"
  <2> DEFINE n == Len(items)
             text == items[n] \o <<LineFeed>> \o row.text
  <2>1. WithRow(items, row) = [items EXCEPT ![n] = text]
    BY <1>3 DEF WithRow
  <2>2. n \in Nat
    OBVIOUS
  <2>3. CASE n = 0
    <3>1. items = <<>>
      BY <2>3
    <3> HIDE DEF text, n
    <3>2. DOMAIN items = {}
      BY <3>1
    <3>3. [items EXCEPT ![n] = text] = items
      BY <3>2
    <3> QED BY <2>1, <3>3
  <2>4. CASE n # 0
    <3>1. n \in 1 .. Len(items)
      BY <2>2, <2>4
    <3>2. items[n] \in Texts
      BY <3>1
    <3>3. text \in Texts
      BY <1>1, <3>2, TextJoined
    <3> HIDE DEF text
    <3> QED BY <2>1, <3>1, <3>3, ItemStored
  <2> QED BY <2>3, <2>4
<1>4. CASE row.tag \notin {" ", "~", "|"}
  BY <1>4 DEF WithRow
<1> QED BY <1>2, <1>3, <1>4

LEMMA LoadedIs ==
  ASSUME NEW rows \in Seq(FileRows)
  PROVE  \E f \in [0 .. Len(rows) -> Seq(Texts)] :
            /\ f[0] = <<>>
            /\ \A n \in 1 .. Len(rows) : f[n] = WithRow(f[n - 1], rows[n])
            /\ Loaded(rows) = f[Len(rows)]
<1> DEFINE N == Len(rows)
           S == Seq(Texts)
           step == [n \in 1 .. N |-> [items \in S |-> WithRow(items, rows[n])]]
           h == CHOOSE f : f = [n \in 0 .. N |->
                                  IF n = 0 THEN <<>> ELSE WithRow(f[n - 1], rows[n])]
<1>1. N \in Nat /\ \A n \in 1 .. N : rows[n] \in FileRows
  OBVIOUS
<1>2. Loaded(rows) = h[N]
  BY DEF Loaded
<1>3. <<>> \in S
  OBVIOUS
<1>4. \A n \in 1 .. N : \A items \in S : WithRow(items, rows[n]) \in S
  BY <1>1, RowRead
<1> HIDE DEF N, S
<1>5. step \in [1 .. N -> [S -> S]]
  BY <1>4
<1>6. PICK g \in [0 .. N -> S] : Builds(g, N, <<>>, step)
  <2> HIDE DEF step
  <2> QED BY <1>1, <1>3, <1>5, Recursion
<1>7. g[0] = <<>> /\ \A n \in 1 .. N : g[n] = step[n][g[n - 1]]
  BY <1>6 DEF Builds
<1>8. ASSUME NEW n \in 1 .. N PROVE g[n] = WithRow(g[n - 1], rows[n])
  <2>1. n - 1 \in 0 .. N
    BY <1>1
  <2>2. g[n - 1] \in S
    BY <2>1
  <2> QED BY <1>7, <2>2
<1> HIDE DEF step
<1>9. g = [n \in 0 .. N |-> IF n = 0 THEN <<>> ELSE WithRow(g[n - 1], rows[n])]
  <2>1. ASSUME NEW n \in 0 .. N
        PROVE  g[n] = IF n = 0 THEN <<>> ELSE WithRow(g[n - 1], rows[n])
    <3>1. CASE n = 0
      BY <1>7, <3>1
    <3>2. CASE n # 0
      <4>1. n \in 1 .. N
        BY <1>1, <3>2
      <4> QED BY <1>8, <3>2, <4>1
    <3> QED BY <3>1, <3>2
  <2>2. g = [n \in 0 .. N |-> g[n]]
    OBVIOUS
  <2> QED BY <2>1, <2>2
<1>10. h = [n \in 0 .. N |-> IF n = 0 THEN <<>> ELSE WithRow(h[n - 1], rows[n])]
  BY <1>9
<1> HIDE DEF h
<1>11. h[0] = <<>> /\ \A n \in 1 .. N : h[n] = WithRow(h[n - 1], rows[n])
  <2>1. 0 \in 0 .. N
    BY <1>1
  <2>2. h[0] = <<>>
    BY <1>10, <2>1
  <2>3. ASSUME NEW n \in 1 .. N PROVE h[n] = WithRow(h[n - 1], rows[n])
    <3>1. n \in 0 .. N /\ n # 0
      BY <1>1
    <3> QED BY <1>10, <3>1
  <2> QED BY <2>2, <2>3
<1>12. h \in [0 .. N -> S]
  <2>1. ASSUME NEW n \in 1 .. N, h[n - 1] \in S PROVE h[n] \in S
    <3>1. WithRow(h[n - 1], rows[n]) \in S
      BY <1>4, <2>1
    <3> QED BY <1>11, <3>1
  <2>2. h[0] \in S
    BY <1>3, <1>11
  <2>3. \A n \in 0 .. N : h[n] \in S
    BY <1>1, <2>1, <2>2, StaysIn
  <2>4. h = [n \in 0 .. N |-> h[n]]
    BY <1>10
  <2> QED BY <2>3, <2>4
<1> QED BY <1>2, <1>11, <1>12 DEF N, S

(* What is appended to the file is read after what it held. *)
LEMMA LoadedOnto ==
  ASSUME NEW rows \in Seq(FileRows), NEW extra \in Seq(FileRows)
  PROVE  \E f \in [0 .. Len(extra) -> Seq(Texts)] :
            /\ f[0] = Loaded(rows)
            /\ \A n \in 1 .. Len(extra) : f[n] = WithRow(f[n - 1], extra[n])
            /\ Loaded(rows \o extra) = f[Len(extra)]
<1> DEFINE all == rows \o extra
           N == Len(rows)
           K == Len(extra)
<1>1. /\ all \in Seq(FileRows) /\ Len(all) = N + K /\ N \in Nat /\ K \in Nat
      /\ \A i \in 1 .. N : all[i] = rows[i]
      /\ \A i \in 1 .. K : all[N + i] = extra[i]
  BY ConcatIs
<1> HIDE DEF all
<1>2. PICK g \in [0 .. Len(rows) -> Seq(Texts)] :
            /\ g[0] = <<>>
            /\ \A n \in 1 .. Len(rows) : g[n] = WithRow(g[n - 1], rows[n])
            /\ Loaded(rows) = g[Len(rows)]
  BY LoadedIs
<1>3. PICK a \in [0 .. Len(all) -> Seq(Texts)] :
            /\ a[0] = <<>>
            /\ \A n \in 1 .. Len(all) : a[n] = WithRow(a[n - 1], all[n])
            /\ Loaded(all) = a[Len(all)]
  BY <1>1, LoadedIs
<1>4. Len(all) = N + K /\ Len(rows) = N
  BY <1>1
<1> HIDE DEF N, K
<1>5. a[N] = g[N]
  <2> DEFINE A == {n \in 0 .. N : a[n] = g[n]}
  <2>1. 0 \in A
    BY <1>1, <1>2, <1>3
  <2>2. ASSUME NEW n \in 1 .. N, n - 1 \in A PROVE n \in A
    <3>1. n \in 0 .. N /\ n \in 1 .. N + K
      BY <1>1
    <3>2. a[n - 1] = g[n - 1]
      BY <2>2
    <3>3. a[n] = WithRow(a[n - 1], all[n]) /\ g[n] = WithRow(g[n - 1], rows[n]) /\ all[n] = rows[n]
      BY <1>1, <1>2, <1>3, <1>4, <3>1
    <3> QED BY <3>1, <3>2, <3>3
  <2> HIDE DEF A
  <2>3. \A n \in 0 .. N : n \in A
    BY <1>1, <2>1, <2>2, Upwards
  <2>4. N \in 0 .. N
    BY <1>1
  <2> QED BY <2>3, <2>4 DEF A
<1> DEFINE f == [n \in 0 .. K |-> a[N + n]]
<1>6. f \in [0 .. K -> Seq(Texts)]
  <2>1. \A n \in 0 .. K : N + n \in 0 .. N + K
    BY <1>1
  <2>2. \A n \in 0 .. K : a[N + n] \in Seq(Texts)
    BY <1>3, <1>4, <2>1
  <2> QED BY <2>2
<1>7. f[0] = Loaded(rows)
  <2>1. 0 \in 0 .. K /\ N + 0 = N
    BY <1>1
  <2>2. f[0] = a[N]
    BY <2>1
  <2> QED BY <1>2, <1>4, <1>5, <2>2
<1>8. ASSUME NEW n \in 1 .. K PROVE f[n] = WithRow(f[n - 1], extra[n])
  <2>1. n \in 0 .. K /\ n - 1 \in 0 .. K /\ N + n \in 1 .. N + K /\ (N + n) - 1 = N + (n - 1)
    BY <1>1
  <2>2. f[n] = a[N + n] /\ f[n - 1] = a[N + (n - 1)]
    BY <2>1
  <2>3. a[N + n] = WithRow(a[(N + n) - 1], all[N + n])
    BY <1>3, <1>4, <2>1
  <2>4. all[N + n] = extra[n]
    BY <1>1
  <2> QED BY <2>1, <2>2, <2>3, <2>4
<1>9. Loaded(all) = f[K]
  <2>1. K \in 0 .. K
    BY <1>1
  <2>2. f[K] = a[N + K]
    BY <2>1
  <2> QED BY <1>3, <1>4, <2>2
<1> HIDE DEF f
<1> QED BY <1>6, <1>7, <1>8, <1>9 DEF K, all

LEMMA LoadedTexts ==
  ASSUME NEW rows \in Seq(FileRows)
  PROVE  Loaded(rows) \in Seq(Texts)
<1>1. PICK f \in [0 .. Len(rows) -> Seq(Texts)] :
            /\ f[0] = <<>>
            /\ \A n \in 1 .. Len(rows) : f[n] = WithRow(f[n - 1], rows[n])
            /\ Loaded(rows) = f[Len(rows)]
  BY LoadedIs
<1>2. Len(rows) \in 0 .. Len(rows)
  OBVIOUS
<1> QED BY <1>1, <1>2

(* The lines, joined with line feeds, are the text. *)
Unite(lines, text, joined) ==
  /\ lines \in Seq(Texts) /\ Len(lines) # 0
  /\ joined \in [1 .. Len(lines) -> Texts]
  /\ joined[1] = lines[1]
  /\ \A i \in 2 .. Len(lines) : joined[i] = joined[i - 1] \o <<LineFeed>> \o lines[i]
  /\ joined[Len(lines)] = text

LinesMake(lines, text) == \E joined : Unite(lines, text, joined)

LEMMA TextLonger ==
  ASSUME NEW a \in Texts, NEW b \in Texts, NEW char \in Characters
  PROVE  /\ Append(a, char) \in Texts
         /\ a \o <<LineFeed>> \o Append(b, char) = Append(a \o <<LineFeed>> \o b, char)
         /\ a \o <<LineFeed>> \o <<>> = Append(a, LineFeed)
<1>1. Append(a, char) \in Texts
  BY DEF Texts
<1> DEFINE x == a \o <<LineFeed>>
<1>2. x \in Texts
  <2>1. x \o <<>> \in Texts
    BY TextJoined
  <2>2. <<LineFeed>> \in Texts
    BY TextJoined
  <2> QED BY <2>2 DEF Texts
<1>3. x = Append(a, LineFeed)
  BY DEF Texts
<1>4. x \o <<>> = x
  BY <1>2 DEF Texts
<1> HIDE DEF x
<1>5. x \o Append(b, char) = Append(x \o b, char)
  <2> DEFINE y == Append(b, char)
             z == x \o b
             n == Len(x)
             m == Len(b)
  <2>1. x \in Seq(Characters) /\ b \in Seq(Characters) /\ n \in Nat /\ m \in Nat
    BY <1>2 DEF Texts
  <2>2. /\ y \in Seq(Characters) /\ Len(y) = m + 1 /\ y[m + 1] = char
        /\ \A i \in 1 .. m : y[i] = b[i]
    BY <2>1
  <2>3. /\ z \in Seq(Characters) /\ Len(z) = n + m
        /\ \A i \in 1 .. n : z[i] = x[i]
        /\ \A i \in 1 .. m : z[n + i] = b[i]
    BY <2>1, ConcatIs
  <2> HIDE DEF y, z
  <2> DEFINE p == x \o y
             q == Append(z, char)
  <2>4. /\ p \in Seq(Characters) /\ Len(p) = n + Len(y)
        /\ \A i \in 1 .. n : p[i] = x[i]
        /\ \A i \in 1 .. Len(y) : p[n + i] = y[i]
    <3>1. x \in Seq(Characters) /\ y \in Seq(Characters)
      BY <2>1, <2>2
    <3>2. /\ x \o y \in Seq(Characters) /\ Len(x \o y) = Len(x) + Len(y)
          /\ \A i \in 1 .. Len(x) : (x \o y)[i] = x[i]
          /\ \A i \in 1 .. Len(y) : (x \o y)[Len(x) + i] = y[i]
      BY ONLY <3>1, ConcatIs
    <3> QED BY <3>2
  <2>5. /\ q \in Seq(Characters) /\ Len(q) = Len(z) + 1 /\ q[Len(z) + 1] = char
        /\ \A i \in 1 .. Len(z) : q[i] = z[i]
    BY <2>3
  <2> HIDE DEF p, q, n, m
  <2>6. Len(p) = Len(q) /\ Len(p) = (n + m) + 1
    BY <2>1, <2>2, <2>3, <2>4, <2>5
  <2>7. ASSUME NEW i \in 1 .. (n + m) + 1 PROVE p[i] = q[i]
    <3>1. CASE i \in 1 .. n
      <4>1. i \in 1 .. n + m
        BY <2>1, <3>1
      <4> QED BY <2>3, <2>4, <2>5, <3>1, <4>1
    <3>2. CASE i \in n + 1 .. n + m
      <4> DEFINE k == i - n
      <4>1. k \in 1 .. m /\ k \in 1 .. m + 1 /\ n + k = i /\ i \in 1 .. n + m
        BY <2>1, <3>2
      <4> HIDE DEF k
      <4>2. p[n + k] = y[k] /\ y[k] = b[k]
        BY <2>2, <2>4, <4>1
      <4>3. q[i] = z[i] /\ z[n + k] = b[k]
        BY <2>3, <2>5, <4>1
      <4> QED BY <4>1, <4>2, <4>3
    <3>3. CASE i = (n + m) + 1
      <4> DEFINE k == m + 1
      <4>1. k \in 1 .. Len(y) /\ n + k = i /\ k = m + 1
        BY <2>1, <2>2, <3>3
      <4> HIDE DEF k
      <4>2. p[n + k] = y[k]
        BY <2>4, <4>1
      <4>3. q[i] = char
        BY <2>3, <2>5, <3>3
      <4> QED BY <2>2, <4>1, <4>2, <4>3
    <3> QED BY <2>1, <3>1, <3>2, <3>3
  <2>8. p = q
    BY <2>4, <2>5, <2>6, <2>7, SameSeq
  <2> QED BY <2>8 DEF p, q, y, z
<1> QED BY <1>1, <1>3, <1>4, <1>5 DEF x

LEMMA CharSplit ==
  ASSUME NEW lines, NEW text \in Texts, LinesMake(lines, text), NEW char \in Characters
  PROVE  LinesMake(WithChar(lines, char), Append(text, char))
<1>1. PICK joined : Unite(lines, text, joined)
  BY DEF LinesMake
<1> DEFINE n == Len(lines)
<1>2. /\ lines \in Seq(Texts) /\ n # 0 /\ n \in Nat
      /\ joined \in [1 .. n -> Texts] /\ joined[1] = lines[1]
      /\ \A i \in 2 .. n : joined[i] = joined[i - 1] \o <<LineFeed>> \o lines[i]
      /\ joined[n] = text
  <2>1. lines \in Seq(Texts)
    BY <1>1 DEF Unite
  <2>2. n \in Nat
    BY <2>1
  <2> QED BY <1>1, <2>1, <2>2, Zenon DEF Unite
<1>3. \A i \in 1 .. n : lines[i] \in Texts
  BY <1>2
<1>4. CASE char = LineFeed
  <2> DEFINE more == Append(lines, <<>>)
             j == [i \in 1 .. n + 1 |-> IF i = n + 1 THEN Append(text, char) ELSE joined[i]]
  <2>1. WithChar(lines, char) = more
    BY <1>4 DEF WithChar
  <2>2. <<>> \in Texts
    BY TextJoined
  <2>3. /\ more \in Seq(Texts) /\ Len(more) = n + 1 /\ more[n + 1] = <<>>
        /\ \A i \in 1 .. n : more[i] = lines[i]
    BY <1>2, <2>2, LastIsAppended
  <2>4. Append(text, char) \in Texts
    BY TextLonger
  <2>5. j \in [1 .. n + 1 -> Texts]
    <3>1. \A i \in 1 .. n + 1 : i # n + 1 => i \in 1 .. n
      BY <1>2
    <3> QED BY <1>2, <2>4, <3>1
  <2>6. j[n + 1] = Append(text, char) /\ \A i \in 1 .. n : j[i] = joined[i]
    BY <1>2
  <2> HIDE DEF n, more, j
  <2>7. j[1] = more[1]
    <3>1. 1 \in 1 .. n
      BY <1>2
    <3> QED BY <1>2, <2>3, <2>6, <3>1
  <2>8. ASSUME NEW i \in 2 .. n + 1 PROVE j[i] = j[i - 1] \o <<LineFeed>> \o more[i]
    <3>1. CASE i = n + 1
      <4>1. i - 1 = n /\ n \in 1 .. n
        BY <1>2, <3>1
      <4>2. j[i - 1] = text
        BY <1>2, <2>6, <4>1
      <4>3. text \o <<LineFeed>> \o <<>> = Append(text, LineFeed)
        BY <2>2, TextLonger
      <4> QED BY <1>4, <2>3, <2>6, <3>1, <4>2, <4>3
    <3>2. CASE i # n + 1
      <4>1. i \in 2 .. n /\ i \in 1 .. n /\ i - 1 \in 1 .. n
        BY <1>2, <3>2
      <4> QED BY <1>2, <2>3, <2>6, <4>1
    <3> QED BY <3>1, <3>2
  <2>9. n + 1 # 0
    BY <1>2
  <2>10. Unite(more, Append(text, char), j)
    BY <2>3, <2>5, <2>6, <2>7, <2>8, <2>9 DEF Unite
  <2> QED BY <2>1, <2>10 DEF LinesMake
<1>5. CASE char # LineFeed
  <2> DEFINE new == Append(lines[n], char)
             more == [lines EXCEPT ![n] = new]
             all == Append(text, char)
             j == [joined EXCEPT ![n] = all]
  <2>1. WithChar(lines, char) = more
    BY <1>5 DEF WithChar
  <2>2. n \in 1 .. Len(lines) /\ lines[n] \in Texts
    BY <1>2, <1>3
  <2>3. new \in Texts /\ all \in Texts
    BY <2>2, TextLonger
  <2> HIDE DEF new, all
  <2>4. /\ more \in Seq(Texts) /\ Len(more) = n /\ more[n] = new
        /\ \A i \in 1 .. n : i # n => more[i] = lines[i]
    BY <1>2, <2>2, <2>3, ItemStored
  <2>5. /\ j \in [1 .. n -> Texts] /\ j[n] = all
        /\ \A i \in 1 .. n : i # n => j[i] = joined[i]
    BY <1>2, <2>2, <2>3
  <2> HIDE DEF n, more, j
  <2>6. j[1] = more[1]
    <3>1. CASE n = 1
      <4>1. all = Append(lines[1], char) /\ new = Append(lines[1], char)
        BY <1>2, <3>1 DEF all, new
      <4> QED BY <2>4, <2>5, <3>1, <4>1
    <3>2. CASE n # 1
      <4>1. 1 \in 1 .. n
        BY <1>2
      <4> QED BY <1>2, <2>4, <2>5, <3>2, <4>1
    <3> QED BY <3>1, <3>2
  <2>7. ASSUME NEW i \in 2 .. n PROVE j[i] = j[i - 1] \o <<LineFeed>> \o more[i]
    <3>1. i \in 1 .. n /\ i - 1 \in 1 .. n /\ i - 1 # n
      BY <1>2
    <3>2. j[i - 1] = joined[i - 1] /\ joined[i - 1] \in Texts
      BY <1>2, <2>5, <3>1
    <3>3. CASE i = n
      <4>1. text = joined[i - 1] \o <<LineFeed>> \o lines[i]
        BY <1>2, <3>3
      <4>2. joined[i - 1] \o <<LineFeed>> \o Append(lines[i], char)
              = Append(joined[i - 1] \o <<LineFeed>> \o lines[i], char)
        BY <2>2, <3>2, <3>3, TextLonger
      <4>3. all = joined[i - 1] \o <<LineFeed>> \o new
        BY <3>3, <4>1, <4>2 DEF all, new
      <4> QED BY <2>4, <2>5, <3>2, <3>3, <4>3
    <3>4. CASE i # n
      BY <1>2, <2>4, <2>5, <3>1, <3>2, <3>4
    <3> QED BY <3>3, <3>4
  <2>8. Unite(more, all, j)
    BY <1>2, <2>4, <2>5, <2>6, <2>7 DEF Unite
  <2> QED BY <2>1, <2>8 DEF LinesMake, all
<1> QED BY <1>4, <1>5

(* Lines stay lines of characters when a character is added. *)
LEMMA LinesStay ==
  ASSUME NEW lines \in Seq(Texts), NEW char \in Characters
  PROVE  WithChar(lines, char) \in Seq(Texts)
<1> DEFINE m == Len(lines)
<1>1. m \in Nat
  OBVIOUS
<1>2. CASE char = LineFeed
  <2>1. WithChar(lines, char) = Append(lines, <<>>)
    BY <1>2 DEF WithChar
  <2>2. <<>> \in Texts
    BY DEF Texts
  <2> QED BY <2>1, <2>2, LastIsAppended
<1>3. CASE char # LineFeed
  <2> DEFINE new == Append(lines[m], char)
  <2>1. WithChar(lines, char) = [lines EXCEPT ![m] = new]
    BY <1>3 DEF WithChar
  <2>2. CASE m = 0
    <3>1. DOMAIN lines = {}
      BY <2>2
    <3> HIDE DEF new, m
    <3>2. [lines EXCEPT ![m] = new] = lines
      BY <3>1
    <3> QED BY <2>1, <3>2
  <2>3. CASE m # 0
    <3>1. m \in 1 .. Len(lines) /\ lines[m] \in Texts
      BY <1>1, <2>3
    <3>2. new \in Texts
      BY <3>1, TextLonger
    <3> HIDE DEF new, m
    <3> QED BY <2>1, <3>1, <3>2, ItemStored
  <2> QED BY <2>2, <2>3
<1> QED BY <1>2, <1>3

LEMMA SplitMakes ==
  ASSUME NEW text \in Texts
  PROVE  LinesMake(SplitLines(text), text)
<1> DEFINE N == Len(text)
           S == Seq(Texts)
           step == [n \in 1 .. N |-> [lines \in S |-> WithChar(lines, text[n])]]
           first == <<(<<>>)>>
           h == CHOOSE f : f = [n \in 0 .. N |->
                                  IF n = 0 THEN <<(<<>>)>> ELSE WithChar(f[n - 1], text[n])]
<1>1. N \in Nat /\ \A n \in 1 .. N : text[n] \in Characters
  BY TextChars
<1>2. SplitLines(text) = h[N]
  BY DEF SplitLines
<1>3. first \in S /\ Len(first) = 1 /\ first[1] = <<>>
  <2>1. <<>> \in Texts
    BY TextJoined
  <2> QED BY <2>1
<1> HIDE DEF N
<1>4. ASSUME NEW n \in 1 .. N, NEW lines \in S
      PROVE  WithChar(lines, text[n]) \in S
  BY <1>1, LinesStay
<1> HIDE DEF S, first
<1>5. step \in [1 .. N -> [S -> S]]
  BY <1>4
<1>6. PICK g \in [0 .. N -> S] : Builds(g, N, first, step)
  <2> HIDE DEF step
  <2> QED BY <1>1, <1>3, <1>5, Recursion
<1>7. g[0] = first /\ \A n \in 1 .. N : g[n] = step[n][g[n - 1]]
  BY <1>6 DEF Builds
<1>8. ASSUME NEW n \in 1 .. N PROVE g[n] = WithChar(g[n - 1], text[n])
  <2>1. n - 1 \in 0 .. N
    BY <1>1
  <2>2. g[n - 1] \in S
    BY <2>1
  <2> QED BY <1>7, <2>2
<1> HIDE DEF step
<1>9. g = [n \in 0 .. N |-> IF n = 0 THEN <<(<<>>)>> ELSE WithChar(g[n - 1], text[n])]
  <2>1. ASSUME NEW n \in 0 .. N
        PROVE  g[n] = IF n = 0 THEN <<(<<>>)>> ELSE WithChar(g[n - 1], text[n])
    <3>1. CASE n = 0
      BY <1>7, <3>1 DEF first
    <3>2. CASE n # 0
      <4>1. n \in 1 .. N
        BY <1>1, <3>2
      <4> QED BY <1>8, <3>2, <4>1
    <3> QED BY <3>1, <3>2
  <2>2. g = [n \in 0 .. N |-> g[n]]
    OBVIOUS
  <2> QED BY <2>1, <2>2
<1>10. h = [n \in 0 .. N |-> IF n = 0 THEN <<(<<>>)>> ELSE WithChar(h[n - 1], text[n])]
  BY <1>9
<1> HIDE DEF h
<1>11. h[0] = first /\ \A n \in 1 .. N : h[n] = WithChar(h[n - 1], text[n])
  <2>1. 0 \in 0 .. N
    BY <1>1
  <2>2. h[0] = first
    BY <1>10, <2>1 DEF first
  <2>3. ASSUME NEW n \in 1 .. N PROVE h[n] = WithChar(h[n - 1], text[n])
    <3>1. n \in 0 .. N /\ n # 0
      BY <1>1
    <3> QED BY <1>10, <3>1
  <2> QED BY <2>2, <2>3
<1> DEFINE A == {n \in 0 .. N : LinesMake(h[n], SubSeq(text, 1, n))}
<1>12. 0 \in A
  <2> DEFINE j == [i \in 1 .. 1 |-> <<>>]
  <2>1. j \in [1 .. 1 -> Texts] /\ j[1] = <<>>
    BY TextJoined
  <2>2. first \in Seq(Texts) /\ Len(first) = 1 /\ first[1] = <<>>
    BY <1>3 DEF S
  <2> HIDE DEF j
  <2>3. Unite(first, <<>>, j)
    BY <2>1, <2>2 DEF Unite
  <2>4. SubSeq(text, 1, 0) = <<>> /\ 0 \in 0 .. N
    BY <1>1 DEF Texts
  <2> QED BY <1>11, <2>3, <2>4 DEF LinesMake
<1>13. ASSUME NEW n \in 1 .. N, n - 1 \in A PROVE n \in A
  <2> DEFINE m == n - 1
             before == SubSeq(text, 1, m)
  <2>1. LinesMake(h[m], before)
    BY <1>13
  <2>2. /\ text[n] \in Characters /\ m \in Nat /\ m <= Len(text) /\ text \in Seq(Characters)
        /\ m + 1 = n /\ m + 1 <= Len(text) /\ n \in 0 .. N
    BY <1>1 DEF N, Texts
  <2>3. SubSeq(text, 1, m + 1) = Append(SubSeq(text, 1, m), text[m + 1])
    <3> HIDE DEF m
    <3> DEFINE a == SubSeq(text, 1, m + 1)
               c == SubSeq(text, 1, m)
               l == m + 1
               o == 1
    <3>1. l \in Nat /\ l >= 1 /\ l <= Len(text) /\ o \in Nat /\ o >= 1 /\ o = 1 /\ l = m + 1
      BY <2>2
    <3>2. /\ a \in Seq(Characters) /\ Len(a) = m + 1
          /\ \A i \in 1 .. m + 1 : a[i] = text[i]
      <4> HIDE DEF l, o
      <4>1. /\ SubSeq(text, o, l) \in Seq(Characters)
            /\ Len(SubSeq(text, o, l)) = IF o <= l THEN l - o + 1 ELSE 0
            /\ \A i \in 1 .. l - o + 1 : SubSeq(text, o, l)[i] = text[o + i - 1]
        BY ONLY <2>2, <3>1, PartIs
      <4>2. Len(SubSeq(text, o, l)) = m + 1
        BY <2>2, <3>1, <4>1
      <4>3. ASSUME NEW i \in 1 .. m + 1 PROVE SubSeq(text, o, l)[i] = text[i]
        <5>1. i \in 1 .. l - o + 1 /\ o + i - 1 = i
          BY <2>2, <3>1
        <5> QED BY <4>1, <5>1
      <4> QED BY <3>1, <4>1, <4>2, <4>3
    <3>3. /\ c \in Seq(Characters) /\ Len(c) = m
          /\ \A i \in 1 .. m : c[i] = text[i]
      <4> HIDE DEF l, o
      <4>1. /\ SubSeq(text, o, m) \in Seq(Characters)
            /\ Len(SubSeq(text, o, m)) = IF o <= m THEN m - o + 1 ELSE 0
            /\ \A i \in 1 .. m - o + 1 : SubSeq(text, o, m)[i] = text[o + i - 1]
        BY ONLY <2>2, <3>1, PartIs
      <4>2. Len(SubSeq(text, o, m)) = m
        BY <2>2, <3>1, <4>1
      <4>3. ASSUME NEW i \in 1 .. m PROVE SubSeq(text, o, m)[i] = text[i]
        <5>1. i \in 1 .. m - o + 1 /\ o + i - 1 = i
          BY <2>2, <3>1
        <5> QED BY <4>1, <5>1
      <4> QED BY <3>1, <4>1, <4>2, <4>3
    <3> HIDE DEF a, c, l, o
    <3> DEFINE b == Append(c, text[m + 1])
    <3>4. text[m + 1] \in Characters
      BY <2>2
    <3>5. /\ b \in Seq(Characters) /\ Len(b) = m + 1 /\ b[m + 1] = text[m + 1]
          /\ \A i \in 1 .. m : b[i] = c[i]
      BY <3>3, <3>4
    <3> HIDE DEF b
    <3>6. ASSUME NEW i \in 1 .. m + 1 PROVE a[i] = b[i]
      <4>1. CASE i = m + 1
        BY <3>2, <3>5, <4>1
      <4>2. CASE i # m + 1
        <5>1. i \in 1 .. m
          BY <2>2, <4>2
        <5> QED BY <3>2, <3>3, <3>5, <5>1
      <4> QED BY <4>1, <4>2
    <3>7. a = b
      BY <3>2, <3>5, <3>6, SameSeq
    <3> QED BY <3>7 DEF a, b, c
  <2>4. before \in Texts
    <3>1. SubSeq(text, 1, m) \in Seq(Characters)
      BY <2>2, PartIs
    <3> QED BY <3>1 DEF Texts
  <2> HIDE DEF m, before
  <2>5. LinesMake(WithChar(h[m], text[n]), Append(before, text[n]))
    BY <2>1, <2>2, <2>4, CharSplit
  <2>6. h[n] = WithChar(h[m], text[n])
    BY <1>11 DEF m
  <2>7. SubSeq(text, 1, n) = Append(before, text[n])
    BY <2>2, <2>3 DEF before
  <2> QED BY <2>2, <2>5, <2>6, <2>7
<1> HIDE DEF A
<1>14. \A n \in 0 .. N : n \in A
  BY <1>1, <1>12, <1>13, Upwards
<1>15. LinesMake(h[N], SubSeq(text, 1, N))
  <2>1. N \in 0 .. N
    BY <1>1
  <2> QED BY <1>14, <2>1 DEF A
<1>16. SubSeq(text, 1, N) = text
  BY DEF N, Texts
<1> QED BY <1>2, <1>15, <1>16

LEMMA WrittenIs ==
  ASSUME NEW line \in Texts
  PROVE  LET lines == SplitLines(line)
         IN /\ Written(line) \in Seq(FileRows)
            /\ Len(Written(line)) = Len(lines)
            /\ Written(line)[1].tag \in {" ", "~"}
            /\ \A i \in 2 .. Len(lines) : Written(line)[i].tag = "|"
            /\ \A i \in 1 .. Len(lines) : Written(line)[i].text = lines[i]
<1> DEFINE lines == SplitLines(line)
           K == Len(lines)
           tag(i) == IF K = 1 THEN " " ELSE IF i = 1 THEN "~" ELSE "|"
           rows == [i \in 1 .. K |-> Row(tag(i), lines[i])]
<1>1. PICK joined : Unite(lines, line, joined)
  BY SplitMakes DEF LinesMake
<1>2. lines \in Seq(Texts) /\ K # 0
  BY <1>1 DEF Unite
<1>3. DOMAIN lines = 1 .. K /\ K \in Nat /\ \A i \in 1 .. K : lines[i] \in Texts
  BY <1>2
<1>4. Written(line) = rows
  BY <1>3 DEF Written
<1> HIDE DEF lines, K
<1>5. ASSUME NEW i \in 1 .. K PROVE Row(tag(i), lines[i]) \in FileRows
  <2> DEFINE t == tag(i)
  <2>1. t \in Tags
    <3>1. t = " " \/ t = "~" \/ t = "|"
      BY Zenon
    <3>2. {" ", "~", "|"} \subseteq Tags
      BY Zenon DEF Tags
    <3> HIDE DEF t
    <3> QED BY <3>1, <3>2
  <2> HIDE DEF t
  <2>2. Row(t, lines[i]) \in FileRows
    BY <1>3, <2>1 DEF Row, FileRows
  <2> QED BY <2>2 DEF t
<1>6. rows \in Seq(FileRows) /\ Len(rows) = K /\ \A i \in 1 .. K : rows[i] = Row(tag(i), lines[i])
  <2> DEFINE W(i) == Row(tag(i), lines[i])
  <2>1. \A i \in 1 .. K : W(i) \in FileRows
    BY <1>5
  <2> HIDE DEF W
  <2>2. [i \in 1 .. K |-> W(i)] \in Seq(FileRows) /\ Len([i \in 1 .. K |-> W(i)]) = K
        /\ \A i \in 1 .. K : [j \in 1 .. K |-> W(j)][i] = W(i)
    BY <1>3, <2>1
  <2> QED BY <2>2 DEF W
<1>7. ASSUME NEW i \in 1 .. K PROVE rows[i].tag = tag(i) /\ rows[i].text = lines[i]
  BY <1>6 DEF Row
<1> HIDE DEF rows
<1>8. 1 \in 1 .. K /\ \A i \in 2 .. K : i \in 1 .. K /\ i # 1 /\ K # 1
  BY <1>2, <1>3
<1>9. rows[1].tag \in {" ", "~"} /\ \A i \in 2 .. K : rows[i].tag = "|"
  BY <1>7, <1>8
<1> QED BY <1>4, <1>6, <1>7, <1>9 DEF lines, K

LEMMA ItemContinued ==
  ASSUME NEW items \in Seq(Texts), NEW a \in Texts, NEW b \in Texts
  PROVE  WithRow(Append(items, a), [tag |-> "|", text |-> b])
           = Append(items, a \o <<LineFeed>> \o b)
<1> DEFINE n == Len(items)
           c == n + 1
           new == a \o <<LineFeed>> \o b
           x == Append(items, a)
           y == Append(items, new)
           d == [x EXCEPT ![c] = new]
<1>1. n \in Nat /\ new \in Texts
  BY TextJoined
<1> HIDE DEF new
<1>2. /\ x \in Seq(Texts) /\ Len(x) = n + 1 /\ x[n + 1] = a
      /\ \A j \in 1 .. n : x[j] = items[j]
  BY LastIsAppended
<1>3. /\ y \in Seq(Texts) /\ Len(y) = n + 1 /\ y[n + 1] = new
      /\ \A j \in 1 .. n : y[j] = items[j]
  BY <1>1, LastIsAppended
<1> HIDE DEF x, y
<1>4. WithRow(x, [tag |-> "|", text |-> b]) = [x EXCEPT ![Len(x)] = x[Len(x)] \o <<LineFeed>> \o b]
  BY DEF WithRow
<1>5. WithRow(x, [tag |-> "|", text |-> b]) = d
  BY <1>2, <1>4 DEF new
<1> HIDE DEF n
<1>6. c \in 1 .. n + 1 /\ c = n + 1
  BY <1>1
<1> HIDE DEF c
<1>7. /\ d \in Seq(Texts) /\ Len(d) = n + 1 /\ d[c] = new
      /\ \A j \in 1 .. n + 1 : j # c => d[j] = x[j]
  <2>1. c \in 1 .. Len(x)
    BY <1>2, <1>6
  <2> QED BY <1>1, <1>2, <2>1, ItemStored
<1> HIDE DEF d
<1>8. ASSUME NEW j \in 1 .. n + 1 PROVE d[j] = y[j]
  <2>1. CASE j = c
    BY <1>3, <1>6, <1>7, <2>1
  <2>2. CASE j # c
    <3>1. j \in 1 .. n
      BY <1>1, <1>6, <2>2
    <3> QED BY <1>2, <1>3, <1>7, <2>2, <3>1
  <2> QED BY <2>1, <2>2
<1>9. d = y
  BY <1>3, <1>7, <1>8, SameSeq
<1> QED BY <1>5, <1>9 DEF x, y, new

(* What add_history appends to the history file, open_history_file reads   *)
(* as the same line, of one row or more, after the lines read before.      *)
THEOREM HistoryFileKeepsLines ==
  ASSUME NEW rows \in Seq(FileRows), NEW line \in Texts
  PROVE  Loaded(rows \o Written(line)) = Append(Loaded(rows), line)
<1> DEFINE extra == Written(line)
           lines == SplitLines(line)
           K == Len(lines)
           L == Loaded(rows)
<1>1. /\ extra \in Seq(FileRows) /\ Len(extra) = K
      /\ extra[1].tag \in {" ", "~"}
      /\ \A i \in 2 .. K : extra[i].tag = "|"
      /\ \A i \in 1 .. K : extra[i].text = lines[i]
  BY WrittenIs
<1>2. PICK joined : Unite(lines, line, joined)
  BY SplitMakes DEF LinesMake
<1>3. /\ lines \in Seq(Texts) /\ K # 0 /\ joined \in [1 .. K -> Texts] /\ joined[1] = lines[1]
      /\ \A i \in 2 .. K : joined[i] = joined[i - 1] \o <<LineFeed>> \o lines[i]
      /\ joined[K] = line
  BY <1>2 DEF Unite
<1>4. K \in Nat /\ \A i \in 1 .. K : lines[i] \in Texts
  BY <1>3
<1>5. PICK f \in [0 .. Len(extra) -> Seq(Texts)] :
            /\ f[0] = Loaded(rows)
            /\ \A n \in 1 .. Len(extra) : f[n] = WithRow(f[n - 1], extra[n])
            /\ Loaded(rows \o extra) = f[Len(extra)]
  BY <1>1, LoadedOnto
<1>6. L \in Seq(Texts)
  BY LoadedTexts
<1>7. ASSUME NEW n \in 1 .. K PROVE f[n] = WithRow(f[n - 1], extra[n])
  BY <1>1, <1>5
<1>8. f[0] = L /\ Loaded(rows \o extra) = f[K]
  BY <1>1, <1>5
<1> HIDE DEF extra, lines, K, L
<1>9. f[1] = Append(L, joined[1])
  <2>1. 1 \in 1 .. K /\ 1 - 1 = 0
    BY <1>3, <1>4
  <2>2. f[1] = WithRow(f[1 - 1], extra[1])
    BY <1>7, <2>1
  <2>3. f[1] = WithRow(L, extra[1])
    BY <1>8, <2>1, <2>2
  <2>4. extra[1].text = lines[1] /\ extra[1].tag \in {" ", "~"}
    BY <1>1, <2>1
  <2> QED BY <1>3, <2>3, <2>4 DEF WithRow
<1>10. ASSUME NEW n \in 1 .. K PROVE extra[n] \in FileRows
  <2> DEFINE S == FileRows
  <2>1. extra \in Seq(S) /\ Len(extra) = K
    BY <1>1
  <2> HIDE DEF S
  <2>2. \A i \in 1 .. Len(extra) : extra[i] \in S
    BY <2>1
  <2> QED BY <2>1, <2>2 DEF S
<1> DEFINE A == {n \in 0 .. K - 1 : f[n + 1] = Append(L, joined[n + 1])}
<1>11. 0 \in A
  <2>1. 0 \in 0 .. K - 1 /\ 0 + 1 = 1
    BY <1>3, <1>4
  <2> QED BY <1>9, <2>1
<1>12. ASSUME NEW n \in 1 .. K - 1, n - 1 \in A PROVE n \in A
  <2>1. n \in 0 .. K - 1 /\ n + 1 \in 2 .. K /\ n + 1 \in 1 .. K /\ n \in 1 .. K
        /\ (n - 1) + 1 = n /\ (n + 1) - 1 = n
    BY <1>4
  <2>2. f[n] = Append(L, joined[n])
    BY <1>12, <2>1
  <2> DEFINE m == n + 1
  <2>3. m \in 2 .. K /\ m \in 1 .. K /\ m - 1 = n
    BY <2>1
  <2> HIDE DEF m
  <2>4. f[m] = WithRow(f[n], extra[m])
    BY <1>7, <2>3
  <2>5. joined[n] \in Texts /\ lines[m] \in Texts
    BY <1>3, <1>4, <2>1, <2>3
  <2>6. extra[m].tag = "|" /\ extra[m].text = lines[m] /\ extra[m] \in FileRows
    BY <1>1, <1>10, <2>3
  <2>7. extra[m] = [tag |-> "|", text |-> lines[m]]
    BY <2>6 DEF FileRows
  <2>8. WithRow(Append(L, joined[n]), [tag |-> "|", text |-> lines[m]])
          = Append(L, joined[n] \o <<LineFeed>> \o lines[m])
    BY <1>6, <2>5, ItemContinued
  <2>9. joined[m] = joined[n] \o <<LineFeed>> \o lines[m]
    BY <1>3, <2>3
  <2>10. f[m] = Append(L, joined[m])
    BY <2>2, <2>4, <2>7, <2>8, <2>9
  <2> QED BY <2>1, <2>10 DEF m
<1> HIDE DEF A
<1>13. \A n \in 0 .. K - 1 : n \in A
  <2> DEFINE N == K - 1
  <2>1. N \in Nat /\ 0 \in A /\ \A n \in 1 .. N : n - 1 \in A => n \in A
    BY <1>3, <1>4, <1>11, <1>12
  <2> HIDE DEF N
  <2>2. \A n \in 0 .. N : n \in A
    BY <2>1, Upwards
  <2> QED BY <2>2 DEF N
<1>14. f[K] = Append(L, joined[K])
  <2>1. K - 1 \in 0 .. K - 1 /\ (K - 1) + 1 = K
    BY <1>3, <1>4
  <2>2. K - 1 \in A
    BY <1>13, <2>1
  <2> QED BY <2>1, <2>2 DEF A
<1> QED BY <1>3, <1>8, <1>14 DEF L, extra

LEMMA StrippedIsText ==
  ASSUME NEW text \in Texts
  PROVE  Stripped(text) \in Texts
<1> DEFINE visible == {i \in DOMAIN text : text[i] \notin WhiteSpace}
<1>1. text \in Seq(Characters) /\ Len(text) \in Nat /\ DOMAIN text = 1 .. Len(text)
  BY DEF Texts
<1>2. CASE visible = {}
  <2>1. Stripped(text) = <<>>
    BY <1>2 DEF Stripped
  <2> QED BY <2>1, TextJoined
<1>3. CASE visible # {}
  <2>1. Stripped(text) = SubSeq(text, Min(visible), Max(visible))
    BY <1>3 DEF Stripped
  <2> DEFINE n == Len(text)
  <2>2. n \in Nat /\ visible \in SUBSET Nat /\ \A i \in visible : i >= 1 /\ i <= n
    BY <1>1
  <2> HIDE DEF visible, n
  <2>3. Min(visible) \in visible /\ Max(visible) \in visible
    BY <1>3, <2>2, MinOf, MaxOf
  <2>4. Min(visible) \in Nat /\ Max(visible) \in Nat /\ Min(visible) >= 1 /\ Max(visible) <= n
    BY <2>2, <2>3
  <2> DEFINE a == Min(visible)
             b == Max(visible)
  <2>5. a \in Nat /\ b \in Nat /\ a >= 1 /\ b <= Len(text)
    BY <2>4 DEF n
  <2> HIDE DEF a, b
  <2>6. SubSeq(text, a, b) \in Seq(Characters)
    BY ONLY <1>1, <2>5, PartIs
  <2> QED BY <2>1, <2>6 DEF a, b, Texts
<1> QED BY <1>2, <1>3

-----------------------------------------------------------------------------
(* The inductive invariant.                                                *)

OrdinaryInput == IsMultiline /\ OrdinaryKeys

EditLineInv ==
  /\ EditorOK
  /\ Streams(input, tty, typed)
  /\ continueNl = IsOpen(buffer.content)
  /\ file \in Seq(FileRows)
  /\ keyboard \in Keyboards
  /\ pc = "read" => state # "ControlBreak"

(* The editor as Editor sees it does not change. *)
LEMMA Unseen ==
  ASSUME UNCHANGED <<buffer, historyVars, file, typed>>, AbstractPhase' = AbstractPhase
  PROVE  UNCHANGED E!vars
<1>1. /\ buffer' = buffer /\ history' = history /\ historyCursor' = historyCursor
      /\ origBuffer' = origBuffer /\ file' = file /\ typed' = typed
  BY DEF historyVars
<1>2. AllLines' = AllLines
  BY <1>1 DEF AllLines
<1>3. EditedLine' = EditedLine
  BY <1>1 DEF EditedLine
<1>4. KeptLine' = KeptLine
  BY <1>1 DEF KeptLine
<1>5. Loaded(file)' = Loaded(file)
  BY <1>1
<1>6. buffer.cursor' = buffer.cursor
  BY <1>1
<1> QED BY <1>1, <1>2, <1>3, <1>4, <1>5, <1>6 DEF E!vars

LEMMA SameEditor ==
  ASSUME EditorOK, UNCHANGED <<buffer, historyVars>>
  PROVE  EditorOK'
  BY DEF EditorOK, historyVars

LEMMA TypeStep ==
  ASSUME EditLineInv, OrdinaryKeys, Type
  PROVE  E!Type /\ EditLineInv'
<1>1. PICK key \in keyboard : typed' = Append(typed, key) /\ tty' = Append(tty, Encoding(key))
  BY DEF Type
<1>2. /\ pc' = pc /\ state' = state /\ buffer' = buffer /\ input' = input
      /\ continueNl' = continueNl /\ file' = file /\ keyboard' = keyboard
      /\ history' = history /\ historyCursor' = historyCursor /\ origBuffer' = origBuffer
  BY DEF Type, historyVars, bounds
<1>3. key \in UNION Keyboards
  BY DEF EditLineInv
<1>4. Streams(input, Append(tty, Encoding(key)), Append(typed, key))
  BY <1>3, TypedStreams DEF EditLineInv
<1>5. Streams(input, tty, typed)'
  BY <1>1, <1>2, <1>4
<1>6. EditorOK'
  BY <1>2, SameEditor DEF EditLineInv, historyVars
<1>7. EditLineInv'
  BY <1>2, <1>5, <1>6 DEF EditLineInv
<1>8. AllLines' = AllLines /\ EditedLine' = EditedLine /\ KeptLine' = KeptLine
  BY <1>2 DEF AllLines, EditedLine, KeptLine
<1>9. AbstractPhase' = AbstractPhase
  BY <1>2 DEF AbstractPhase
<1>10. E!Type
  <2>1. Loaded(file)' = Loaded(file) /\ buffer.cursor' = buffer.cursor
    BY <1>2
  <2> QED BY <1>1, <1>3, <1>8, <1>9, <2>1 DEF E!Type
<1> QED BY <1>7, <1>10

LEMMA HangUpStep ==
  ASSUME EditLineInv, HangUp
  PROVE  UNCHANGED E!vars /\ EditLineInv'
<1>1. /\ pc' = pc /\ state' = state /\ buffer' = buffer /\ input' = input /\ tty' = tty
      /\ typed' = typed /\ continueNl' = continueNl /\ file' = file /\ keyboard' = keyboard
      /\ UNCHANGED historyVars
  BY DEF HangUp, bounds
<1>2. AbstractPhase' = AbstractPhase
  BY <1>1 DEF AbstractPhase
<1>3. UNCHANGED E!vars
  BY <1>1, <1>2, Unseen
<1>4. EditorOK'
  BY <1>1, SameEditor DEF EditLineInv
<1>5. Streams(input, tty, typed)'
  BY <1>1 DEF EditLineInv
<1> QED BY <1>1, <1>3, <1>4, <1>5 DEF EditLineInv

LEMMA ReceiveStep ==
  ASSUME EditLineInv, OrdinaryKeys, Receive
  PROVE  UNCHANGED E!vars /\ EditLineInv'
<1>1. /\ pc = Waiting /\ pc' = "process" /\ state' = state /\ buffer' = buffer
      /\ typed' = typed /\ continueNl' = continueNl /\ file' = file /\ keyboard' = keyboard
      /\ UNCHANGED historyVars
  BY DEF Receive, bounds
<1>2. AbstractPhase' = AbstractPhase
  <2>1. pc \in {"read", "idle"}
    BY <1>1 DEF Waiting
  <2>2. AbstractPhase = "editing"
    BY <2>1 DEF AbstractPhase
  <2>3. AbstractPhase' = "editing"
    BY <1>1 DEF AbstractPhase
  <2> QED BY <2>2, <2>3
<1>3. UNCHANGED E!vars
  BY <1>1, <1>2, Unseen
<1>4. EditorOK'
  BY <1>1, SameEditor DEF EditLineInv
<1>5. Streams(input, tty, typed)'
  <2>1. PICK n \in 0 .. Len(tty) :
          \E part \in 0 .. (IF n < Len(tty) THEN Len(tty[n + 1]) - 1 ELSE 0) :
            LET rest == SubSeq(tty, n + 1, Len(tty))
            IN /\ n + part > 0
               /\ part > 0 => MayCut(rest[1], part)
               /\ input' = input \o FlattenSeq(SubSeq(tty, 1, n))
                             \o (IF part = 0 THEN <<>> ELSE SubSeq(rest[1], 1, part))
               /\ tty' = IF part = 0 THEN rest
                         ELSE <<SubSeq(rest[1], part + 1, Len(rest[1]))>> \o Tail(rest)
    BY Zenon DEF Receive
  <2> DEFINE rest == SubSeq(tty, n + 1, Len(tty))
  <2>2. PICK part \in 0 .. (IF n < Len(tty) THEN Len(tty[n + 1]) - 1 ELSE 0) :
               /\ part > 0 => MayCut(rest[1], part)
               /\ input' = input \o FlattenSeq(SubSeq(tty, 1, n))
                             \o (IF part = 0 THEN <<>> ELSE SubSeq(rest[1], 1, part))
               /\ tty' = IF part = 0 THEN rest
                         ELSE <<SubSeq(rest[1], part + 1, Len(rest[1]))>> \o Tail(rest)
    BY <2>1, Zenon
  <2>3. rest = SubSeq(tty, n + 1, Len(tty))
    OBVIOUS
  <2> HIDE DEF rest
  <2>4. Streams(input, tty, typed)
    BY DEF EditLineInv
  <2>5. Streams(input \o FlattenSeq(SubSeq(tty, 1, n))
                  \o (IF part = 0 THEN <<>> ELSE SubSeq(rest[1], 1, part)),
                IF part = 0 THEN rest
                ELSE <<SubSeq(rest[1], part + 1, Len(rest[1]))>> \o Tail(rest),
                typed)
    BY <2>2, <2>3, <2>4, ReceivedStreams
  <2> QED BY <1>1, <2>2, <2>5
<1>6. (continueNl = IsOpen(buffer.content))'
  BY <1>1 DEF EditLineInv
<1> QED BY <1>1, <1>3, <1>4, <1>5, <1>6 DEF EditLineInv

LEMMA NeedMoreStep ==
  ASSUME EditLineInv, NeedMoreInput
  PROVE  UNCHANGED E!vars /\ EditLineInv'
<1>1. /\ pc = "process" /\ pc' = Waiting /\ state' = "NeedMoreInputData" /\ buffer' = buffer
      /\ input' = input /\ tty' = tty
      /\ typed' = typed /\ continueNl' = continueNl /\ file' = file /\ keyboard' = keyboard
      /\ UNCHANGED historyVars
  BY DEF NeedMoreInput, bounds, terminal
<1>2. AbstractPhase' = AbstractPhase
  <2>1. pc' \in {"read", "idle"}
    BY <1>1 DEF Waiting
  <2>2. AbstractPhase = "editing"
    BY <1>1 DEF AbstractPhase
  <2>3. AbstractPhase' = "editing"
    BY <2>1 DEF AbstractPhase
  <2> QED BY <2>2, <2>3
<1>3. UNCHANGED E!vars
  BY <1>1, <1>2, Unseen
<1>4. EditorOK'
  BY <1>1, SameEditor DEF EditLineInv
<1>5. Streams(input, tty, typed)' /\ (continueNl = IsOpen(buffer.content))'
  BY <1>1 DEF EditLineInv
<1> QED BY <1>1, <1>3, <1>4, <1>5 DEF EditLineInv

LEMMA EndOfInputStep ==
  ASSUME EditLineInv, EndOfInput
  PROVE  E!HangUp /\ EditLineInv'
<1>1. /\ pc = "read" /\ pc' = "finish" /\ state' = state /\ buffer' = buffer
      /\ input' = input /\ tty' = tty
      /\ typed' = typed /\ continueNl' = continueNl /\ file' = file /\ keyboard' = keyboard
      /\ history' = history /\ historyCursor' = historyCursor /\ origBuffer' = origBuffer
  BY DEF EndOfInput, bounds, terminal, historyVars
<1>2. state # "ControlBreak"
  BY <1>1 DEF EditLineInv
<1>3. AbstractPhase = "editing" /\ AbstractPhase' = "entered"
  BY <1>1, <1>2 DEF AbstractPhase
<1>4. AllLines' = AllLines /\ EditedLine' = EditedLine /\ KeptLine' = KeptLine
  BY <1>1 DEF AllLines, EditedLine, KeptLine
<1>5. E!HangUp
  <2>1. Loaded(file)' = Loaded(file) /\ buffer.cursor' = buffer.cursor
    BY <1>1
  <2> QED BY <1>1, <1>3, <1>4, <2>1 DEF E!HangUp
<1>6. EditorOK'
  BY <1>1, SameEditor DEF EditLineInv, historyVars
<1>7. Streams(input, tty, typed)' /\ (continueNl = IsOpen(buffer.content))'
  BY <1>1 DEF EditLineInv
<1> QED BY <1>1, <1>5, <1>6, <1>7 DEF EditLineInv

LEMMA ProcessStep ==
  ASSUME EditLineInv, OrdinaryInput, ProcessInput
  PROVE  E!Handle /\ EditLineInv'
<1>1. /\ EditorOK /\ Streams(input, tty, typed) /\ continueNl = IsOpen(buffer.content)
      /\ IsMultiline /\ OrdinaryKeys
  BY DEF EditLineInv, OrdinaryInput
<1>2. /\ E!Handle /\ EditorOK' /\ Streams(input, tty, typed)'
      /\ (continueNl = IsOpen(buffer.content))' /\ pc' \in {"process", "finish"}
  BY <1>1, ProcessedHandles
<1>3. file' = file /\ keyboard' = keyboard
  BY DEF ProcessInput, bounds
<1> QED BY <1>2, <1>3 DEF EditLineInv

LEMMA NoTextIs ==
  /\ EmptyBuffer \in Buffers /\ EmptyBuffer.content = <<>> /\ EmptyBuffer.cursor = 0
  /\ <<>> \in Texts
<1>1. <<>> \in Texts
  BY DEF Texts
<1>2. EmptyBuffer = [content |-> <<>>, cursor |-> 0]
  BY DEF EmptyBuffer, Buffer
<1>3. Len(<<>>) = 0
  OBVIOUS
<1> QED BY <1>1, <1>2, <1>3 DEF Buffers

(* The lines entered before. *)
LEMMA EarlierLines ==
  ASSUME EditorOK
  PROVE  E!Earlier = history
<1> DEFINE n == Len(history)
           text == buffer.content
<1>1. /\ text \in Texts /\ history \in Seq(Texts) /\ origBuffer \in Texts
      /\ historyCursor \in -1 .. n - 1 /\ n \in Nat
  BY BufferParts DEF EditorOK
<1>2. AllLines \in Seq(Texts) /\ Len(AllLines) = n + 1
  BY LinesAre
<1>3. E!Earlier = [i \in 1 .. Len(AllLines) - 1 |-> IF i = EditedLine THEN KeptLine ELSE AllLines[i]]
  BY DEF E!Earlier
<1>4. Len(AllLines) - 1 = n
  BY <1>1, <1>2
<1> HIDE DEF text
<1>5. ASSUME NEW i \in 1 .. n
      PROVE  (IF i = EditedLine THEN KeptLine ELSE AllLines[i]) = history[i]
  <2>1. CASE historyCursor = -1
    <3>1. EditedLine = n + 1 /\ AllLines = Append(history, text)
      BY <2>1 DEF EditedLine, AllLines, text
    <3>2. i # EditedLine
      BY <1>1, <3>1
    <3>3. Append(history, text)[i] = history[i]
      BY <1>1, LastIsAppended
    <3> QED BY <3>1, <3>2, <3>3
  <2>2. CASE historyCursor # -1
    <3> DEFINE c == historyCursor + 1
               one == [history EXCEPT ![c] = text]
    <3>1. c \in 1 .. n
      BY <1>1, <2>2
    <3>2. EditedLine = c /\ KeptLine = history[c] /\ AllLines = Append(one, origBuffer)
      BY <2>2 DEF EditedLine, KeptLine, AllLines, text
    <3> HIDE DEF c, one
    <3>3. one \in Seq(Texts) /\ Len(one) = n /\ \A j \in 1 .. n : j # c => one[j] = history[j]
      BY <1>1, <3>1, ItemStored DEF one
    <3>4. \A j \in 1 .. Len(one) : Append(one, origBuffer)[j] = one[j]
      BY <1>1, <3>3, LastIsAppended
    <3>5. CASE i = c
      BY <3>2, <3>5
    <3>6. CASE i # c
      <4>1. AllLines[i] = one[i] /\ one[i] = history[i]
        BY <3>2, <3>3, <3>4, <3>6
      <4> QED BY <3>2, <3>6, <4>1
    <3> QED BY <3>5, <3>6
  <2> QED BY <2>1, <2>2
<1>6. [i \in 1 .. n |-> IF i = EditedLine THEN KeptLine ELSE AllLines[i]] = [i \in 1 .. n |-> history[i]]
  BY <1>5
<1>7. history = [i \in 1 .. n |-> history[i]]
  BY <1>1
<1> QED BY <1>3, <1>4, <1>6, <1>7

LEMMA FreshLine ==
  ASSUME FinishInput, StartInput, AbstractPhase' = "editing", typed' = typed
  PROVE  E!NewLineAfter(history')
<1>1. historyCursor' = -1 /\ origBuffer' = <<>> /\ buffer' = EmptyBuffer
  BY DEF FinishInput, StartInput
<1>2. EmptyBuffer.content = <<>> /\ EmptyBuffer.cursor = 0
  BY NoTextIs
<1>3. AllLines' = Append(history', <<>>)
  BY <1>1, <1>2 DEF AllLines
<1>4. EditedLine' = Len(history') + 1
  BY <1>1 DEF EditedLine
<1>5. KeptLine' = <<>>
  BY <1>1 DEF KeptLine
<1>6. buffer.cursor' = 0
  BY <1>1, <1>2
<1> QED BY <1>3, <1>4, <1>5, <1>6 DEF E!NewLineAfter

LEMMA FreshOK ==
  ASSUME FinishInput, StartInput, history' \in Seq(Texts)
  PROVE  EditorOK' /\ (continueNl = IsOpen(buffer.content))'
<1>1. historyCursor' = -1 /\ origBuffer' = <<>> /\ buffer' = EmptyBuffer /\ continueNl' = FALSE
  BY DEF FinishInput, StartInput
<1>2. EmptyBuffer \in Buffers /\ EmptyBuffer.content = <<>> /\ <<>> \in Texts
  BY NoTextIs
<1>3. Len(history') \in Nat
  OBVIOUS
<1>4. -1 \in -1 .. Len(history') - 1
  BY <1>3
<1> QED BY <1>1, <1>2, <1>4, EmptyIsClosed DEF EditorOK

LEMMA NextLineStep ==
  ASSUME EditLineInv, NextLine
  PROVE  (E!Remember \/ E!Cancel) /\ EditLineInv'
<1> DEFINE line == Stripped(buffer.content)
<1>1. /\ pc = "finish" /\ FinishInput /\ StartInput /\ pc' = Resumes
      /\ stepping \/ state # "ControlBreak"
      /\ IF state = "ControlBreak" THEN UNCHANGED <<history, file>> ELSE Evaluate(line)
      /\ state' = state /\ input' = input /\ typed' = typed /\ tty' = tty /\ keyboard' = keyboard
  BY DEF NextLine, terminal, bounds
<1>2. EditorOK /\ file \in Seq(FileRows) /\ history \in Seq(Texts) /\ buffer.content \in Texts
  BY BufferParts DEF EditLineInv, EditorOK
<1>3. line \in Texts
  BY <1>2, StrippedIsText
<1>4. E!Text = buffer.content /\ E!Earlier = history
  BY <1>2, LinkedText, EarlierLines
<1>5. AbstractPhase' = "editing"
  <2>1. pc' \in {"process", "read"}
    BY <1>1 DEF Resumes
  <2> QED BY <2>1 DEF AbstractPhase
<1>6. E!NewLineAfter(history')
  BY <1>1, <1>5, FreshLine
<1> HIDE DEF line
<1>7. /\ history' \in Seq(Texts) /\ file' \in Seq(FileRows)
      /\ E!Remember \/ E!Cancel
  <2>1. CASE state = "ControlBreak"
    <3>1. history' = history /\ file' = file
      BY <1>1, <2>1
    <3>2. AbstractPhase = "cancelled"
      BY <1>1, <2>1 DEF AbstractPhase
    <3>3. Loaded(file)' = Loaded(file)
      BY <3>1
    <3>4. E!NewLineAfter(E!Earlier)
      BY <1>4, <1>6, <3>1
    <3>5. E!Cancel
      BY <3>2, <3>3, <3>4 DEF E!Cancel
    <3> QED BY <1>2, <3>1, <3>5
  <2>2. CASE state # "ControlBreak"
    <3>1. Evaluate(line)
      BY <1>1, <2>2
    <3>2. AbstractPhase = "entered"
      BY <1>1, <2>2 DEF AbstractPhase
    <3>3. Repeats(line) <=> E!Earlier # <<>> /\ E!Earlier[Len(E!Earlier)] = line
      BY <1>4 DEF Repeats, Last
    <3>4. CASE line = <<>> \/ Repeats(line)
      <4>1. history' = history /\ file' = file
        BY <3>1, <3>4 DEF Evaluate
      <4>2. Loaded(file)' = Loaded(file)
        BY <4>1
      <4>3. E!NewLineAfter(E!Earlier)
        BY <1>4, <1>6, <4>1
      <4>4. E!Remember
        BY <1>4, <3>2, <3>3, <3>4, <4>2, <4>3 DEF E!Remember, line
      <4> QED BY <1>2, <4>1, <4>4
    <3>5. CASE ~(line = <<>> \/ Repeats(line))
      <4>1. history' = Append(history, line) /\ file' = file \o Written(line)
        BY <3>1, <3>5 DEF Evaluate
      <4>2. Loaded(file)' = Append(Loaded(file), line)
        BY <1>2, <1>3, <4>1, HistoryFileKeepsLines
      <4>3. E!NewLineAfter(Append(E!Earlier, line))
        BY <1>4, <1>6, <4>1
      <4>4. E!Remember
        BY <1>4, <3>2, <3>3, <3>5, <4>2, <4>3 DEF E!Remember, line
      <4>5. history' \in Seq(Texts)
        BY <1>2, <1>3, <4>1, LastIsAppended
      <4>6. file' \in Seq(FileRows)
        <5>1. Written(line) \in Seq(FileRows)
          BY <1>3, WrittenIs
        <5> QED BY <1>2, <4>1, <5>1, ConcatIs
      <4> QED BY <4>4, <4>5, <4>6
    <3> QED BY <3>4, <3>5
  <2> QED BY <2>1, <2>2
<1>8. EditorOK' /\ (continueNl = IsOpen(buffer.content))'
  BY <1>1, <1>7, FreshOK
<1>9. Streams(input, tty, typed)'
  BY <1>1 DEF EditLineInv
<1>10. pc' = "read" => state' # "ControlBreak"
  <2>1. pc' = "read" => ~stepping
    BY <1>1 DEF Resumes
  <2> QED BY <1>1, <2>1
<1>11. keyboard' \in Keyboards
  BY <1>1 DEF EditLineInv
<1> QED BY <1>7, <1>8, <1>9, <1>10, <1>11 DEF EditLineInv

LEMMA LeaveStep ==
  ASSUME EditLineInv, Leave
  PROVE  E!Cancel /\ EditLineInv'
<1>1. /\ pc = "finish" /\ state = "ControlBreak" /\ pc' = "left" /\ state' = state
      /\ historyCursor' = -1 /\ origBuffer' = <<>> /\ history' = history /\ file' = file
      /\ buffer' = buffer /\ input' = input /\ tty' = tty /\ typed' = typed
      /\ continueNl' = continueNl /\ keyboard' = keyboard
  BY DEF Leave, FinishInput, terminal, bounds
<1>2. EditorOK /\ history \in Seq(Texts) /\ buffer \in Buffers
  BY DEF EditLineInv, EditorOK
<1>3. E!Text = buffer.content /\ E!Earlier = history
  BY <1>2, LinkedText, EarlierLines
<1>4. AbstractPhase = "cancelled" /\ AbstractPhase' = "left"
  BY <1>1 DEF AbstractPhase
<1>5. AllLines' = Append(history, buffer.content) /\ EditedLine' = Len(history) + 1 /\ KeptLine' = <<>>
  BY <1>1 DEF AllLines, EditedLine, KeptLine
<1>6. Len(AllLines) = Len(history) + 1
  BY <1>2, LinesAre
<1>7. E!Cancel
  <2>1. Loaded(file)' = Loaded(file) /\ buffer.cursor' = buffer.cursor
    BY <1>1
  <2> QED BY <1>1, <1>3, <1>4, <1>5, <1>6, <2>1 DEF E!Cancel
<1>8. EditorOK'
  <2>1. Len(history) \in Nat
    BY <1>2
  <2>2. -1 \in -1 .. Len(history) - 1
    BY <2>1
  <2> QED BY <1>1, <1>2, <2>2, NoTextIs DEF EditorOK
<1>9. Streams(input, tty, typed)' /\ (continueNl = IsOpen(buffer.content))'
  BY <1>1 DEF EditLineInv
<1>10. file' \in Seq(FileRows) /\ keyboard' \in Keyboards
  BY <1>1 DEF EditLineInv
<1>11. pc' = "read" => state' # "ControlBreak"
  BY <1>1
<1>12. EditLineInv'
  BY <1>8, <1>9, <1>10, <1>11, Zenon DEF EditLineInv
<1> QED BY <1>7, <1>12

LEMMA RestartStep ==
  ASSUME EditLineInv, Restart
  PROVE  E!Restart /\ EditLineInv'
<1>1. /\ history' = Loaded(file) /\ FinishInput /\ StartInput /\ state' = "NeedMoreInputData"
      /\ input' = <<>> /\ tty' = <<>> /\ typed' = <<>> /\ pc' = Waiting
      /\ file' = file /\ keyboard' = keyboard
  BY DEF Restart
<1>2. file \in Seq(FileRows)
  BY DEF EditLineInv
<1>3. history' \in Seq(Texts)
  BY <1>1, <1>2, LoadedTexts
<1>4. AbstractPhase' = "editing"
  <2>1. pc' \in {"read", "idle"}
    BY <1>1 DEF Waiting
  <2> QED BY <2>1 DEF AbstractPhase
<1>5. historyCursor' = -1 /\ origBuffer' = <<>> /\ buffer' = EmptyBuffer
  BY <1>1 DEF FinishInput, StartInput
<1>6. EmptyBuffer.content = <<>> /\ EmptyBuffer.cursor = 0
  BY NoTextIs
<1>7. /\ AllLines' = Append(Loaded(file), <<>>) /\ EditedLine' = Len(Loaded(file)) + 1
      /\ KeptLine' = <<>> /\ buffer.cursor' = 0
  BY <1>1, <1>5, <1>6 DEF AllLines, EditedLine, KeptLine
<1>8. E!Restart
  <2>1. Loaded(file)' = Loaded(file)
    BY <1>1
  <2> QED BY <1>1, <1>4, <1>7, <2>1 DEF E!Restart
<1>9. EditorOK' /\ (continueNl = IsOpen(buffer.content))'
  BY <1>1, <1>3, FreshOK
<1>10. Streams(input, tty, typed)'
  BY <1>1, NothingStreams
<1>11. file' \in Seq(FileRows) /\ keyboard' \in Keyboards
  BY <1>1, <1>2 DEF EditLineInv
<1> QED BY <1>1, <1>8, <1>9, <1>10, <1>11 DEF EditLineInv

LEMMA InitEditor ==
  ASSUME Init
  PROVE  E!Init /\ EditLineInv
<1>1. /\ keyboard \in Keyboards /\ file \in FirstFiles
      /\ history = Loaded(file) /\ historyCursor = -1 /\ origBuffer = <<>>
      /\ buffer = EmptyBuffer /\ continueNl = FALSE /\ state = "NeedMoreInputData"
      /\ input = <<>> /\ pc = Waiting /\ tty = <<>> /\ typed = <<>>
  BY DEF Init
<1>2. file \in Seq(FileRows)
  <2>1. FirstFiles \subseteq Seq([tag : Tags, text : Seq(Characters)])
    BY CharactersAssumption
  <2>2. FirstFiles \subseteq Seq(FileRows)
    BY <2>1, Zenon DEF FileRows, Texts
  <2> QED BY <1>1, <2>2
<1>3. history \in Seq(Texts)
  BY <1>1, <1>2, LoadedTexts
<1>4. AbstractPhase = "editing"
  <2>1. pc \in {"read", "idle"}
    BY <1>1 DEF Waiting
  <2> QED BY <2>1 DEF AbstractPhase
<1>5. EmptyBuffer \in Buffers /\ EmptyBuffer.content = <<>> /\ EmptyBuffer.cursor = 0 /\ <<>> \in Texts
  BY NoTextIs
<1>6. /\ AllLines = Append(Loaded(file), <<>>) /\ EditedLine = Len(Loaded(file)) + 1
      /\ KeptLine = <<>> /\ buffer.cursor = 0
  BY <1>1, <1>5 DEF AllLines, EditedLine, KeptLine
<1>7. Len(AllLines) = Len(Loaded(file)) + 1
  BY <1>1, <1>3, <1>5, <1>6, LastIsAppended
<1>8. E!Init
  <2>1. Loaded(file) \in {Loaded(f) : f \in FirstFiles}
    BY <1>1
  <2> QED BY <1>1, <1>4, <1>6, <1>7, <2>1 DEF E!Init
<1>9. EditorOK
  <2>1. Len(history) \in Nat
    BY <1>3
  <2>2. -1 \in -1 .. Len(history) - 1
    BY <2>1
  <2> QED BY <1>1, <1>3, <1>5, <2>2 DEF EditorOK
<1>10. continueNl = IsOpen(buffer.content)
  BY <1>1, <1>5, EmptyIsClosed
<1>11. Streams(input, tty, typed)
  BY <1>1, NothingStreams
<1> QED BY <1>1, <1>2, <1>8, <1>9, <1>10, <1>11 DEF EditLineInv

LEMMA EditorStep ==
  ASSUME EditLineInv, OrdinaryInput, [Next]_vars
  PROVE  [E!Next]_(E!vars) /\ EditLineInv'
<1>1. CASE Type
  BY <1>1, TypeStep DEF E!Next, OrdinaryInput
<1>2. CASE HangUp
  BY <1>2, HangUpStep
<1>3. CASE Receive
  BY <1>3, ReceiveStep DEF OrdinaryInput
<1>4. CASE ProcessInput
  BY <1>4, ProcessStep DEF E!Next
<1>5. CASE NeedMoreInput
  BY <1>5, NeedMoreStep
<1>6. CASE EndOfInput
  BY <1>6, EndOfInputStep DEF E!Next
<1>7. CASE NextLine
  BY <1>7, NextLineStep DEF E!Next
<1>8. CASE Leave
  BY <1>8, LeaveStep DEF E!Next
<1>9. CASE Restart
  BY <1>9, RestartStep DEF E!Next
<1>10. CASE UNCHANGED vars
  <2>1. /\ pc' = pc /\ state' = state /\ buffer' = buffer /\ input' = input /\ tty' = tty
        /\ typed' = typed /\ continueNl' = continueNl /\ file' = file /\ keyboard' = keyboard
        /\ history' = history /\ historyCursor' = historyCursor /\ origBuffer' = origBuffer
    BY <1>10 DEF vars
  <2>2. AbstractPhase' = AbstractPhase
    BY <2>1 DEF AbstractPhase
  <2>3. UNCHANGED E!vars
    BY <2>1, <2>2, Unseen DEF historyVars
  <2>4. EditorOK'
    BY <2>1, SameEditor DEF EditLineInv, historyVars
  <2>5. EditLineInv'
    BY <2>1, <2>4 DEF EditLineInv
  <2> QED BY <2>3, <2>5
<1> QED BY <1>1, <1>2, <1>3, <1>4, <1>5, <1>6, <1>7, <1>8, <1>9, <1>10 DEF Next, Program

(* In every state: the texts consist of characters, the cursors are in     *)
(* place, what was received and what the terminal has sent are the keys    *)
(* typed without effect yet, in order, and m_edit_continue_nl tells of the *)
(* text that is edited.                                                    *)
THEOREM EditLineInvariant ==
  ASSUME OrdinaryInput
  PROVE  Spec => []EditLineInv
<1>1. Init => EditLineInv
  BY InitEditor
<1>2. EditLineInv /\ [Next]_vars => EditLineInv'
  BY EditorStep
<1> QED BY <1>1, <1>2, PTL DEF Spec

(* The line editor does what its user relies on: the keys take effect in   *)
(* the order they are typed, each as Editor says, the lines of the history *)
(* keep their changes until one is entered, and what is entered is what    *)
(* this session and the next ones find (Implements).                       *)
THEOREM ImplementsEditor ==
  ASSUME OrdinaryInput
  PROVE  Spec => Implements
<1>1. Init => E!Init
  BY InitEditor
<1>2. EditLineInv /\ [Next]_vars => [E!Next]_(E!vars)
  BY EditorStep
<1> QED BY <1>1, <1>2, EditLineInvariant, PTL DEF Spec, Implements, E!Spec

-----------------------------------------------------------------------------
(* The width of a text and its cells.                                      *)

LEMMA AppendedTo ==
  ASSUME NEW S, NEW a \in Seq(S), NEW b \in Seq(S), NEW x \in S
  PROVE  a \o Append(b, x) = Append(a \o b, x)
<1> DEFINE y == Append(b, x)
           z == a \o b
           n == Len(a)
           m == Len(b)
<1>1. n \in Nat /\ m \in Nat
  OBVIOUS
<1>2. /\ y \in Seq(S) /\ Len(y) = m + 1 /\ y[m + 1] = x
      /\ \A i \in 1 .. m : y[i] = b[i]
  OBVIOUS
<1>3. /\ z \in Seq(S) /\ Len(z) = n + m
      /\ \A i \in 1 .. n : z[i] = a[i]
      /\ \A i \in 1 .. m : z[n + i] = b[i]
  BY ConcatIs
<1> HIDE DEF y, z
<1> DEFINE p == a \o y
           q == Append(z, x)
<1>4. /\ p \in Seq(S) /\ Len(p) = n + Len(y)
      /\ \A i \in 1 .. n : p[i] = a[i]
      /\ \A i \in 1 .. Len(y) : p[n + i] = y[i]
  <2>1. /\ a \o y \in Seq(S) /\ Len(a \o y) = Len(a) + Len(y)
        /\ \A i \in 1 .. Len(a) : (a \o y)[i] = a[i]
        /\ \A i \in 1 .. Len(y) : (a \o y)[Len(a) + i] = y[i]
    <3>1. a \in Seq(S) /\ y \in Seq(S)
      BY <1>2
    <3> QED BY ONLY <3>1, ConcatIs
  <2> QED BY <2>1
<1>5. /\ q \in Seq(S) /\ Len(q) = Len(z) + 1 /\ q[Len(z) + 1] = x
      /\ \A i \in 1 .. Len(z) : q[i] = z[i]
  BY <1>3
<1> HIDE DEF p, q, n, m
<1>6. Len(p) = Len(q) /\ Len(p) = (n + m) + 1
  BY <1>1, <1>2, <1>3, <1>4, <1>5
<1>7. ASSUME NEW i \in 1 .. (n + m) + 1 PROVE p[i] = q[i]
  <2>1. CASE i \in 1 .. n
    <3>1. i \in 1 .. n + m
      BY <1>1, <2>1
    <3> QED BY <1>3, <1>4, <1>5, <2>1, <3>1
  <2>2. CASE i \in n + 1 .. n + m
    <3> DEFINE k == i - n
    <3>1. k \in 1 .. m /\ k \in 1 .. m + 1 /\ n + k = i /\ i \in 1 .. n + m
      BY <1>1, <2>2
    <3> HIDE DEF k
    <3>2. p[n + k] = y[k] /\ y[k] = b[k]
      BY <1>2, <1>4, <3>1
    <3>3. q[i] = z[i] /\ z[n + k] = b[k]
      BY <1>3, <1>5, <3>1
    <3> QED BY <3>1, <3>2, <3>3
  <2>3. CASE i = (n + m) + 1
    <3> DEFINE k == m + 1
    <3>1. k \in 1 .. Len(y) /\ n + k = i /\ k = m + 1
      BY <1>1, <1>2, <2>3
    <3> HIDE DEF k
    <3>2. p[n + k] = y[k]
      BY <1>4, <3>1
    <3>3. q[i] = x
      BY <1>3, <1>5, <2>3
    <3> QED BY <1>2, <3>1, <3>2, <3>3
  <2> QED BY <1>1, <2>1, <2>2, <2>3
<1>8. p = q
  BY <1>4, <1>5, <1>6, <1>7, SameSeq
<1> QED BY <1>8 DEF p, q, y, z

LEMMA FrontAndLast ==
  ASSUME NEW S, NEW s \in Seq(S), NEW n \in 1 .. Len(s)
  PROVE  /\ SubSeq(s, 1, n) = Append(SubSeq(s, 1, n - 1), s[n])
         /\ SubSeq(s, 1, n - 1) \in Seq(S) /\ s[n] \in S
<1> DEFINE m == n - 1
           o == 1
           a == SubSeq(s, o, n)
           c == SubSeq(s, o, m)
           b == Append(c, s[n])
<1>1. /\ n \in Nat /\ m \in Nat /\ o \in Nat /\ o >= 1 /\ o = 1 /\ n = m + 1
      /\ n <= Len(s) /\ m <= Len(s) /\ s[n] \in S
  OBVIOUS
<1> HIDE DEF m, o
<1>2. /\ a \in Seq(S) /\ Len(a) = IF o <= n THEN n - o + 1 ELSE 0
      /\ \A i \in 1 .. n - o + 1 : a[i] = s[o + i - 1]
  BY <1>1, PartIs
<1>3. /\ c \in Seq(S) /\ Len(c) = IF o <= m THEN m - o + 1 ELSE 0
      /\ \A i \in 1 .. m - o + 1 : c[i] = s[o + i - 1]
  BY <1>1, PartIs
<1> HIDE DEF a, c
<1>4. Len(a) = n /\ Len(c) = m
  BY <1>1, <1>2, <1>3
<1>5. /\ b \in Seq(S) /\ Len(b) = m + 1 /\ b[m + 1] = s[n]
      /\ \A i \in 1 .. m : b[i] = c[i]
  BY <1>1, <1>3, <1>4
<1> HIDE DEF b
<1>6. ASSUME NEW i \in 1 .. n PROVE a[i] = b[i]
  <2>1. i \in 1 .. n - o + 1 /\ o + i - 1 = i
    BY <1>1
  <2>2. a[i] = s[i]
    BY <1>2, <2>1
  <2>3. CASE i = n
    BY <1>1, <1>5, <2>2, <2>3
  <2>4. CASE i # n
    <3>1. i \in 1 .. m /\ i \in 1 .. m - o + 1
      BY <1>1, <2>4
    <3>2. c[i] = s[i]
      BY <1>3, <2>1, <3>1
    <3> QED BY <1>5, <2>2, <3>1, <3>2
  <2> QED BY <2>3, <2>4
<1>7. Len(b) = n
  BY <1>1, <1>5
<1>8. a = b
  BY <1>2, <1>4, <1>5, <1>6, <1>7, SameSeq
<1>9. a = Append(c, s[n]) /\ c \in Seq(S) /\ s[n] \in S
  BY <1>1, <1>3, <1>8 DEF b
<1> QED BY <1>9 DEF a, c, m, o

(* What holds of the empty sequence, and of a longer one by what is        *)
(* appended, holds of all.                                                 *)
LEMMA SequencesGrow ==
  ASSUME NEW S, NEW A, <<>> \in A,
         \A t \in Seq(S) : \A x \in S : t \in A => Append(t, x) \in A
  PROVE  \A s \in Seq(S) : s \in A
<1> SUFFICES ASSUME NEW s \in Seq(S) PROVE s \in A
  OBVIOUS
<1> DEFINE N == Len(s)
           B == {n \in 0 .. N : SubSeq(s, 1, n) \in A}
<1>1. N \in Nat /\ SubSeq(s, 1, 0) = <<>> /\ SubSeq(s, 1, N) = s
  OBVIOUS
<1>2. 0 \in B
  <2> HIDE DEF N
  <2>1. 0 \in 0 .. N
    BY <1>1
  <2>2. SubSeq(s, 1, 0) \in A
    BY <1>1, Zenon
  <2> QED BY <2>1, <2>2, Zenon
<1>3. ASSUME NEW n \in 1 .. N, n - 1 \in B PROVE n \in B
  <2>1. /\ SubSeq(s, 1, n) = Append(SubSeq(s, 1, n - 1), s[n])
        /\ SubSeq(s, 1, n - 1) \in Seq(S) /\ s[n] \in S
    BY FrontAndLast
  <2>2. SubSeq(s, 1, n - 1) \in A
    BY <1>3
  <2>3. SubSeq(s, 1, n) \in A
    BY <2>1, <2>2
  <2> QED BY <1>1, <2>3
<1> HIDE DEF N, B
<1>4. \A n \in 0 .. N : n \in B
  BY <1>1, <1>2, <1>3, Upwards
<1>5. N \in B
  BY <1>1, <1>4
<1> QED BY <1>1, <1>5 DEF B

Printable == {char \in Nat : Width(char) \in {1, 2}}

LEMMA TextsArePrintable ==
  /\ Characters \subseteq Printable /\ Prompt \in Seq(Printable)
  /\ Texts \subseteq Seq(Printable)
<1>1. Characters \subseteq Printable
  BY CharactersAssumption, WidthAssumption DEF Printable
<1>2. Prompt \in Seq(Nat) /\ \A i \in DOMAIN Prompt : Width(Prompt[i]) \in {1, 2}
  BY WidthAssumption
<1>3. Prompt \in Seq(Printable)
  <2>1. \A i \in 1 .. Len(Prompt) : Prompt[i] \in Printable
    BY <1>2 DEF Printable
  <2> QED BY <1>2, <2>1
<1>4. Texts \subseteq Seq(Printable)
  BY <1>1 DEF Texts
<1> QED BY <1>1, <1>3, <1>4

LEMMA WidthMoves ==
  ASSUME NEW a \in Nat, NEW x \in Printable
  PROVE  a + Width(x) \in Nat
  BY DEF Printable

LEMMA WidthOfIs ==
  ASSUME NEW text \in Seq(Printable)
  PROVE  \E f \in [0 .. Len(text) -> Nat] :
            /\ f[0] = 0
            /\ \A n \in 1 .. Len(text) : f[n] = f[n - 1] + Width(text[n])
            /\ WidthOf(text) = f[Len(text)]
<1> DEFINE N == Len(text)
           A == Nat
           move == [n \in 1 .. N |-> [a \in A |-> a + Width(text[n])]]
           first == 0
           h == CHOOSE f : f = [n \in 0 .. N |-> IF n = 0 THEN 0 ELSE f[n - 1] + Width(text[n])]
<1>1. N \in Nat /\ \A n \in 1 .. N : text[n] \in Printable
  OBVIOUS
<1>2. WidthOf(text) = h[N]
  BY DEF WidthOf
<1>3. first \in A
  BY DEF first
<1> HIDE DEF N
<1>4. ASSUME NEW n \in 1 .. N, NEW a \in A PROVE a + Width(text[n]) \in A
  BY <1>1, WidthMoves
<1> HIDE DEF A, first
<1>5. move \in [1 .. N -> [A -> A]]
  BY <1>4
<1>6. PICK g \in [0 .. N -> A] : Builds(g, N, first, move)
  <2> HIDE DEF move
  <2> QED BY <1>1, <1>3, <1>5, Recursion
<1>7. g[0] = first /\ \A n \in 1 .. N : g[n] = move[n][g[n - 1]]
  BY <1>6 DEF Builds
<1>8. ASSUME NEW n \in 1 .. N PROVE g[n] = g[n - 1] + Width(text[n])
  <2>1. n - 1 \in 0 .. N
    BY <1>1
  <2>2. g[n - 1] \in A
    BY <2>1
  <2> QED BY <1>7, <2>2
<1> HIDE DEF move
<1>9. g = [n \in 0 .. N |-> IF n = 0 THEN 0 ELSE g[n - 1] + Width(text[n])]
  <2>1. ASSUME NEW n \in 0 .. N
        PROVE  g[n] = IF n = 0 THEN 0 ELSE g[n - 1] + Width(text[n])
    <3>1. CASE n = 0
      BY <1>7, <3>1 DEF first
    <3>2. CASE n # 0
      <4>1. n \in 1 .. N
        BY <1>1, <3>2
      <4> QED BY <1>8, <3>2, <4>1
    <3> QED BY <3>1, <3>2
  <2>2. g = [n \in 0 .. N |-> g[n]]
    OBVIOUS
  <2> QED BY <2>1, <2>2
<1>10. h = [n \in 0 .. N |-> IF n = 0 THEN 0 ELSE h[n - 1] + Width(text[n])]
  BY <1>9
<1> HIDE DEF h
<1>11. h[0] = first /\ \A n \in 1 .. N : h[n] = h[n - 1] + Width(text[n])
  <2>1. 0 \in 0 .. N
    BY <1>1
  <2>2. h[0] = first
    BY <1>10, <2>1 DEF first
  <2>3. ASSUME NEW n \in 1 .. N PROVE h[n] = h[n - 1] + Width(text[n])
    <3>1. n \in 0 .. N /\ n # 0
      BY <1>1
    <3> QED BY <1>10, <3>1
  <2> QED BY <2>2, <2>3
<1>12. h \in [0 .. N -> A]
  <2>1. ASSUME NEW n \in 1 .. N, h[n - 1] \in A PROVE h[n] \in A
    <3>1. h[n - 1] + Width(text[n]) \in A
      BY <1>4, <2>1
    <3> QED BY <1>11, <3>1
  <2>2. h[0] \in A
    BY <1>3, <1>11
  <2>3. \A n \in 0 .. N : h[n] \in A
    BY <1>1, <2>1, <2>2, StaysIn
  <2>4. h = [n \in 0 .. N |-> h[n]]
    BY <1>10
  <2> QED BY <2>3, <2>4
<1> QED BY <1>2, <1>11, <1>12 DEF N, A, first

LEMMA WidthGrows ==
  /\ WidthOf(<<>>) = 0
  /\ \A text \in Seq(Printable) :
        /\ WidthOf(text) \in Nat
        /\ \A x \in Printable : WidthOf(Append(text, x)) = WidthOf(text) + Width(x)
<1>1. WidthOf(<<>>) = 0
  <2>1. <<>> \in Seq(Printable) /\ Len(<<>>) = 0
    OBVIOUS
  <2>2. \E f \in [0 .. Len(<<>>) -> Nat] : f[0] = 0 /\ WidthOf(<<>>) = f[Len(<<>>)]
    BY <2>1, WidthOfIs
  <2> QED BY <2>1, <2>2
<1>2. ASSUME NEW text \in Seq(Printable)
      PROVE  /\ WidthOf(text) \in Nat
             /\ \A x \in Printable : WidthOf(Append(text, x)) = WidthOf(text) + Width(x)
  <2> DEFINE N == Len(text)
  <2>1. N \in Nat /\ N \in 0 .. N
    OBVIOUS
  <2>2. PICK f \in [0 .. Len(text) -> Nat] :
            /\ f[0] = 0
            /\ \A n \in 1 .. Len(text) : f[n] = f[n - 1] + Width(text[n])
            /\ WidthOf(text) = f[Len(text)]
    BY WidthOfIs
  <2>3. WidthOf(text) \in Nat
    BY <2>1, <2>2
  <2>4. ASSUME NEW x \in Printable PROVE WidthOf(Append(text, x)) = WidthOf(text) + Width(x)
    <3> DEFINE more == Append(text, x)
    <3>1. /\ more \in Seq(Printable) /\ Len(more) = N + 1 /\ more[N + 1] = x
          /\ \A i \in 1 .. N : more[i] = text[i]
      OBVIOUS
    <3> HIDE DEF more
    <3>2. PICK g \in [0 .. Len(more) -> Nat] :
            /\ g[0] = 0
            /\ \A n \in 1 .. Len(more) : g[n] = g[n - 1] + Width(more[n])
            /\ WidthOf(more) = g[Len(more)]
      BY <3>1, WidthOfIs
    <3>3. Len(text) = N
      OBVIOUS
    <3> HIDE DEF N
    <3> DEFINE B == {n \in 0 .. N : g[n] = f[n]}
    <3>4. 0 \in B
      BY <2>1, <2>2, <3>2
    <3>5. ASSUME NEW n \in 1 .. N, n - 1 \in B PROVE n \in B
      <4>1. n \in 0 .. N /\ n \in 1 .. N + 1
        BY <2>1
      <4>2. g[n - 1] = f[n - 1]
        BY <3>5
      <4>3. g[n] = g[n - 1] + Width(more[n]) /\ more[n] = text[n]
        BY <3>1, <3>2, <4>1
      <4>4. f[n] = f[n - 1] + Width(text[n])
        BY <2>2, <3>3
      <4> QED BY <4>1, <4>2, <4>3, <4>4
    <3> HIDE DEF B
    <3>6. \A n \in 0 .. N : n \in B
      BY <2>1, <3>4, <3>5, Upwards
    <3>7. g[N] = f[N]
      BY <2>1, <3>6 DEF B
    <3> DEFINE k == N + 1
    <3>8. k \in 1 .. N + 1 /\ k - 1 = N /\ k = N + 1
      BY <2>1
    <3> HIDE DEF k
    <3>9. g[k] = g[N] + Width(more[k])
      BY <3>1, <3>2, <3>8
    <3>10. WidthOf(more) = g[k] /\ WidthOf(text) = f[N] /\ more[k] = x
      BY <2>2, <3>1, <3>2, <3>3, <3>8
    <3>11. WidthOf(more) = WidthOf(text) + Width(x)
      BY <3>7, <3>9, <3>10
    <3> QED BY <3>11 DEF more
  <2> QED BY <2>3, <2>4
<1> QED BY <1>1, <1>2

LEMMA CellsMove ==
  ASSUME NEW a \in Seq(Int), NEW x \in Printable
  PROVE  /\ a \o CellsOf(x) \in Seq(Int) /\ CellsOf(x) \in Seq(Int)
         /\ Len(CellsOf(x)) = Width(x)
<1>1. x \in Int /\ SecondHalf \in Int /\ Width(x) \in {1, 2}
  BY DEF Printable, SecondHalf
<1>2. CellsOf(x) \in Seq(Int) /\ Len(CellsOf(x)) = Width(x)
  <2>1. CASE Width(x) = 2
    <3>1. CellsOf(x) = <<x, SecondHalf>>
      BY <2>1 DEF CellsOf
    <3> QED BY <1>1, <2>1, <3>1
  <2>2. CASE Width(x) = 1
    <3>1. CellsOf(x) = <<x>>
      BY <2>2 DEF CellsOf
    <3> QED BY <1>1, <2>2, <3>1
  <2> QED BY <1>1, <2>1, <2>2
<1> HIDE DEF CellsOf
<1> QED BY <1>2

LEMMA CellsIs ==
  ASSUME NEW text \in Seq(Printable)
  PROVE  \E f \in [0 .. Len(text) -> Seq(Int)] :
            /\ f[0] = <<>>
            /\ \A n \in 1 .. Len(text) : f[n] = f[n - 1] \o CellsOf(text[n])
            /\ Cells(text) = f[Len(text)]
<1> DEFINE N == Len(text)
           A == Seq(Int)
           move == [n \in 1 .. N |-> [a \in A |-> a \o CellsOf(text[n])]]
           first == <<>>
           h == CHOOSE f : f = [n \in 0 .. N |-> IF n = 0 THEN <<>> ELSE f[n - 1] \o CellsOf(text[n])]
<1>1. N \in Nat /\ \A n \in 1 .. N : text[n] \in Printable
  OBVIOUS
<1>2. Cells(text) = h[N]
  BY DEF Cells
<1>3. first \in A
  BY DEF first, A
<1> HIDE DEF N
<1>4. ASSUME NEW n \in 1 .. N, NEW a \in A PROVE a \o CellsOf(text[n]) \in A
  BY <1>1, CellsMove
<1> HIDE DEF A, first
<1>5. move \in [1 .. N -> [A -> A]]
  BY <1>4
<1>6. PICK g \in [0 .. N -> A] : Builds(g, N, first, move)
  <2> HIDE DEF move
  <2> QED BY <1>1, <1>3, <1>5, Recursion
<1>7. g[0] = first /\ \A n \in 1 .. N : g[n] = move[n][g[n - 1]]
  BY <1>6 DEF Builds
<1>8. ASSUME NEW n \in 1 .. N PROVE g[n] = g[n - 1] \o CellsOf(text[n])
  <2>1. n - 1 \in 0 .. N
    BY <1>1
  <2>2. g[n - 1] \in A
    BY <2>1
  <2> QED BY <1>7, <2>2
<1> HIDE DEF move
<1>9. g = [n \in 0 .. N |-> IF n = 0 THEN <<>> ELSE g[n - 1] \o CellsOf(text[n])]
  <2>1. ASSUME NEW n \in 0 .. N
        PROVE  g[n] = IF n = 0 THEN <<>> ELSE g[n - 1] \o CellsOf(text[n])
    <3>1. CASE n = 0
      BY <1>7, <3>1 DEF first
    <3>2. CASE n # 0
      <4>1. n \in 1 .. N
        BY <1>1, <3>2
      <4> QED BY <1>8, <3>2, <4>1
    <3> QED BY <3>1, <3>2
  <2>2. g = [n \in 0 .. N |-> g[n]]
    OBVIOUS
  <2> QED BY <2>1, <2>2
<1>10. h = [n \in 0 .. N |-> IF n = 0 THEN <<>> ELSE h[n - 1] \o CellsOf(text[n])]
  BY <1>9
<1> HIDE DEF h
<1>11. h[0] = first /\ \A n \in 1 .. N : h[n] = h[n - 1] \o CellsOf(text[n])
  <2>1. 0 \in 0 .. N
    BY <1>1
  <2>2. h[0] = first
    BY <1>10, <2>1 DEF first
  <2>3. ASSUME NEW n \in 1 .. N PROVE h[n] = h[n - 1] \o CellsOf(text[n])
    <3>1. n \in 0 .. N /\ n # 0
      BY <1>1
    <3> QED BY <1>10, <3>1
  <2> QED BY <2>2, <2>3
<1>12. h \in [0 .. N -> A]
  <2>1. ASSUME NEW n \in 1 .. N, h[n - 1] \in A PROVE h[n] \in A
    <3>1. h[n - 1] \o CellsOf(text[n]) \in A
      BY <1>4, <2>1
    <3> QED BY <1>11, <3>1
  <2>2. h[0] \in A
    BY <1>3, <1>11
  <2>3. \A n \in 0 .. N : h[n] \in A
    BY <1>1, <2>1, <2>2, StaysIn
  <2>4. h = [n \in 0 .. N |-> h[n]]
    BY <1>10
  <2> QED BY <2>3, <2>4
<1> QED BY <1>2, <1>11, <1>12 DEF N, A, first

LEMMA CellsGrow ==
  /\ Cells(<<>>) = <<>>
  /\ \A text \in Seq(Printable) :
        /\ Cells(text) \in Seq(Int)
        /\ \A x \in Printable : Cells(Append(text, x)) = Cells(text) \o CellsOf(x)
<1>1. Cells(<<>>) = <<>>
  <2>1. <<>> \in Seq(Printable) /\ Len(<<>>) = 0
    OBVIOUS
  <2>2. \E f \in [0 .. Len(<<>>) -> Seq(Int)] : f[0] = <<>> /\ Cells(<<>>) = f[Len(<<>>)]
    BY <2>1, CellsIs
  <2> QED BY <2>1, <2>2
<1>2. ASSUME NEW text \in Seq(Printable)
      PROVE  /\ Cells(text) \in Seq(Int)
             /\ \A x \in Printable : Cells(Append(text, x)) = Cells(text) \o CellsOf(x)
  <2> DEFINE N == Len(text)
  <2>1. N \in Nat /\ N \in 0 .. N
    OBVIOUS
  <2>2. PICK f \in [0 .. Len(text) -> Seq(Int)] :
            /\ f[0] = <<>>
            /\ \A n \in 1 .. Len(text) : f[n] = f[n - 1] \o CellsOf(text[n])
            /\ Cells(text) = f[Len(text)]
    BY CellsIs
  <2>3. Cells(text) \in Seq(Int)
    BY <2>1, <2>2
  <2>4. ASSUME NEW x \in Printable PROVE Cells(Append(text, x)) = Cells(text) \o CellsOf(x)
    <3> DEFINE more == Append(text, x)
    <3>1. /\ more \in Seq(Printable) /\ Len(more) = N + 1 /\ more[N + 1] = x
          /\ \A i \in 1 .. N : more[i] = text[i]
      OBVIOUS
    <3> HIDE DEF more
    <3>2. PICK g \in [0 .. Len(more) -> Seq(Int)] :
            /\ g[0] = <<>>
            /\ \A n \in 1 .. Len(more) : g[n] = g[n - 1] \o CellsOf(more[n])
            /\ Cells(more) = g[Len(more)]
      BY <3>1, CellsIs
    <3>3. Len(text) = N
      OBVIOUS
    <3> HIDE DEF N
    <3> DEFINE B == {n \in 0 .. N : g[n] = f[n]}
    <3>4. 0 \in B
      BY <2>1, <2>2, <3>2
    <3>5. ASSUME NEW n \in 1 .. N, n - 1 \in B PROVE n \in B
      <4>1. n \in 0 .. N /\ n \in 1 .. N + 1
        BY <2>1
      <4>2. g[n - 1] = f[n - 1]
        BY <3>5
      <4>3. g[n] = g[n - 1] \o CellsOf(more[n]) /\ more[n] = text[n]
        BY <3>1, <3>2, <4>1
      <4>4. f[n] = f[n - 1] \o CellsOf(text[n])
        BY <2>2, <3>3
      <4> QED BY <4>1, <4>2, <4>3, <4>4
    <3> HIDE DEF B
    <3>6. \A n \in 0 .. N : n \in B
      BY <2>1, <3>4, <3>5, Upwards
    <3>7. g[N] = f[N]
      BY <2>1, <3>6 DEF B
    <3> DEFINE k == N + 1
    <3>8. k \in 1 .. N + 1 /\ k - 1 = N /\ k = N + 1
      BY <2>1
    <3> HIDE DEF k
    <3>9. g[k] = g[N] \o CellsOf(more[k])
      BY <3>1, <3>2, <3>8
    <3>10. Cells(more) = g[k] /\ Cells(text) = f[N] /\ more[k] = x
      BY <2>2, <3>1, <3>2, <3>3, <3>8
    <3>11. Cells(more) = Cells(text) \o CellsOf(x)
      BY <3>7, <3>9, <3>10
    <3> QED BY <3>11 DEF more
  <2> QED BY <2>3, <2>4
<1> QED BY <1>1, <1>2

LEMMA CellsAreWide ==
  ASSUME NEW text \in Seq(Printable)
  PROVE  Cells(text) \in Seq(Int) /\ Len(Cells(text)) = WidthOf(text) /\ WidthOf(text) \in Nat
<1> DEFINE A == {t \in Seq(Printable) : Len(Cells(t)) = WidthOf(t)}
<1>1. <<>> \in A
  BY WidthGrows, CellsGrow
<1>2. ASSUME NEW t \in Seq(Printable), NEW x \in Printable, t \in A
      PROVE  Append(t, x) \in A
  <2> DEFINE c == Cells(t)
             d == CellsOf(x)
  <2>1. c \in Seq(Int) /\ d \in Seq(Int) /\ Len(d) = Width(x)
    BY CellsGrow, CellsMove
  <2>2. Cells(Append(t, x)) = c \o d
    BY CellsGrow
  <2>3. WidthOf(Append(t, x)) = WidthOf(t) + Width(x)
    BY WidthGrows
  <2>4. Len(c) = WidthOf(t)
    BY <1>2
  <2> HIDE DEF c, d
  <2>5. Len(c \o d) = Len(c) + Len(d)
    <3>1. c \in Seq(Int) /\ d \in Seq(Int)
      BY <2>1
    <3> QED BY ONLY <3>1, ConcatIs
  <2>6. Append(t, x) \in Seq(Printable)
    OBVIOUS
  <2> QED BY <2>1, <2>2, <2>3, <2>4, <2>5, <2>6
<1> HIDE DEF A
<1>3. \A t \in Seq(Printable) : t \in A
  BY <1>1, <1>2, SequencesGrow
<1> QED BY <1>3, CellsGrow, WidthGrows DEF A

LEMMA WidthsAdd ==
  ASSUME NEW a \in Seq(Printable), NEW b \in Seq(Printable)
  PROVE  a \o b \in Seq(Printable) /\ WidthOf(a \o b) = WidthOf(a) + WidthOf(b)
<1> DEFINE A == {t \in Seq(Printable) : WidthOf(a \o t) = WidthOf(a) + WidthOf(t)}
<1>1. <<>> \in A
  <2>1. a \o <<>> = a
    OBVIOUS
  <2>2. WidthOf(<<>>) = 0 /\ WidthOf(a) \in Nat
    BY WidthGrows
  <2> QED BY <2>1, <2>2
<1>2. ASSUME NEW t \in Seq(Printable), NEW x \in Printable, t \in A
      PROVE  Append(t, x) \in A
  <2>1. a \o Append(t, x) = Append(a \o t, x)
    BY AppendedTo
  <2>2. a \o t \in Seq(Printable) /\ Append(t, x) \in Seq(Printable)
    OBVIOUS
  <2>3. WidthOf(Append(a \o t, x)) = WidthOf(a \o t) + Width(x)
    BY <2>2, WidthGrows
  <2>4. WidthOf(Append(t, x)) = WidthOf(t) + Width(x)
    BY WidthGrows
  <2>5. WidthOf(a \o t) = WidthOf(a) + WidthOf(t)
    BY <1>2
  <2>6. WidthOf(a) \in Nat /\ WidthOf(t) \in Nat /\ Width(x) \in Nat
    BY WidthGrows DEF Printable
  <2>7. WidthOf(a \o Append(t, x)) = WidthOf(a) + WidthOf(Append(t, x))
    BY <2>1, <2>3, <2>4, <2>5, <2>6
  <2> QED BY <2>2, <2>7
<1> HIDE DEF A
<1>3. \A t \in Seq(Printable) : t \in A
  BY <1>1, <1>2, SequencesGrow
<1> QED BY <1>3 DEF A

(* The columns of lines, each with one for the line feed behind it. *)
Spans(lines) ==
  LET sums[n \in 0 .. Len(lines)] ==
        IF n = 0 THEN 0 ELSE sums[n - 1] + (WidthOf(lines[n]) + 1)
  IN sums[Len(lines)]

LEMMA TextWidth ==
  ASSUME NEW text \in Texts
  PROVE  WidthOf(text) \in Nat
  BY WidthGrows, TextsArePrintable

LEMMA SpanMoves ==
  ASSUME NEW a \in Nat, NEW x \in Texts
  PROVE  a + (WidthOf(x) + 1) \in Nat
  BY TextWidth

LEMMA SpansIs ==
  ASSUME NEW text \in Seq(Texts)
  PROVE  \E f \in [0 .. Len(text) -> Nat] :
            /\ f[0] = 0
            /\ \A n \in 1 .. Len(text) : f[n] = f[n - 1] + (WidthOf(text[n]) + 1)
            /\ Spans(text) = f[Len(text)]
<1> DEFINE N == Len(text)
           A == Nat
           move == [n \in 1 .. N |-> [a \in A |-> a + (WidthOf(text[n]) + 1)]]
           first == 0
           h == CHOOSE f : f = [n \in 0 .. N |-> IF n = 0 THEN 0 ELSE f[n - 1] + (WidthOf(text[n]) + 1)]
<1>1. N \in Nat /\ \A n \in 1 .. N : text[n] \in Texts
  OBVIOUS
<1>2. Spans(text) = h[N]
  BY DEF Spans
<1>3. first \in A
  BY DEF first
<1> HIDE DEF N
<1>4. ASSUME NEW n \in 1 .. N, NEW a \in A PROVE a + (WidthOf(text[n]) + 1) \in A
  BY <1>1, SpanMoves
<1> HIDE DEF A, first
<1>5. move \in [1 .. N -> [A -> A]]
  BY <1>4
<1>6. PICK g \in [0 .. N -> A] : Builds(g, N, first, move)
  <2> HIDE DEF move
  <2> QED BY <1>1, <1>3, <1>5, Recursion
<1>7. g[0] = first /\ \A n \in 1 .. N : g[n] = move[n][g[n - 1]]
  BY <1>6 DEF Builds
<1>8. ASSUME NEW n \in 1 .. N PROVE g[n] = g[n - 1] + (WidthOf(text[n]) + 1)
  <2>1. n - 1 \in 0 .. N
    BY <1>1
  <2>2. g[n - 1] \in A
    BY <2>1
  <2> QED BY <1>7, <2>2
<1> HIDE DEF move
<1>9. g = [n \in 0 .. N |-> IF n = 0 THEN 0 ELSE g[n - 1] + (WidthOf(text[n]) + 1)]
  <2>1. ASSUME NEW n \in 0 .. N
        PROVE  g[n] = IF n = 0 THEN 0 ELSE g[n - 1] + (WidthOf(text[n]) + 1)
    <3>1. CASE n = 0
      BY <1>7, <3>1 DEF first
    <3>2. CASE n # 0
      <4>1. n \in 1 .. N
        BY <1>1, <3>2
      <4> QED BY <1>8, <3>2, <4>1
    <3> QED BY <3>1, <3>2
  <2>2. g = [n \in 0 .. N |-> g[n]]
    OBVIOUS
  <2> QED BY <2>1, <2>2
<1>10. h = [n \in 0 .. N |-> IF n = 0 THEN 0 ELSE h[n - 1] + (WidthOf(text[n]) + 1)]
  BY <1>9
<1> HIDE DEF h
<1>11. h[0] = first /\ \A n \in 1 .. N : h[n] = h[n - 1] + (WidthOf(text[n]) + 1)
  <2>1. 0 \in 0 .. N
    BY <1>1
  <2>2. h[0] = first
    BY <1>10, <2>1 DEF first
  <2>3. ASSUME NEW n \in 1 .. N PROVE h[n] = h[n - 1] + (WidthOf(text[n]) + 1)
    <3>1. n \in 0 .. N /\ n # 0
      BY <1>1
    <3> QED BY <1>10, <3>1
  <2> QED BY <2>2, <2>3
<1>12. h \in [0 .. N -> A]
  <2>1. ASSUME NEW n \in 1 .. N, h[n - 1] \in A PROVE h[n] \in A
    <3>1. h[n - 1] + (WidthOf(text[n]) + 1) \in A
      BY <1>4, <2>1
    <3> QED BY <1>11, <3>1
  <2>2. h[0] \in A
    BY <1>3, <1>11
  <2>3. \A n \in 0 .. N : h[n] \in A
    BY <1>1, <2>1, <2>2, StaysIn
  <2>4. h = [n \in 0 .. N |-> h[n]]
    BY <1>10
  <2> QED BY <2>3, <2>4
<1> QED BY <1>2, <1>11, <1>12 DEF N, A, first

LEMMA SpansGrow ==
  /\ Spans(<<>>) = 0
  /\ \A text \in Seq(Texts) :
        /\ Spans(text) \in Nat
        /\ \A x \in Texts : Spans(Append(text, x)) = Spans(text) + (WidthOf(x) + 1)
<1>1. Spans(<<>>) = 0
  <2>1. <<>> \in Seq(Texts) /\ Len(<<>>) = 0
    OBVIOUS
  <2>2. \E f \in [0 .. Len(<<>>) -> Nat] : f[0] = 0 /\ Spans(<<>>) = f[Len(<<>>)]
    BY <2>1, SpansIs
  <2> QED BY <2>1, <2>2
<1>2. ASSUME NEW text \in Seq(Texts)
      PROVE  /\ Spans(text) \in Nat
             /\ \A x \in Texts : Spans(Append(text, x)) = Spans(text) + (WidthOf(x) + 1)
  <2> DEFINE N == Len(text)
  <2>1. N \in Nat /\ N \in 0 .. N
    OBVIOUS
  <2>2. PICK f \in [0 .. Len(text) -> Nat] :
            /\ f[0] = 0
            /\ \A n \in 1 .. Len(text) : f[n] = f[n - 1] + (WidthOf(text[n]) + 1)
            /\ Spans(text) = f[Len(text)]
    BY SpansIs
  <2>3. Spans(text) \in Nat
    BY <2>1, <2>2
  <2>4. ASSUME NEW x \in Texts PROVE Spans(Append(text, x)) = Spans(text) + (WidthOf(x) + 1)
    <3> DEFINE more == Append(text, x)
    <3>1. /\ more \in Seq(Texts) /\ Len(more) = N + 1 /\ more[N + 1] = x
          /\ \A i \in 1 .. N : more[i] = text[i]
      OBVIOUS
    <3> HIDE DEF more
    <3>2. PICK g \in [0 .. Len(more) -> Nat] :
            /\ g[0] = 0
            /\ \A n \in 1 .. Len(more) : g[n] = g[n - 1] + (WidthOf(more[n]) + 1)
            /\ Spans(more) = g[Len(more)]
      BY <3>1, SpansIs
    <3>3. Len(text) = N
      OBVIOUS
    <3> HIDE DEF N
    <3> DEFINE B == {n \in 0 .. N : g[n] = f[n]}
    <3>4. 0 \in B
      <4>1. g[0] = f[0]
        BY <2>2, <3>2, Zenon
      <4>2. 0 \in 0 .. N
        BY <2>1
      <4> QED BY <4>1, <4>2
    <3>5. ASSUME NEW n \in 1 .. N, n - 1 \in B PROVE n \in B
      <4>1. n \in 0 .. N /\ n \in 1 .. N + 1
        BY <2>1
      <4>2. g[n - 1] = f[n - 1]
        BY <3>5
      <4>3. g[n] = g[n - 1] + (WidthOf(more[n]) + 1) /\ more[n] = text[n]
        BY <3>1, <3>2, <4>1
      <4>4. f[n] = f[n - 1] + (WidthOf(text[n]) + 1)
        BY <2>2, <3>3
      <4> QED BY <4>1, <4>2, <4>3, <4>4
    <3> HIDE DEF B
    <3>6. \A n \in 0 .. N : n \in B
      BY <2>1, <3>4, <3>5, Upwards
    <3>7. g[N] = f[N]
      BY <2>1, <3>6 DEF B
    <3> DEFINE k == N + 1
    <3>8. k \in 1 .. N + 1 /\ k - 1 = N /\ k = N + 1
      BY <2>1
    <3> HIDE DEF k
    <3>9. g[k] = g[N] + (WidthOf(more[k]) + 1)
      BY <3>1, <3>2, <3>8
    <3>10. Spans(more) = g[k] /\ Spans(text) = f[N] /\ more[k] = x
      BY <2>2, <3>1, <3>2, <3>3, <3>8
    <3>11. Spans(more) = Spans(text) + (WidthOf(x) + 1)
      BY <3>7, <3>9, <3>10
    <3> QED BY <3>11 DEF more
  <2> QED BY <2>3, <2>4
<1> QED BY <1>1, <1>2

LEMMA LinesIs ==
  ASSUME NEW text \in Seq(Characters)
  PROVE  \E f \in [0 .. Len(text) -> Seq(Texts)] :
            /\ f[0] = <<(<<>>)>>
            /\ \A n \in 1 .. Len(text) : f[n] = WithChar(f[n - 1], text[n])
            /\ SplitLines(text) = f[Len(text)]
<1> DEFINE N == Len(text)
           A == Seq(Texts)
           move == [n \in 1 .. N |-> [a \in A |-> WithChar(a, text[n])]]
           first == <<(<<>>)>>
           h == CHOOSE f : f = [n \in 0 .. N |-> IF n = 0 THEN <<(<<>>)>> ELSE WithChar(f[n - 1], text[n])]
<1>1. N \in Nat /\ \A n \in 1 .. N : text[n] \in Characters
  OBVIOUS
<1>2. SplitLines(text) = h[N]
  BY DEF SplitLines
<1>3. first \in A
  BY DEF first, A, Texts
<1> HIDE DEF N
<1>4. ASSUME NEW n \in 1 .. N, NEW a \in A PROVE WithChar(a, text[n]) \in A
  BY <1>1, LinesStay
<1> HIDE DEF A, first
<1>5. move \in [1 .. N -> [A -> A]]
  BY <1>4
<1>6. PICK g \in [0 .. N -> A] : Builds(g, N, first, move)
  <2> HIDE DEF move
  <2> QED BY <1>1, <1>3, <1>5, Recursion
<1>7. g[0] = first /\ \A n \in 1 .. N : g[n] = move[n][g[n - 1]]
  BY <1>6 DEF Builds
<1>8. ASSUME NEW n \in 1 .. N PROVE g[n] = WithChar(g[n - 1], text[n])
  <2>1. n - 1 \in 0 .. N
    BY <1>1
  <2>2. g[n - 1] \in A
    BY <2>1
  <2> QED BY <1>7, <2>2
<1> HIDE DEF move
<1>9. g = [n \in 0 .. N |-> IF n = 0 THEN <<(<<>>)>> ELSE WithChar(g[n - 1], text[n])]
  <2>1. ASSUME NEW n \in 0 .. N
        PROVE  g[n] = IF n = 0 THEN <<(<<>>)>> ELSE WithChar(g[n - 1], text[n])
    <3>1. CASE n = 0
      BY <1>7, <3>1 DEF first
    <3>2. CASE n # 0
      <4>1. n \in 1 .. N
        BY <1>1, <3>2
      <4> QED BY <1>8, <3>2, <4>1
    <3> QED BY <3>1, <3>2
  <2>2. g = [n \in 0 .. N |-> g[n]]
    OBVIOUS
  <2> QED BY <2>1, <2>2
<1>10. h = [n \in 0 .. N |-> IF n = 0 THEN <<(<<>>)>> ELSE WithChar(h[n - 1], text[n])]
  BY <1>9
<1> HIDE DEF h
<1>11. h[0] = first /\ \A n \in 1 .. N : h[n] = WithChar(h[n - 1], text[n])
  <2>1. 0 \in 0 .. N
    BY <1>1
  <2>2. h[0] = first
    BY <1>10, <2>1 DEF first
  <2>3. ASSUME NEW n \in 1 .. N PROVE h[n] = WithChar(h[n - 1], text[n])
    <3>1. n \in 0 .. N /\ n # 0
      BY <1>1
    <3> QED BY <1>10, <3>1
  <2> QED BY <2>2, <2>3
<1>12. h \in [0 .. N -> A]
  <2>1. ASSUME NEW n \in 1 .. N, h[n - 1] \in A PROVE h[n] \in A
    <3>1. WithChar(h[n - 1], text[n]) \in A
      BY <1>4, <2>1
    <3> QED BY <1>11, <3>1
  <2>2. h[0] \in A
    BY <1>3, <1>11
  <2>3. \A n \in 0 .. N : h[n] \in A
    BY <1>1, <2>1, <2>2, StaysIn
  <2>4. h = [n \in 0 .. N |-> h[n]]
    BY <1>10
  <2> QED BY <2>3, <2>4
<1> QED BY <1>2, <1>11, <1>12 DEF N, A, first

LEMMA LinesGrow ==
  /\ SplitLines(<<>>) = <<(<<>>)>>
  /\ \A text \in Seq(Characters) :
        /\ SplitLines(text) \in Seq(Texts)
        /\ \A x \in Characters : SplitLines(Append(text, x)) = WithChar(SplitLines(text), x)
<1>1. SplitLines(<<>>) = <<(<<>>)>>
  <2>1. <<>> \in Seq(Characters) /\ Len(<<>>) = 0
    OBVIOUS
  <2>2. \E f \in [0 .. Len(<<>>) -> Seq(Texts)] : f[0] = <<(<<>>)>> /\ SplitLines(<<>>) = f[Len(<<>>)]
    BY <2>1, LinesIs
  <2> QED BY <2>1, <2>2
<1>2. ASSUME NEW text \in Seq(Characters)
      PROVE  /\ SplitLines(text) \in Seq(Texts)
             /\ \A x \in Characters : SplitLines(Append(text, x)) = WithChar(SplitLines(text), x)
  <2> DEFINE N == Len(text)
  <2>1. N \in Nat /\ N \in 0 .. N
    OBVIOUS
  <2>2. PICK f \in [0 .. Len(text) -> Seq(Texts)] :
            /\ f[0] = <<(<<>>)>>
            /\ \A n \in 1 .. Len(text) : f[n] = WithChar(f[n - 1], text[n])
            /\ SplitLines(text) = f[Len(text)]
    BY LinesIs
  <2>3. SplitLines(text) \in Seq(Texts)
    BY <2>1, <2>2
  <2>4. ASSUME NEW x \in Characters PROVE SplitLines(Append(text, x)) = WithChar(SplitLines(text), x)
    <3> DEFINE more == Append(text, x)
    <3>1. /\ more \in Seq(Characters) /\ Len(more) = N + 1 /\ more[N + 1] = x
          /\ \A i \in 1 .. N : more[i] = text[i]
      OBVIOUS
    <3> HIDE DEF more
    <3>2. PICK g \in [0 .. Len(more) -> Seq(Texts)] :
            /\ g[0] = <<(<<>>)>>
            /\ \A n \in 1 .. Len(more) : g[n] = WithChar(g[n - 1], more[n])
            /\ SplitLines(more) = g[Len(more)]
      BY <3>1, LinesIs
    <3>3. Len(text) = N
      OBVIOUS
    <3> HIDE DEF N
    <3> DEFINE B == {n \in 0 .. N : g[n] = f[n]}
    <3>4. 0 \in B
      <4>1. g[0] = f[0]
        BY <2>2, <3>2, Zenon
      <4>2. 0 \in 0 .. N
        BY <2>1
      <4> QED BY <4>1, <4>2
    <3>5. ASSUME NEW n \in 1 .. N, n - 1 \in B PROVE n \in B
      <4>1. n \in 0 .. N /\ n \in 1 .. N + 1
        BY <2>1
      <4>2. g[n - 1] = f[n - 1]
        BY <3>5
      <4>3. g[n] = WithChar(g[n - 1], more[n]) /\ more[n] = text[n]
        BY <3>1, <3>2, <4>1
      <4>4. f[n] = WithChar(f[n - 1], text[n])
        BY <2>2, <3>3
      <4> QED BY <4>1, <4>2, <4>3, <4>4
    <3> HIDE DEF B
    <3>6. \A n \in 0 .. N : n \in B
      BY <2>1, <3>4, <3>5, Upwards
    <3>7. g[N] = f[N]
      BY <2>1, <3>6 DEF B
    <3> DEFINE k == N + 1
    <3>8. k \in 1 .. N + 1 /\ k - 1 = N /\ k = N + 1
      BY <2>1
    <3> HIDE DEF k
    <3>9. g[k] = WithChar(g[N], more[k])
      BY <3>1, <3>2, <3>8
    <3>10. SplitLines(more) = g[k] /\ SplitLines(text) = f[N] /\ more[k] = x
      BY <2>2, <3>1, <3>2, <3>3, <3>8
    <3>11. SplitLines(more) = WithChar(SplitLines(text), x)
      BY <3>7, <3>9, <3>10
    <3> QED BY <3>11 DEF more
  <2> QED BY <2>3, <2>4
<1> QED BY <1>1, <1>2

(* A character goes to the last line, or begins the next one. *)
LEMMA CharAdded ==
  ASSUME NEW front \in Seq(Texts), NEW last \in Texts, NEW x \in Characters
  PROVE  WithChar(Append(front, last), x) =
           IF x = LineFeed THEN Append(Append(front, last), <<>>)
           ELSE Append(front, Append(last, x))
<1> DEFINE lines == Append(front, last)
           n == Len(front)
           k == n + 1
           new == Append(last, x)
           more == Append(front, new)
<1>1. /\ lines \in Seq(Texts) /\ Len(lines) = k /\ lines[k] = last /\ n \in Nat
      /\ \A j \in 1 .. n : lines[j] = front[j]
  BY LastIsAppended
<1>2. CASE x = LineFeed
  BY <1>2 DEF WithChar
<1>3. CASE x # LineFeed
  <2>1. new \in Texts
    BY DEF Texts
  <2>2. WithChar(lines, x) = [lines EXCEPT ![Len(lines)] = Append(lines[Len(lines)], x)]
    BY <1>3 DEF WithChar
  <2>3. WithChar(lines, x) = [lines EXCEPT ![k] = new]
    BY <1>1, <2>2
  <2> DEFINE same == [lines EXCEPT ![k] = new]
  <2>4. k \in 1 .. Len(lines)
    BY <1>1
  <2> HIDE DEF lines, new
  <2>5. /\ same \in Seq(Texts) /\ Len(same) = Len(lines) /\ same[k] = new
        /\ \A j \in 1 .. Len(lines) : j # k => same[j] = lines[j]
    BY <1>1, <2>1, <2>4, ItemStored
  <2>6. /\ more \in Seq(Texts) /\ Len(more) = k /\ more[k] = new
        /\ \A j \in 1 .. n : more[j] = front[j]
    BY <2>1, LastIsAppended
  <2> HIDE DEF same, more
  <2>7. ASSUME NEW j \in 1 .. Len(same) PROVE same[j] = more[j]
    <3>1. j = k \/ j \in 1 .. n
      BY <1>1, <2>5
    <3>2. CASE j = k
      BY <2>5, <2>6, <3>2
    <3>3. CASE j \in 1 .. n /\ j # k
      BY <1>1, <2>5, <2>6, <3>3
    <3> QED BY <3>1, <3>2, <3>3
  <2>8. same = more
    BY <1>1, <2>5, <2>6, <2>7, SameSeq
  <2> QED BY <1>3, <2>3, <2>8 DEF same, more, lines, new
<1> QED BY <1>2, <1>3

(* The last line of a text, after the others; with a column for each line  *)
(* feed they are as wide as the text.                                      *)
EndsWith(text, front, last) ==
  /\ SplitLines(text) = Append(front, last)
  /\ WidthOf(text) = Spans(front) + WidthOf(last)

LEMMA LastLineExists ==
  ASSUME NEW text \in Texts
  PROVE  \E front \in Seq(Texts) : \E last \in Texts : EndsWith(text, front, last)
<1> DEFINE A == {t \in Texts : \E front \in Seq(Texts) : \E last \in Texts : EndsWith(t, front, last)}
           none == <<>>
<1>1. none \in Texts /\ none \in Seq(Texts)
  BY DEF Texts
<1>2. none \in A
  <2>1. SplitLines(none) = Append(none, none)
    <3>1. SplitLines(<<>>) = <<(<<>>)>>
      BY LinesGrow
    <3>2. Append(<<>>, <<>>) = <<(<<>>)>>
      OBVIOUS
    <3> QED BY <3>1, <3>2
  <2>2. WidthOf(none) = 0 /\ Spans(none) = 0
    BY WidthGrows, SpansGrow
  <2>3. EndsWith(none, none, none)
    BY <2>1, <2>2 DEF EndsWith
  <2> HIDE DEF none
  <2> QED BY <1>1, <2>3
<1>3. ASSUME NEW t \in Texts, NEW x \in Characters, t \in A PROVE Append(t, x) \in A
  <2> DEFINE more == Append(t, x)
  <2>1. PICK front \in Seq(Texts), last \in Texts : EndsWith(t, front, last)
    BY <1>3
  <2>2. more \in Texts
    BY DEF Texts
  <2>3. SplitLines(more) = WithChar(Append(front, last), x)
    <3>1. t \in Seq(Characters)
      BY DEF Texts
    <3>2. SplitLines(more) = WithChar(SplitLines(t), x)
      BY <3>1, LinesGrow
    <3> QED BY <2>1, <3>2 DEF EndsWith
  <2>4. WidthOf(more) = (Spans(front) + WidthOf(last)) + Width(x)
    <3>1. t \in Seq(Printable) /\ x \in Printable
      BY TextsArePrintable
    <3>2. WidthOf(more) = WidthOf(t) + Width(x)
      BY <3>1, WidthGrows
    <3> QED BY <2>1, <3>2 DEF EndsWith
  <2>5. Spans(front) \in Nat /\ WidthOf(last) \in Nat /\ Width(x) \in Nat
    <3>1. x \in Printable
      BY TextsArePrintable
    <3> QED BY <3>1, SpansGrow, TextWidth DEF Printable
  <2>6. CASE x = LineFeed
    <3> DEFINE f == Append(front, last)
    <3>1. f \in Seq(Texts)
      BY LastIsAppended
    <3>2. SplitLines(more) = Append(f, none)
      BY <2>3, <2>6, CharAdded
    <3>3. Spans(f) = Spans(front) + (WidthOf(last) + 1)
      BY SpansGrow
    <3>4. WidthOf(none) = 0 /\ Width(x) = 1
      BY <2>6, WidthGrows, WidthAssumption
    <3>5. Spans(f) \in Nat
      BY <3>1, SpansGrow
    <3> HIDE DEF f, more, none
    <3>6. WidthOf(more) = Spans(f) + WidthOf(none)
      BY <2>4, <2>5, <3>3, <3>4, <3>5
    <3>7. EndsWith(more, f, none)
      BY <3>2, <3>6 DEF EndsWith
    <3>8. \E g \in Seq(Texts) : \E l \in Texts : EndsWith(more, g, l)
      <4>1. none \in Texts
        BY <1>1
      <4> QED BY <3>1, <3>7, <4>1
    <3> QED BY <2>2, <3>8 DEF more
  <2>7. CASE x # LineFeed
    <3> DEFINE l == Append(last, x)
    <3>1. l \in Texts
      BY DEF Texts
    <3>2. SplitLines(more) = Append(front, l)
      BY <2>3, <2>7, CharAdded
    <3>3. WidthOf(l) = WidthOf(last) + Width(x)
      <4>1. last \in Seq(Printable) /\ x \in Printable
        BY TextsArePrintable
      <4> QED BY <4>1, WidthGrows
    <3> HIDE DEF l, more
    <3>4. WidthOf(more) = Spans(front) + WidthOf(l)
      BY <2>4, <2>5, <3>3
    <3>5. EndsWith(more, front, l)
      BY <3>2, <3>4 DEF EndsWith
    <3>6. \E g \in Seq(Texts) : \E k \in Texts : EndsWith(more, g, k)
      BY <3>1, <3>5
    <3> QED BY <2>2, <3>6 DEF more
  <2> QED BY <2>6, <2>7
<1> HIDE DEF A
<1>4. \A t \in Seq(Characters) : t \in A
  <2>1. \A t \in Seq(Characters) : \A x \in Characters : t \in A => Append(t, x) \in A
    BY <1>3 DEF Texts
  <2>2. <<>> \in A
    BY <1>2
  <2> QED BY <2>1, <2>2, SequencesGrow
<1> QED BY <1>4 DEF A, Texts

(* Lines go on from those of a beginning of the text: the same but for the *)
(* last one, which may have become longer.                                 *)
GoesOn(lines, front, last) ==
  /\ lines \in Seq(Texts)
  /\ Len(front) < Len(lines)
  /\ \A i \in 1 .. Len(front) : lines[i] = front[i]
  /\ WidthOf(last) <= WidthOf(lines[Len(front) + 1])

LEMMA LinesGoOn ==
  ASSUME NEW a \in Texts, NEW front \in Seq(Texts), NEW last \in Texts,
         SplitLines(a) = Append(front, last), NEW b \in Texts
  PROVE  GoesOn(SplitLines(a \o b), front, last)
<1> DEFINE A == {t \in Texts : GoesOn(SplitLines(a \o t), front, last)}
           n == Len(front)
           k == n + 1
<1>0. n \in Nat /\ k \in 1 .. k
  OBVIOUS
<1>1. <<>> \in A
  <2> DEFINE lines == Append(front, last)
  <2>1. a \o <<>> = a
    BY DEF Texts
  <2>2. /\ lines \in Seq(Texts) /\ Len(lines) = k /\ lines[k] = last
        /\ \A j \in 1 .. n : lines[j] = front[j]
    BY LastIsAppended
  <2>3. WidthOf(last) \in Nat
    BY TextWidth
  <2> HIDE DEF lines
  <2>4. GoesOn(lines, front, last)
    <3>1. WidthOf(last) <= WidthOf(lines[k])
      BY <2>2, <2>3
    <3>2. Len(front) < Len(lines)
      BY <1>0, <2>2
    <3> QED BY <2>2, <3>1, <3>2 DEF GoesOn
  <2>5. GoesOn(SplitLines(a \o <<>>), front, last)
    BY <2>1, <2>4 DEF lines
  <2> QED BY <2>5 DEF Texts
<1>2. ASSUME NEW t \in Texts, NEW x \in Characters, t \in A PROVE Append(t, x) \in A
  <2> DEFINE u == a \o t
             more == Append(t, x)
  <2>1. u \in Texts /\ more \in Texts /\ a \o more = Append(u, x)
    <3>1. a \in Seq(Characters) /\ t \in Seq(Characters)
      BY DEF Texts
    <3>2. a \o more = Append(u, x)
      BY <3>1, AppendedTo
    <3>3. u \in Seq(Characters) /\ more \in Seq(Characters)
      BY <3>1
    <3> QED BY <3>2, <3>3 DEF Texts
  <2> HIDE DEF u, more
  <2>2. PICK f \in Seq(Texts), l \in Texts : EndsWith(u, f, l)
    BY <2>1, LastLineExists
  <2> DEFINE lines == Append(f, l)
             new == WithChar(lines, x)
             m == Len(f)
             o == m + 1
  <2>3. SplitLines(a \o more) = new
    <3>1. SplitLines(u) = lines
      BY <2>2 DEF EndsWith
    <3>2. u \in Seq(Characters)
      BY <2>1 DEF Texts
    <3>3. SplitLines(Append(u, x)) = WithChar(SplitLines(u), x)
      BY <3>2, LinesGrow
    <3> QED BY <2>1, <3>1, <3>3
  <2>4. /\ lines \in Seq(Texts) /\ Len(lines) = o /\ lines[o] = l /\ m \in Nat
        /\ \A j \in 1 .. m : lines[j] = f[j]
    BY LastIsAppended
  <2>5. GoesOn(lines, front, last)
    BY <1>2, <2>2 DEF u, EndsWith
  <2>6. new \in Seq(Texts) /\ Len(lines) <= Len(new) /\ (\A j \in 1 .. m : new[j] = lines[j])
        /\ WidthOf(lines[o]) <= WidthOf(new[o])
    <3>1. CASE x = LineFeed
      <4>1. new = Append(lines, <<>>)
        BY <3>1, CharAdded
      <4>2. <<>> \in Texts
        BY DEF Texts
      <4> HIDE DEF new
      <4>3. /\ new \in Seq(Texts) /\ Len(new) = Len(lines) + 1
            /\ \A j \in 1 .. Len(lines) : new[j] = lines[j]
        BY <2>4, <4>1, <4>2, LastIsAppended
      <4>4. o \in 1 .. Len(lines)
        BY <2>4
      <4>5. WidthOf(lines[o]) <= WidthOf(new[o])
        <5>1. new[o] = lines[o]
          BY <4>3, <4>4
        <5>2. WidthOf(lines[o]) \in Nat
          BY <2>4, TextWidth
        <5> QED BY <5>1, <5>2
      <4>6. \A j \in 1 .. m : new[j] = lines[j]
        BY <2>4, <4>3
      <4>7. Len(lines) <= Len(new)
        BY <2>4, <4>3
      <4> QED BY <4>3, <4>5, <4>6, <4>7
    <3>2. CASE x # LineFeed
      <4> DEFINE y == Append(l, x)
      <4>1. new = Append(f, y)
        BY <3>2, CharAdded
      <4>2. y \in Texts
        BY DEF Texts
      <4>3. WidthOf(y) = WidthOf(l) + Width(x) /\ WidthOf(l) \in Nat /\ Width(x) \in Nat
        <5>1. l \in Seq(Printable) /\ x \in Printable
          BY TextsArePrintable
        <5> QED BY <5>1, WidthGrows DEF Printable
      <4> HIDE DEF new, y
      <4>4. /\ new \in Seq(Texts) /\ Len(new) = o /\ new[o] = y
            /\ \A j \in 1 .. m : new[j] = f[j]
        BY <4>1, <4>2, LastIsAppended
      <4>5. WidthOf(lines[o]) <= WidthOf(new[o])
        BY <2>4, <4>3, <4>4
      <4>6. Len(lines) <= Len(new)
        BY <2>4, <4>4
      <4>7. \A j \in 1 .. m : new[j] = lines[j]
        BY <2>4, <4>4
      <4> QED BY <4>4, <4>5, <4>6, <4>7
    <3> QED BY <3>1, <3>2
  <2> HIDE DEF new, lines
  <2>7. GoesOn(new, front, last)
    <3>1. n < Len(lines) /\ n <= m /\ k <= o /\ k \in Nat
      BY <1>0, <2>4, <2>5 DEF GoesOn
    <3>2. Len(front) < Len(new)
      <4>1. Len(new) \in Nat
        BY <2>6
      <4> QED BY <1>0, <2>4, <2>6, <3>1, <4>1
    <3>3. ASSUME NEW i \in 1 .. n PROVE new[i] = front[i]
      <4>1. i \in 1 .. m
        BY <1>0, <2>4, <3>1
      <4>2. lines[i] = front[i]
        BY <2>5 DEF GoesOn
      <4> QED BY <2>6, <4>1, <4>2
    <3>4. WidthOf(last) <= WidthOf(lines[k])
      BY <2>5 DEF GoesOn
    <3>5. WidthOf(lines[k]) <= WidthOf(new[k])
      <4>1. CASE k = o
        BY <2>6, <4>1
      <4>2. CASE k # o
        <5>1. k \in 1 .. m
          BY <1>0, <2>4, <3>1, <4>2
        <5>2. new[k] = lines[k] /\ lines[k] \in Texts
          BY <2>4, <2>6, <5>1
        <5> QED BY <5>2, TextWidth
      <4> QED BY <4>1, <4>2
    <3>6. WidthOf(last) <= WidthOf(new[k])
      <4>1. k \in 1 .. Len(lines) /\ k \in 1 .. Len(new)
        <5>1. Len(new) \in Nat
          BY <2>6
        <5> QED BY <1>0, <2>4, <2>6, <3>1, <5>1
      <4>2. lines[k] \in Texts /\ new[k] \in Texts
        BY <2>4, <2>6, <4>1
      <4>3. WidthOf(last) \in Nat /\ WidthOf(lines[k]) \in Nat /\ WidthOf(new[k]) \in Nat
        BY <4>2, TextWidth
      <4> QED BY <3>4, <3>5, <4>3
    <3> QED BY <2>6, <3>2, <3>3, <3>6 DEF GoesOn
  <2>8. GoesOn(SplitLines(a \o more), front, last)
    BY <2>3, <2>7
  <2> QED BY <2>1, <2>8 DEF more
<1> HIDE DEF A
<1>3. \A t \in Seq(Characters) : t \in A
  <2>1. \A t \in Seq(Characters) : \A x \in Characters : t \in A => Append(t, x) \in A
    BY <1>2 DEF Texts
  <2> QED BY <1>1, <2>1, SequencesGrow
<1>4. b \in A
  BY <1>3 DEF Texts
<1> QED BY <1>4 DEF A

-----------------------------------------------------------------------------
(* The screen.                                                             *)

LEMMA NothingLeft ==
  ASSUME NEW s \in Seq(Int), NEW m \in Nat, NEW n \in Nat, m >= 1, n <= Len(s), m > n
  PROVE  SubSeq(s, m, n) = <<>>
<1>1. SubSeq(s, m, n) \in Seq(Int) /\ Len(SubSeq(s, m, n)) = 0
  BY PartIs
<1> QED BY <1>1, EmptySeq

LEMMA AllLeft ==
  ASSUME NEW s \in Seq(Int)
  PROVE  SubSeq(s, 1, Len(s)) = s
<1> DEFINE n == Len(s)
           t == SubSeq(s, 1, n)
<1>1. n \in Nat /\ 1 \in Nat /\ n <= Len(s)
  OBVIOUS
<1>2. /\ t \in Seq(Int) /\ Len(t) = IF 1 <= n THEN (n - 1) + 1 ELSE 0
      /\ \A i \in 1 .. (n - 1) + 1 : t[i] = s[(1 + i) - 1]
  BY <1>1, PartIs
<1>3. Len(t) = n
  BY <1>1, <1>2
<1>4. ASSUME NEW i \in 1 .. n PROVE t[i] = s[i]
  <2>1. i \in 1 .. (n - 1) + 1 /\ (1 + i) - 1 = i
    BY <1>1
  <2> QED BY <1>2, <2>1
<1> HIDE DEF t
<1> QED BY <1>2, <1>3, <1>4, SameSeq DEF t

LEMMA NothingAdded ==
  ASSUME NEW s \in Seq(Int)
  PROVE  s \o <<>> = s /\ <<>> \o s = s
OBVIOUS

(* A row is filled up to a column with blanks. *)
LEMMA PaddingIs ==
  ASSUME NEW row \in Seq(Int), NEW n \in Nat
  PROVE  /\ Padding(row, n) \in Seq(Int)
         /\ Len(row) <= n => Len(Padding(row, n)) = n
         /\ Len(row) >= n => Padding(row, n) = row
<1> DEFINE m == Len(row)
           k == IF m < n THEN n - m ELSE 0
           blanks == [i \in 1 .. k |-> BlankCell]
<1>1. m \in Nat /\ k \in Nat
  OBVIOUS
<1>2. blanks \in Seq(Int) /\ Len(blanks) = k
  BY <1>1 DEF BlankCell
<1>3. Padding(row, n) = row \o blanks
  BY DEF Padding
<1>4. m >= n => blanks = <<>>
  <2> SUFFICES ASSUME m >= n PROVE blanks = <<>>
    OBVIOUS
  <2>1. k = 0
    BY <1>1
  <2> HIDE DEF k, blanks
  <2> QED BY <1>2, <2>1, EmptySeq
<1> HIDE DEF blanks
<1>5. row \o blanks \in Seq(Int) /\ Len(row \o blanks) = Len(row) + Len(blanks)
  BY ONLY <1>2, ConcatIs, row \in Seq(Int)
<1>6. m >= n => row \o blanks = row
  BY <1>4, NothingAdded
<1>7. m <= n => m + k = n
  BY <1>1
<1> HIDE DEF k, m
<1>8. Len(row \o blanks) = m + k
  BY <1>2, <1>5 DEF m
<1> QED BY <1>3, <1>5, <1>6, <1>7, <1>8 DEF m

(* Writing behind what a row holds, and at its begin. *)
LEMMA PutAtEnd ==
  ASSUME NEW rows \in Seq(Seq(Int)), NEW r \in 1 .. Len(rows), NEW c \in Nat,
         Len(rows[r]) <= c, NEW text \in Seq(Printable)
  PROVE  Put(Screen(rows, r, c), text) =
           Screen([rows EXCEPT ![r] = Padding(rows[r], c) \o Cells(text)],
                  r, c + WidthOf(text))
<1> DEFINE cells == Cells(text)
           old == rows[r]
           row == Padding(old, c)
           end == c + Len(cells)
           s == Screen(rows, r, c)
<1>1. old \in Seq(Int)
  OBVIOUS
<1>2. cells \in Seq(Int) /\ Len(cells) = WidthOf(text) /\ WidthOf(text) \in Nat
  BY CellsAreWide
<1> HIDE DEF old, cells
<1>3. row \in Seq(Int) /\ Len(row) = c
  BY <1>1, PaddingIs DEF old
<1>4. s.rows = rows /\ s.r = r /\ s.c = c
  BY DEF Screen
<1>5. Put(s, text) = Screen([rows EXCEPT ![r] = SubSeq(row, 1, c) \o cells
                                       \o SubSeq(row, end + 1, Len(row))], r, end)
  <2> HIDE DEF s
  <2> QED BY <1>4 DEF Put, old, cells
<1> HIDE DEF row
<1>6. SubSeq(row, 1, c) = row
  BY <1>3, AllLeft
<1>7. SubSeq(row, end + 1, Len(row)) = <<>>
  <2>1. end + 1 \in Nat /\ end + 1 >= 1 /\ end + 1 > c
    BY <1>2
  <2> HIDE DEF end
  <2> QED BY <1>3, <2>1, NothingLeft
<1>8. SubSeq(row, 1, c) \o cells \o SubSeq(row, end + 1, Len(row)) = row \o cells
  <2>1. row \o cells \in Seq(Int)
    BY ONLY <1>2, <1>3, ConcatIs
  <2>2. (row \o cells) \o <<>> = row \o cells
    BY <2>1, NothingAdded
  <2> QED BY <1>6, <1>7, <2>2
<1>9. end = c + WidthOf(text)
  BY <1>2
<1> HIDE DEF s, end
<1> QED BY <1>5, <1>8, <1>9 DEF s, row, old, cells

LEMMA PutAtBegin ==
  ASSUME NEW rows \in Seq(Seq(Int)), NEW r \in 1 .. Len(rows), NEW text \in Seq(Printable)
  PROVE  LET cells == Cells(text)
             width == WidthOf(text)
         IN \E rest \in Seq(Int) :
              /\ Put(Screen(rows, r, 0), text) =
                   Screen([rows EXCEPT ![r] = cells \o rest], r, width)
              /\ Len(rows[r]) <= width => rest = <<>>
<1> DEFINE cells == Cells(text)
           row == rows[r]
           end == 0 + Len(cells)
           s == Screen(rows, r, 0)
           rest == SubSeq(row, end + 1, Len(row))
<1>1. row \in Seq(Int) /\ Len(row) \in Nat
  OBVIOUS
<1>2. cells \in Seq(Int) /\ Len(cells) = WidthOf(text) /\ WidthOf(text) \in Nat
  BY CellsAreWide
<1> HIDE DEF row, cells
<1>3. Padding(row, 0) = row
  BY <1>1, PaddingIs
<1>4. s.rows = rows /\ s.r = r /\ s.c = 0
  BY DEF Screen
<1>5. Put(s, text) = Screen([rows EXCEPT ![r] = SubSeq(row, 1, 0) \o cells
                                       \o SubSeq(row, end + 1, Len(row))], r, end)
  <2> HIDE DEF s
  <2> QED BY <1>3, <1>4 DEF Put, row, cells
<1>6. end = WidthOf(text) /\ end \in Nat /\ end + 1 \in Nat /\ end + 1 >= 1
  BY <1>2
<1>7. SubSeq(row, 1, 0) = <<>>
  BY <1>1, NothingLeft
<1>8. <<>> \o cells = cells
  BY <1>2, NothingAdded
<1> HIDE DEF end, s
<1>9. rest \in Seq(Int)
  BY <1>1, <1>6, PartIs
<1>10. ASSUME Len(row) <= WidthOf(text) PROVE rest = <<>>
  <2>1. end + 1 > Len(row)
    BY <1>1, <1>2, <1>6, <1>10
  <2> QED BY <1>1, <1>6, <2>1, NothingLeft
<1> HIDE DEF rest
<1>11. SubSeq(row, 1, 0) \o cells \o rest = cells \o rest
  BY <1>7, <1>8
<1>12. Put(s, text) = Screen([rows EXCEPT ![r] = cells \o rest], r, WidthOf(text))
  BY <1>5, <1>6, <1>11 DEF rest
<1> QED BY <1>9, <1>10, <1>12 DEF s, row, cells

(* What is drawn of the first n lines below the row above the prompt. *)
Page(lines, n) ==
  [i \in 1 .. n + 1 |->
     IF i = 1 THEN Above
     ELSE IF i = 2 THEN Cells(Prompt) \o Cells(lines[1])
     ELSE Padding(<<>>, PromptLen) \o Cells(lines[i - 1])]

LEMMA PromptIsWide ==
  /\ Cells(Prompt) \in Seq(Int) /\ Len(Cells(Prompt)) = PromptLen
  /\ PromptLen \in Nat /\ Above \in Seq(Int)
<1>1. Prompt \in Seq(Printable)
  BY TextsArePrintable
<1>2. Above \in Seq(Int)
  BY DEF Above
<1> QED BY <1>1, <1>2, CellsAreWide DEF PromptLen

LEMMA TextCells ==
  ASSUME NEW text \in Texts
  PROVE  /\ text \in Seq(Printable) /\ Cells(text) \in Seq(Int)
         /\ Len(Cells(text)) = WidthOf(text) /\ WidthOf(text) \in Nat
  BY TextsArePrintable, CellsAreWide

LEMMA PageRows ==
  ASSUME NEW lines \in Seq(Texts), NEW n \in 1 .. Len(lines)
  PROVE  /\ Page(lines, n) \in Seq(Seq(Int)) /\ Len(Page(lines, n)) = n + 1
         /\ Page(lines, n)[1] = Above
         /\ Page(lines, n)[2] = Cells(Prompt) \o Cells(lines[1])
         /\ \A i \in 2 .. n : Page(lines, n)[i + 1] = Padding(<<>>, PromptLen) \o Cells(lines[i])
         /\ \A i \in 1 .. n + 1 : Page(lines, n)[i] \in Seq(Int)
<1> DEFINE p == Page(lines, n)
           k == n + 1
           second == Cells(Prompt) \o Cells(lines[1])
<1>1. n \in Nat /\ k \in Nat /\ n >= 1
  OBVIOUS
<1>2. ASSUME NEW i \in 1 .. n PROVE Cells(lines[i]) \in Seq(Int)
  <2>1. lines[i] \in Texts
    OBVIOUS
  <2> QED BY <2>1, TextCells
<1>3. Padding(<<>>, PromptLen) \in Seq(Int)
  <2>1. <<>> \in Seq(Int)
    OBVIOUS
  <2> QED BY <2>1, PromptIsWide, PaddingIs
<1>4. \A i \in 1 .. k : p[i] = IF i = 1 THEN Above
                               ELSE IF i = 2 THEN second
                               ELSE Padding(<<>>, PromptLen) \o Cells(lines[i - 1])
  BY DEF Page
<1> HIDE DEF second
<1>5. ASSUME NEW i \in 1 .. k PROVE p[i] \in Seq(Int)
  <2>1. CASE i = 1
    BY <1>4, <2>1, PromptIsWide
  <2>2. CASE i = 2
    <3>1. p[i] = second
      <4>1. i # 1
        BY <2>2
      <4> QED BY <1>4, <2>2, <4>1
    <3>2. Cells(lines[1]) \in Seq(Int) /\ Cells(Prompt) \in Seq(Int)
      BY <1>1, <1>2, PromptIsWide
    <3>3. Cells(Prompt) \o Cells(lines[1]) \in Seq(Int)
      BY ONLY <3>2, ConcatIs
    <3> QED BY <3>1, <3>3 DEF second
  <2>3. CASE i # 1 /\ i # 2
    <3> DEFINE m == i - 1
    <3>1. m \in 1 .. n
      BY <1>1, <2>3
    <3>2. p[i] = Padding(<<>>, PromptLen) \o Cells(lines[m])
      BY <1>4, <2>3
    <3> HIDE DEF m
    <3>3. Cells(lines[m]) \in Seq(Int)
      BY <1>2, <3>1
    <3>4. Padding(<<>>, PromptLen) \o Cells(lines[m]) \in Seq(Int)
      BY ONLY <1>3, <3>3, ConcatIs
    <3> QED BY <3>2, <3>4
  <2> QED BY <2>1, <2>2, <2>3
<1>6. p = [i \in 1 .. k |-> p[i]]
  BY DEF Page
<1>7. 1 \in 1 .. k /\ 2 \in 1 .. k
  BY <1>1
<1>8. ASSUME NEW i \in 2 .. n PROVE p[i + 1] = Padding(<<>>, PromptLen) \o Cells(lines[i])
  <2> DEFINE j == i + 1
  <2>1. j \in 1 .. k /\ j # 1 /\ j # 2 /\ j - 1 = i
    BY <1>1
  <2> HIDE DEF j
  <2>2. p[j] = Padding(<<>>, PromptLen) \o Cells(lines[i])
    BY <1>4, <2>1
  <2> QED BY <2>2 DEF j
<1> HIDE DEF p
<1>9. p \in Seq(Seq(Int)) /\ Len(p) = k
  <2> HIDE DEF k
  <2> DEFINE R == Seq(Int)
  <2>1. \A i \in 1 .. k : p[i] \in R
    BY <1>5
  <2> HIDE DEF R
  <2>2. p \in Seq(R) /\ Len(p) = k
    BY <1>1, <1>6, <2>1
  <2> QED BY <2>2 DEF R
<1>10. p[1] = Above /\ p[2] = second
  <2>1. p[2] = IF 2 = 1 THEN Above ELSE IF 2 = 2 THEN second
               ELSE Padding(<<>>, PromptLen) \o Cells(lines[2 - 1])
    BY <1>4, <1>7
  <2>2. p[1] = Above
    BY <1>4, <1>7
  <2> QED BY <2>1, <2>2
<1> QED BY <1>5, <1>8, <1>9, <1>10 DEF p, second

(* The same rows but one. *)
LEMMA RowStored ==
  ASSUME NEW rows \in Seq(Seq(Int)), NEW r \in 1 .. Len(rows), NEW row \in Seq(Int)
  PROVE  /\ [rows EXCEPT ![r] = row] \in Seq(Seq(Int))
         /\ Len([rows EXCEPT ![r] = row]) = Len(rows)
         /\ [rows EXCEPT ![r] = row][r] = row
         /\ \A i \in 1 .. Len(rows) : i # r => [rows EXCEPT ![r] = row][i] = rows[i]
<1> DEFINE S == Seq(Int)
<1>1. rows \in Seq(S) /\ row \in S
  OBVIOUS
<1> HIDE DEF S
<1>2. [rows EXCEPT ![r] = row] \in Seq(S)
  BY <1>1
<1>3. Len([rows EXCEPT ![r] = row]) = Len(rows)
  BY <1>1
<1>4. /\ [rows EXCEPT ![r] = row][r] = row
      /\ \A i \in 1 .. Len(rows) : i # r => [rows EXCEPT ![r] = row][i] = rows[i]
  BY <1>1
<1> QED BY <1>2, <1>3, <1>4 DEF S

LEMMA RowAppended ==
  ASSUME NEW rows \in Seq(Seq(Int)), NEW row \in Seq(Int)
  PROVE  /\ Append(rows, row) \in Seq(Seq(Int))
         /\ Len(Append(rows, row)) = Len(rows) + 1
         /\ Append(rows, row)[Len(rows) + 1] = row
         /\ \A i \in 1 .. Len(rows) : Append(rows, row)[i] = rows[i]
<1> DEFINE S == Seq(Int)
<1>1. rows \in Seq(S) /\ row \in S
  OBVIOUS
<1> HIDE DEF S
<1>2. Append(rows, row) \in Seq(S) /\ Len(Append(rows, row)) = Len(rows) + 1
  BY <1>1
<1>3. Append(rows, row)[Len(rows) + 1] = row
  BY <1>1
<1>4. \A i \in 1 .. Len(rows) : Append(rows, row)[i] = rows[i]
  BY <1>1
<1> QED BY <1>2, <1>3, <1>4 DEF S

LEMMA SameRows ==
  ASSUME NEW s \in Seq(Seq(Int)), NEW t \in Seq(Seq(Int)), Len(s) = Len(t),
         \A i \in 1 .. Len(s) : s[i] = t[i]
  PROVE  s = t
  BY SameSeq

(* The first line is drawn behind the prompt. *)
LEMMA FirstLineDrawn ==
  ASSUME NEW lines \in Seq(Texts), Len(lines) >= 1
  PROVE  Put(Screen(<<Above, Cells(Prompt)>>, 2, PromptLen), lines[1]) =
           Screen(Page(lines, 1), 2, PromptLen + WidthOf(lines[1]))
<1> DEFINE prompt == Cells(Prompt)
           rows == <<Above, prompt>>
           text == lines[1]
           page == Page(lines, 1)
           new == [rows EXCEPT ![2] = prompt \o Cells(text)]
<1>1. text \in Texts /\ 1 \in 1 .. Len(lines)
  OBVIOUS
<1>2. /\ prompt \in Seq(Int) /\ Len(prompt) = PromptLen /\ PromptLen \in Nat
      /\ Above \in Seq(Int)
  BY PromptIsWide
<1>3. text \in Seq(Printable) /\ Cells(text) \in Seq(Int)
  BY <1>1, TextCells
<1>4. /\ page \in Seq(Seq(Int)) /\ Len(page) = 1 + 1 /\ page[1] = Above
      /\ page[2] = prompt \o Cells(text)
  BY <1>1, PageRows
<1> HIDE DEF text, prompt, page
<1>5. /\ rows \in Seq(Seq(Int)) /\ Len(rows) = 2 /\ rows[1] = Above /\ rows[2] = prompt
      /\ 2 \in 1 .. Len(rows)
  <2> DEFINE S == Seq(Int)
             a == Above
  <2>1. a \in S /\ prompt \in S
    BY <1>2
  <2> HIDE DEF S, a
  <2>2. <<a, prompt>> \in Seq(S) /\ Len(<<a, prompt>>) = 2
    BY <2>1
  <2> QED BY <2>2 DEF S, a
<1> HIDE DEF rows
<1>6. Padding(prompt, PromptLen) = prompt
  BY <1>2, PaddingIs
<1>7. Put(Screen(rows, 2, PromptLen), text) = Screen(new, 2, PromptLen + WidthOf(text))
  <2>1. Len(rows[2]) <= PromptLen
    BY <1>2, <1>5
  <2>2. Put(Screen(rows, 2, PromptLen), text) =
          Screen([rows EXCEPT ![2] = Padding(rows[2], PromptLen) \o Cells(text)],
                 2, PromptLen + WidthOf(text))
    BY <1>2, <1>3, <1>5, <2>1, PutAtEnd
  <2> QED BY <1>5, <1>6, <2>2
<1>8. new = page
  <2>1. prompt \o Cells(text) \in Seq(Int)
    BY ONLY <1>2, <1>3, ConcatIs
  <2>2. /\ new \in Seq(Seq(Int)) /\ Len(new) = Len(rows) /\ new[2] = prompt \o Cells(text)
        /\ \A i \in 1 .. Len(rows) : i # 2 => new[i] = rows[i]
    <3> DEFINE row == prompt \o Cells(text)
               r == 2
    <3>1. row \in Seq(Int)
      BY <2>1
    <3>2. rows \in Seq(Seq(Int)) /\ r \in 1 .. Len(rows)
      BY <1>5
    <3> HIDE DEF row, r
    <3>3. /\ [rows EXCEPT ![r] = row] \in Seq(Seq(Int))
          /\ Len([rows EXCEPT ![r] = row]) = Len(rows)
          /\ [rows EXCEPT ![r] = row][r] = row
          /\ \A i \in 1 .. Len(rows) : i # r => [rows EXCEPT ![r] = row][i] = rows[i]
      BY ONLY <3>1, <3>2, RowStored
    <3> QED BY <3>3 DEF row, r
  <2> HIDE DEF new
  <2>3. ASSUME NEW i \in 1 .. Len(new) PROVE new[i] = page[i]
    <3>1. i = 1 \/ i = 2
      BY <1>5, <2>2
    <3>2. CASE i = 1
      BY <1>4, <1>5, <2>2, <3>2
    <3>3. CASE i = 2
      BY <1>4, <2>2, <3>3
    <3> QED BY <3>1, <3>2, <3>3
  <2>4. Len(new) = Len(page)
    BY <1>4, <1>5, <2>2
  <2> QED BY <1>4, <2>2, <2>3, <2>4, SameRows
<1> QED BY <1>7, <1>8 DEF rows, text, prompt, page

(* The others are drawn below each other, behind blanks as wide as the     *)
(* prompt.                                                                 *)
LEMMA NextLineDrawn ==
  ASSUME NEW lines \in Seq(Texts), NEW n \in 1 .. Len(lines) - 1, NEW c
  PROVE  Put(ToColumn(NextRow(Screen(Page(lines, n), n + 1, c)), PromptLen), lines[n + 1]) =
           Screen(Page(lines, n + 1), n + 2, PromptLen + WidthOf(lines[n + 1]))
<1> DEFINE k == n + 1
           r == n + 2
           text == lines[k]
           old == Page(lines, n)
           page == Page(lines, k)
           rows == Append(old, <<>>)
           none == <<>>
           row == Padding(none, PromptLen) \o Cells(text)
           new == [rows EXCEPT ![r] = row]
<1>1. /\ n \in 1 .. Len(lines) /\ k \in 1 .. Len(lines) /\ n \in Nat /\ k = n + 1 /\ r = n + 2
      /\ r = k + 1 /\ Len(lines) \in Nat
  OBVIOUS
<1>2. text \in Texts
  BY <1>1
<1> HIDE DEF k, r
<1>3. /\ old \in Seq(Seq(Int)) /\ Len(old) = n + 1
      /\ old[1] = Above /\ old[2] = Cells(Prompt) \o Cells(lines[1])
      /\ \A i \in 2 .. n : old[i + 1] = Padding(<<>>, PromptLen) \o Cells(lines[i])
  BY <1>1, PageRows
<1>4. /\ page \in Seq(Seq(Int)) /\ Len(page) = k + 1
      /\ page[1] = Above /\ page[2] = Cells(Prompt) \o Cells(lines[1])
      /\ \A i \in 2 .. k : page[i + 1] = Padding(<<>>, PromptLen) \o Cells(lines[i])
  BY <1>1, PageRows
<1>5. text \in Seq(Printable) /\ Cells(text) \in Seq(Int) /\ PromptLen \in Nat
  BY <1>2, TextCells, PromptIsWide
<1>6. none \in Seq(Int) /\ Len(none) = 0
  OBVIOUS
<1>7. Padding(none, PromptLen) \in Seq(Int)
  BY <1>5, <1>6, PaddingIs
<1> HIDE DEF text, none, old, page
<1>8. row \in Seq(Int)
  BY ONLY <1>5, <1>7, ConcatIs
<1>9. /\ rows \in Seq(Seq(Int)) /\ Len(rows) = r /\ rows[r] = none
      /\ \A i \in 1 .. k : rows[i] = old[i]
  <2>1. rows = Append(old, none)
    BY DEF none
  <2>2. /\ rows \in Seq(Seq(Int)) /\ Len(rows) = Len(old) + 1 /\ rows[Len(old) + 1] = none
        /\ \A i \in 1 .. Len(old) : rows[i] = old[i]
    BY <1>3, <1>6, <2>1, RowAppended
  <2>3. Len(old) = k /\ Len(old) + 1 = r
    BY <1>1, <1>3
  <2> QED BY <2>2, <2>3
<1>10. ToColumn(NextRow(Screen(old, k, c)), PromptLen) = Screen(rows, r, PromptLen)
  <2> DEFINE s == Screen(old, k, c)
             t == NextRow(s)
  <2>1. s.rows = old /\ s.r = k /\ s.c = c
    BY DEF Screen
  <2>2. k = Len(old) /\ k + 1 = r
    BY <1>1, <1>3
  <2> HIDE DEF s
  <2>3. t = Screen(rows, r, c)
    BY <2>1, <2>2 DEF NextRow
  <2>4. t.rows = rows /\ t.r = r
    BY <2>3 DEF Screen
  <2> HIDE DEF t
  <2>5. ToColumn(t, PromptLen) = Screen(rows, r, PromptLen)
    BY <2>4 DEF ToColumn
  <2> QED BY <2>5 DEF s, t
<1> HIDE DEF rows
<1>11. Put(Screen(rows, r, PromptLen), text) = Screen(new, r, PromptLen + WidthOf(text))
  <2>1. Len(rows[r]) <= PromptLen /\ r \in 1 .. Len(rows)
    <3>1. Len(rows[r]) <= PromptLen
      BY <1>5, <1>6, <1>9
    <3>2. r \in 1 .. Len(rows)
      BY <1>1, <1>9
    <3> QED BY <3>1, <3>2
  <2>2. Put(Screen(rows, r, PromptLen), text) =
          Screen([rows EXCEPT ![r] = Padding(rows[r], PromptLen) \o Cells(text)],
                 r, PromptLen + WidthOf(text))
    BY <1>5, <1>9, <2>1, PutAtEnd
  <2> QED BY <1>9, <2>2
<1> HIDE DEF row
<1>12. new = page
  <2>1. r \in 1 .. Len(rows)
    BY <1>1, <1>9
  <2>2. /\ new \in Seq(Seq(Int)) /\ Len(new) = Len(rows) /\ new[r] = row
        /\ \A i \in 1 .. Len(rows) : i # r => new[i] = rows[i]
    BY <1>8, <1>9, <2>1, RowStored
  <2> HIDE DEF new
  <2>3. page[r] = row
    <3>1. k \in 2 .. k
      BY <1>1
    <3>2. page[k + 1] = Padding(<<>>, PromptLen) \o Cells(lines[k])
      BY <1>4, <3>1
    <3> QED BY <1>1, <3>2 DEF row, none, text
  <2>4. ASSUME NEW i \in 1 .. k PROVE old[i] = page[i]
    <3>1. CASE i = 1
      BY <1>3, <1>4, <3>1
    <3>2. CASE i = 2
      BY <1>3, <1>4, <3>2
    <3>3. CASE i # 1 /\ i # 2
      <4> DEFINE j == i - 1
      <4>1. j \in 2 .. n /\ j \in 2 .. k /\ j + 1 = i
        BY <1>1, <3>3
      <4> HIDE DEF j
      <4>2. old[j + 1] = Padding(<<>>, PromptLen) \o Cells(lines[j])
        BY <1>3, <4>1
      <4>3. page[j + 1] = Padding(<<>>, PromptLen) \o Cells(lines[j])
        BY <1>4, <4>1
      <4> QED BY <4>1, <4>2, <4>3
    <3> QED BY <3>1, <3>2, <3>3
  <2>5. ASSUME NEW i \in 1 .. Len(new) PROVE new[i] = page[i]
    <3>1. CASE i = r
      BY <2>2, <2>3, <3>1
    <3>2. CASE i # r
      <4>1. i \in 1 .. k /\ i \in 1 .. Len(rows)
        BY <1>1, <1>9, <2>2, <3>2
      <4>2. new[i] = rows[i]
        BY <2>2, <3>2, <4>1
      <4>3. rows[i] = old[i]
        BY <1>9, <4>1
      <4> QED BY <2>4, <4>1, <4>2, <4>3
    <3> QED BY <3>1, <3>2
  <2>6. Len(new) = Len(page)
    BY <1>1, <1>4, <1>9, <2>2
  <2> QED BY <1>4, <2>2, <2>5, <2>6, SameRows
<1> QED BY <1>10, <1>11, <1>12 DEF old, page, text, k, r

(* The drawing of the lines of a text with the cursor width columns from   *)
(* its begin, in line k behind last: at the start and after n lines.       *)
StartOf(width) ==
  [screen |-> Screen(<<Above, Cells(Prompt)>>, 2, PromptLen), count |-> 0, line |-> 0,
   found |-> FALSE, cursor |-> width, row |-> 0, col |-> 0]

DrawnTo(lines, k, width, last, n) ==
  [screen |-> Screen(Page(lines, n), n + 1, PromptLen + WidthOf(lines[n])),
   count |-> n,
   line |-> n - 1,
   found |-> n >= k,
   cursor |-> IF n >= k THEN WidthOf(last) ELSE width - Spans(SubSeq(lines, 1, n)),
   row |-> IF n >= k THEN k - 1 ELSE 0,
   col |-> IF n >= k THEN PromptLen + WidthOf(last) ELSE 0]

(* The columns of the first lines. *)
SpanOf(lines, n) == Spans(SubSeq(lines, 1, n))

LEMMA SpanIs ==
  ASSUME NEW lines \in Seq(Texts)
  PROVE  /\ SpanOf(lines, 0) = 0
         /\ \A n \in 0 .. Len(lines) : SpanOf(lines, n) \in Nat
         /\ \A n \in 1 .. Len(lines) :
              SpanOf(lines, n) = SpanOf(lines, n - 1) + (WidthOf(lines[n]) + 1)
<1> DEFINE N == Len(lines)
<1>1. N \in Nat
  OBVIOUS
<1>2. SpanOf(lines, 0) = 0
  <2>1. SubSeq(lines, 1, 0) \in Seq(Texts) /\ Len(SubSeq(lines, 1, 0)) = 0
    BY <1>1, PartIs
  <2>2. SubSeq(lines, 1, 0) = <<>>
    BY <2>1, EmptySeq
  <2> QED BY <2>2, SpansGrow DEF SpanOf
<1>3. ASSUME NEW n \in 0 .. N PROVE SpanOf(lines, n) \in Nat
  <2> DEFINE o == 1
  <2>1. n \in Nat /\ o \in Nat /\ o >= 1 /\ n <= Len(lines)
    BY <1>1
  <2> HIDE DEF o
  <2>2. SubSeq(lines, o, n) \in Seq(Texts)
    BY <2>1, PartIs
  <2> QED BY <2>2, SpansGrow DEF SpanOf, o
<1>4. ASSUME NEW n \in 1 .. N
      PROVE  SpanOf(lines, n) = SpanOf(lines, n - 1) + (WidthOf(lines[n]) + 1)
  <2> DEFINE a == SubSeq(lines, 1, n - 1)
             x == lines[n]
  <2>1. SubSeq(lines, 1, n) = Append(a, x) /\ a \in Seq(Texts) /\ x \in Texts
    BY FrontAndLast
  <2> HIDE DEF a, x
  <2>2. Spans(Append(a, x)) = Spans(a) + (WidthOf(x) + 1)
    BY <2>1, SpansGrow
  <2>3. SpanOf(lines, n) = Spans(Append(a, x))
    BY <2>1 DEF SpanOf
  <2> QED BY <2>2, <2>3 DEF SpanOf, a, x
<1> QED BY <1>2, <1>3, <1>4

(* The cursor is behind the line feeds of the lines before its own. *)
LEMMA CursorAhead ==
  ASSUME NEW lines \in Seq(Texts), NEW front \in Seq(Texts), NEW last \in Texts,
         GoesOn(lines, front, last)
  PROVE  LET k == Len(front) + 1
             width == Spans(front) + WidthOf(last)
         IN /\ k \in 1 .. Len(lines) /\ width \in Nat
            /\ \A n \in 1 .. k - 1 : SpanOf(lines, n) <= width
            /\ width - SpanOf(lines, k - 1) = WidthOf(last)
<1> DEFINE m == Len(front)
           k == m + 1
           width == Spans(front) + WidthOf(last)
           S(n) == SpanOf(lines, n)
<1>1. /\ m \in Nat /\ Len(lines) \in Nat /\ m < Len(lines) /\ k \in 1 .. Len(lines)
      /\ k - 1 = m
  BY DEF GoesOn
<1>2. Spans(front) \in Nat /\ WidthOf(last) \in Nat /\ width \in Nat
  <2>1. Spans(front) \in Nat
    BY SpansGrow
  <2>2. WidthOf(last) \in Nat
    BY TextWidth
  <2> QED BY <2>1, <2>2
<1>3. SubSeq(lines, 1, m) = front
  <2> DEFINE o == 1
             a == SubSeq(lines, o, m)
  <2>1. m \in Nat /\ o \in Nat /\ o >= 1 /\ m <= Len(lines) /\ o = 1
    BY <1>1
  <2> HIDE DEF o
  <2>2. /\ a \in Seq(Texts) /\ Len(a) = IF o <= m THEN (m - o) + 1 ELSE 0
        /\ \A i \in 1 .. (m - o) + 1 : a[i] = lines[(o + i) - 1]
    BY <2>1, PartIs
  <2>3. Len(a) = m
    BY <2>1, <2>2
  <2> HIDE DEF a
  <2>4. ASSUME NEW i \in 1 .. Len(a) PROVE a[i] = front[i]
    <3>1. i \in 1 .. (m - o) + 1 /\ (o + i) - 1 = i /\ i \in 1 .. m
      BY <2>1, <2>3
    <3>2. lines[i] = front[i]
      BY <3>1 DEF GoesOn
    <3> QED BY <2>2, <3>1, <3>2
  <2>5. a = front
    BY <2>2, <2>3, <2>4, SameSeq
  <2> QED BY <2>5 DEF a, o
<1>4. S(m) = Spans(front)
  BY <1>3 DEF SpanOf
<1>5. width - S(k - 1) = WidthOf(last)
  BY <1>1, <1>2, <1>4
<1> HIDE DEF width, k
<1>6. \A j \in 0 .. m : S(m - j) <= S(m)
  <2> DEFINE A == {j \in 0 .. m : S(m - j) <= S(m)}
  <2>1. 0 \in A
    <3>1. 0 \in 0 .. m
      BY <1>1
    <3>2. m - 0 = m
      BY <1>1
    <3>3. S(m) <= S(m)
      BY <1>2, <1>4
    <3>4. S(m - 0) <= S(m)
      BY <3>2, <3>3
    <3> QED BY <3>1, <3>4
  <2>2. ASSUME NEW j \in 1 .. m, j - 1 \in A PROVE j \in A
    <3> DEFINE h == m - (j - 1)
               g == m - j
    <3>1. h \in 1 .. Len(lines) /\ h - 1 = g /\ g \in 0 .. Len(lines) /\ h \in 0 .. Len(lines)
          /\ j \in 0 .. m
      BY <1>1
    <3>2. S(h) <= S(m)
      BY <2>2
    <3> HIDE DEF h, g
    <3>3. S(h) = S(g) + (WidthOf(lines[h]) + 1)
      BY <3>1, SpanIs
    <3>4. S(h) \in Nat /\ S(g) \in Nat
      BY <3>1, SpanIs
    <3>5. WidthOf(lines[h]) \in Nat
      <4>1. lines[h] \in Texts
        BY <3>1
      <4> QED BY <4>1, TextWidth
    <3>6. S(m) \in Nat
      BY <1>2, <1>4
    <3> HIDE DEF S
    <3>7. S(g) <= S(m)
      BY <3>2, <3>3, <3>4, <3>5, <3>6
    <3> QED BY <3>1, <3>7 DEF g
  <2> HIDE DEF A
  <2>3. \A j \in 0 .. m : j \in A
    BY <1>1, <2>1, <2>2, Upwards
  <2> QED BY <2>3 DEF A
<1>7. ASSUME NEW n \in 1 .. k - 1 PROVE S(n) <= width
  <2> DEFINE j == m - n
  <2>1. j \in 0 .. m /\ m - j = n /\ n \in 0 .. Len(lines)
    BY <1>1
  <2> HIDE DEF j
  <2>2. S(n) <= S(m)
    BY <1>6, <2>1
  <2>3. S(n) \in Nat
    BY <2>1, SpanIs
  <2> HIDE DEF S
  <2> QED BY <1>2, <1>4, <2>2, <2>3 DEF width
<1> QED BY <1>1, <1>2, <1>5, <1>7 DEF width, k

(* One line more is drawn. *)
LEMMA DrawnFrom ==
  ASSUME NEW lines \in Seq(Texts), NEW front \in Seq(Texts), NEW last \in Texts,
         GoesOn(lines, front, last),
         NEW n \in 1 .. Len(lines), NEW d, d.count = n - 1,
         Put(IF d.count = 0 THEN d.screen ELSE ToColumn(NextRow(d.screen), PromptLen), lines[n])
           = Screen(Page(lines, n), n + 1, PromptLen + WidthOf(lines[n])),
         d.line = (IF n = 1 THEN 0 ELSE n - 2),
         d.found = (n - 1 >= Len(front) + 1),
         d.cursor = (IF n - 1 >= Len(front) + 1 THEN WidthOf(last)
                     ELSE (Spans(front) + WidthOf(last)) - SpanOf(lines, n - 1)),
         d.row = (IF n - 1 >= Len(front) + 1 THEN (Len(front) + 1) - 1 ELSE 0),
         d.col = (IF n - 1 >= Len(front) + 1 THEN PromptLen + WidthOf(last) ELSE 0)
  PROVE  DrawLine(d, lines[n]) =
           DrawnTo(lines, Len(front) + 1, Spans(front) + WidthOf(last), last, n)
<1> DEFINE k == Len(front) + 1
           width == Spans(front) + WidthOf(last)
           text == lines[n]
           below == IF d.count = 0 THEN d.screen ELSE ToColumn(NextRow(d.screen), PromptLen)
           line == IF d.count = 0 THEN d.line ELSE d.line + 1
           here == ~d.found /\ d.cursor <= WidthOf(text)
           W == WidthOf(text)
           L == WidthOf(last)
           S(i) == SpanOf(lines, i)
<1>1. /\ k \in 1 .. Len(lines) /\ width \in Nat
      /\ \A i \in 1 .. k - 1 : S(i) <= width
      /\ width - S(k - 1) = L
  BY CursorAhead
<1>2. W \in Nat /\ L \in Nat
  <2>1. text \in Texts
    OBVIOUS
  <2> QED BY <2>1, TextWidth
<1>3. L <= WidthOf(lines[k])
  BY DEF GoesOn
<1>4. S(n) = S(n - 1) + (W + 1)
  BY SpanIs
<1>5. S(n) \in Nat /\ S(n - 1) \in Nat
  <2> DEFINE p == n - 1
  <2>1. n \in 0 .. Len(lines) /\ p \in 0 .. Len(lines)
    OBVIOUS
  <2> HIDE DEF p
  <2>2. S(n) \in Nat /\ S(p) \in Nat
    BY <2>1, SpanIs
  <2> QED BY <2>2 DEF p
<1>6. n \in Nat /\ n >= 1 /\ k \in Nat /\ PromptLen \in Nat
  BY <1>1, PromptIsWide
<1>7. /\ d.found = (n - 1 >= k)
      /\ d.cursor = (IF n - 1 >= k THEN L ELSE width - S(n - 1))
      /\ d.row = (IF n - 1 >= k THEN k - 1 ELSE 0)
      /\ d.col = (IF n - 1 >= k THEN PromptLen + L ELSE 0)
  OBVIOUS
<1>8. line = n - 1
  <2>1. CASE n = 1
    BY <2>1
  <2>2. CASE n # 1
    <3>1. d.count # 0 /\ d.line = n - 2
      BY <1>6, <2>2
    <3> QED BY <1>6, <3>1
  <2> QED BY <2>1, <2>2
<1>9. Put(below, text) = Screen(Page(lines, n), n + 1, PromptLen + W)
  OBVIOUS
<1>10. DrawLine(d, text) =
         [screen |-> Put(below, text), count |-> d.count + 1, line |-> line,
          found |-> d.found \/ here,
          cursor |-> IF d.found \/ here THEN d.cursor ELSE d.cursor - (W + 1),
          row |-> IF here THEN line ELSE d.row,
          col |-> IF here THEN PromptLen + d.cursor ELSE d.col]
  <2> HIDE DEF text
  <2> QED BY DEF DrawLine
<1>11. DrawnTo(lines, k, width, last, n) =
         [screen |-> Screen(Page(lines, n), n + 1, PromptLen + W), count |-> n, line |-> n - 1,
          found |-> n >= k,
          cursor |-> IF n >= k THEN L ELSE width - S(n),
          row |-> IF n >= k THEN k - 1 ELSE 0,
          col |-> IF n >= k THEN PromptLen + L ELSE 0]
  <2> HIDE DEF k, width
  <2> QED BY DEF DrawnTo, SpanOf
<1>12. d.count + 1 = n
  BY <1>6
<1>13. n = k => W = WidthOf(lines[k])
  OBVIOUS
<1>14. n < k => S(n) <= width
  <2> SUFFICES ASSUME n < k PROVE S(n) <= width
    OBVIOUS
  <2>1. n \in 1 .. k - 1
    BY <1>6
  <2> QED BY <1>1, <2>1
<1>15. n = k => S(n - 1) = S(k - 1)
  OBVIOUS
<1>16. width \in Nat /\ width - S(k - 1) = L
  BY <1>1
<1> HIDE DEF k, width, W, L, S, below, text, line
<1>17. CASE n < k
  <2>1. ~(n - 1 >= k) /\ ~(n >= k)
    BY <1>6, <1>17
  <2>2. d.found = FALSE
    <3>1. (n - 1 >= k) = FALSE
      BY <2>1
    <3>2. d.found = (n - 1 >= k)
      BY <1>7
    <3> QED BY <3>1, <3>2, Zenon
  <2>3. d.cursor = width - S(n - 1)
    BY <1>7, <2>1
  <2>4. ~(d.cursor <= W)
    BY <1>2, <1>4, <1>5, <1>14, <1>16, <1>17, <2>3
  <2>5. here = FALSE
    BY <2>4 DEF W
  <2>6. d.cursor - (W + 1) = width - S(n)
    BY <1>2, <1>4, <1>5, <1>16, <2>3
  <2>7. d.row = 0 /\ d.col = 0
    BY <1>7, <2>1
  <2>8. n >= k <=> FALSE
    BY <2>1
  <2> HIDE DEF here
  <2>9. DrawLine(d, text) =
         [screen |-> Screen(Page(lines, n), n + 1, PromptLen + W), count |-> n, line |-> n - 1,
          found |-> FALSE, cursor |-> width - S(n), row |-> 0, col |-> 0]
    BY <1>8, <1>9, <1>10, <1>12, <2>2, <2>5, <2>6, <2>7
  <2>10. DrawnTo(lines, k, width, last, n) =
         [screen |-> Screen(Page(lines, n), n + 1, PromptLen + W), count |-> n, line |-> n - 1,
          found |-> FALSE, cursor |-> width - S(n), row |-> 0, col |-> 0]
    <3>1. (n >= k) = FALSE
      BY <2>1
    <3> QED BY <1>11, <3>1, Zenon
  <2> QED BY <2>9, <2>10 DEF text, k, width
<1>18. CASE n = k
  <2>1. ~(n - 1 >= k) /\ n >= k
    BY <1>6, <1>18
  <2>2. d.found = FALSE
    <3>1. (n - 1 >= k) = FALSE
      BY <2>1
    <3>2. d.found = (n - 1 >= k)
      BY <1>7
    <3> QED BY <3>1, <3>2, Zenon
  <2>3. d.cursor = L
    BY <1>7, <1>15, <1>16, <1>18, <2>1
  <2>4. d.cursor <= W
    BY <1>3, <1>13, <1>18, <2>3 DEF L
  <2>5. here = TRUE
    BY <2>2, <2>4 DEF W
  <2> HIDE DEF here
  <2>6. DrawLine(d, text) =
         [screen |-> Screen(Page(lines, n), n + 1, PromptLen + W), count |-> n, line |-> n - 1,
          found |-> TRUE, cursor |-> L, row |-> n - 1, col |-> PromptLen + L]
    BY <1>8, <1>9, <1>10, <1>12, <2>2, <2>3, <2>5
  <2>7. DrawnTo(lines, k, width, last, n) =
         [screen |-> Screen(Page(lines, n), n + 1, PromptLen + W), count |-> n, line |-> n - 1,
          found |-> TRUE, cursor |-> L, row |-> n - 1, col |-> PromptLen + L]
    <3>1. (n >= k) = TRUE /\ k - 1 = n - 1
      BY <1>18, <2>1
    <3> QED BY <1>11, <3>1, Zenon
  <2> QED BY <2>6, <2>7 DEF text, k, width
<1>19. CASE n > k
  <2>1. n - 1 >= k /\ n >= k
    BY <1>6, <1>19
  <2>2. d.found = TRUE
    <3>1. (n - 1 >= k) = TRUE
      BY <2>1
    <3>2. d.found = (n - 1 >= k)
      BY <1>7
    <3> QED BY <3>1, <3>2, Zenon
  <2>3. d.cursor = L /\ d.row = k - 1 /\ d.col = PromptLen + L
    BY <1>7, <2>1
  <2>4. here = FALSE
    BY <2>2
  <2> HIDE DEF here
  <2>5. DrawLine(d, text) =
         [screen |-> Screen(Page(lines, n), n + 1, PromptLen + W), count |-> n, line |-> n - 1,
          found |-> TRUE, cursor |-> L, row |-> k - 1, col |-> PromptLen + L]
    BY <1>8, <1>9, <1>10, <1>12, <2>2, <2>3, <2>4
  <2>6. DrawnTo(lines, k, width, last, n) =
         [screen |-> Screen(Page(lines, n), n + 1, PromptLen + W), count |-> n, line |-> n - 1,
          found |-> TRUE, cursor |-> L, row |-> k - 1, col |-> PromptLen + L]
    <3>1. (n >= k) = TRUE
      BY <2>1
    <3> QED BY <1>11, <3>1, Zenon
  <2> QED BY <2>5, <2>6 DEF text, k, width
<1> QED BY <1>6, <1>17, <1>18, <1>19

LEMMA DrawLinesIs ==
  ASSUME NEW lines \in Seq(Texts), NEW front \in Seq(Texts), NEW last \in Texts,
         GoesOn(lines, front, last)
  PROVE  LET k == Len(front) + 1
             width == Spans(front) + WidthOf(last)
         IN DrawLines(StartOf(width), lines) = DrawnTo(lines, k, width, last, Len(lines))
<1> DEFINE N == Len(lines)
           k == Len(front) + 1
           width == Spans(front) + WidthOf(last)
           start == StartOf(width)
           To(n) == DrawnTo(lines, k, width, last, n)
           h == CHOOSE f : f = [n \in 0 .. N |->
                                  IF n = 0 THEN start ELSE DrawLine(f[n - 1], lines[n])]
           g == [n \in 0 .. N |-> IF n = 0 THEN start ELSE To(n)]
<1>1. k \in 1 .. N /\ width \in Nat /\ N \in Nat /\ N >= 1
  <2>1. k \in 1 .. N /\ width \in Nat
    BY CursorAhead
  <2> QED BY <2>1
<1>2. DrawLines(start, lines) = h[N]
  BY DEF DrawLines
<1>3. ASSUME NEW n \in 1 .. N PROVE DrawLine(g[n - 1], lines[n]) = To(n)
  <2>1. CASE n = 1
    <3>1. g[n - 1] = start
      <4>1. n - 1 = 0 /\ 0 \in 0 .. N
        BY <1>1, <2>1
      <4> HIDE DEF start, To
      <4>2. g[0] = start
        BY <4>1
      <4> QED BY <4>1, <4>2
    <3>2. /\ start.screen = Screen(<<Above, Cells(Prompt)>>, 2, PromptLen)
          /\ start.count = 0 /\ start.line = 0 /\ start.found = FALSE
          /\ start.cursor = width /\ start.row = 0 /\ start.col = 0
      BY DEF StartOf
    <3> HIDE DEF start
    <3>3. Put(IF start.count = 0 THEN start.screen ELSE ToColumn(NextRow(start.screen), PromptLen), lines[1])
            = Screen(Page(lines, 1), 1 + 1, PromptLen + WidthOf(lines[1]))
      <4>1. Put(start.screen, lines[1]) = Screen(Page(lines, 1), 2, PromptLen + WidthOf(lines[1]))
        BY <1>1, <3>2, FirstLineDrawn
      <4>2. 1 + 1 = 2
        OBVIOUS
      <4> QED BY <3>2, <4>1, <4>2
    <3>4. ~(1 - 1 >= k) /\ (1 - 1 >= k) = FALSE
      BY <1>1
    <3>5. SpanOf(lines, 1 - 1) = 0
      <4>1. 1 - 1 = 0
        OBVIOUS
      <4> QED BY <4>1, SpanIs
    <3>6. 1 \in 1 .. Len(lines)
      BY <1>1
    <3>7. width = width - SpanOf(lines, 1 - 1)
      BY <1>1, <3>5
    <3>8. start.cursor = IF 1 - 1 >= k THEN WidthOf(last) ELSE width - SpanOf(lines, 1 - 1)
      BY <3>2, <3>4, <3>7
    <3>9. /\ start.row = IF 1 - 1 >= k THEN k - 1 ELSE 0
          /\ start.col = IF 1 - 1 >= k THEN PromptLen + WidthOf(last) ELSE 0
          /\ start.line = IF 1 = 1 THEN 0 ELSE 1 - 2
          /\ start.count = 1 - 1
      BY <3>2, <3>4
    <3>10. start.found = (1 - 1 >= k)
      BY <3>2, <3>4, Zenon
    <3>11. DrawLine(start, lines[1]) = To(1)
      BY <3>3, <3>6, <3>8, <3>9, <3>10, DrawnFrom
    <3> QED BY <2>1, <3>1, <3>11
  <2>2. CASE n # 1
    <3> DEFINE m == n - 1
               d == To(m)
    <3>1. m \in 1 .. N - 1 /\ m + 1 = n /\ m \in 0 .. N /\ m # 0 /\ n - 1 = m /\ m + 2 = n + 1
          /\ m - 1 = n - 2 /\ m \in Nat
      BY <1>1, <2>2
    <3>2. g[n - 1] = d
      <4> HIDE DEF start, To, m
      <4>1. g[m] = IF m = 0 THEN start ELSE To(m)
        BY <3>1
      <4> QED BY <3>1, <4>1
    <3> HIDE DEF m
    <3>3. /\ d.screen = Screen(Page(lines, m), m + 1, PromptLen + WidthOf(lines[m]))
          /\ d.count = m /\ d.line = m - 1 /\ d.found = (m >= k)
          /\ d.cursor = (IF m >= k THEN WidthOf(last) ELSE width - SpanOf(lines, m))
          /\ d.row = (IF m >= k THEN k - 1 ELSE 0)
          /\ d.col = (IF m >= k THEN PromptLen + WidthOf(last) ELSE 0)
      <4> HIDE DEF k, width
      <4> QED BY DEF DrawnTo, SpanOf
    <3> HIDE DEF d
    <3>4. Put(IF d.count = 0 THEN d.screen ELSE ToColumn(NextRow(d.screen), PromptLen), lines[n])
            = Screen(Page(lines, n), n + 1, PromptLen + WidthOf(lines[n]))
      <4> DEFINE c == PromptLen + WidthOf(lines[m])
      <4>1. d.screen = Screen(Page(lines, m), m + 1, c) /\ d.count = m
        BY <3>3
      <4> HIDE DEF c
      <4>2. Put(ToColumn(NextRow(Screen(Page(lines, m), m + 1, c)), PromptLen), lines[m + 1])
              = Screen(Page(lines, m + 1), m + 2, PromptLen + WidthOf(lines[m + 1]))
        BY <3>1, NextLineDrawn
      <4> QED BY <3>1, <4>1, <4>2
    <3>5. d.count = n - 1 /\ d.line = (IF n = 1 THEN 0 ELSE n - 2)
      BY <2>2, <3>1, <3>3
    <3>6. d.cursor = IF n - 1 >= k THEN WidthOf(last) ELSE width - SpanOf(lines, n - 1)
      BY <3>1, <3>3
    <3>7. d.found = (n - 1 >= k)
      BY <3>1, <3>3
    <3>8. /\ d.row = IF n - 1 >= k THEN k - 1 ELSE 0
          /\ d.col = IF n - 1 >= k THEN PromptLen + WidthOf(last) ELSE 0
      BY <3>1, <3>3
    <3>9. DrawLine(d, lines[n]) = To(n)
      BY <3>4, <3>5, <3>6, <3>7, <3>8, DrawnFrom
    <3> QED BY <3>2, <3>9
  <2> QED BY <2>1, <2>2
<1> HIDE DEF N, start, To
<1>4. /\ g[0] = start
      /\ \A n \in 1 .. N : g[n] = To(n)
  <2>1. 0 \in 0 .. N
    BY <1>1
  <2>2. g[0] = start
    BY <2>1
  <2>3. ASSUME NEW n \in 1 .. N PROVE g[n] = To(n)
    <3>1. n \in 0 .. N /\ n # 0
      BY <1>1
    <3> QED BY <3>1
  <2> QED BY <2>2, <2>3
<1>5. g = [n \in 0 .. N |-> g[n]]
  OBVIOUS
<1> HIDE DEF g
<1>6. g = [n \in 0 .. N |-> IF n = 0 THEN start ELSE DrawLine(g[n - 1], lines[n])]
  <2>1. ASSUME NEW n \in 0 .. N
        PROVE  g[n] = IF n = 0 THEN start ELSE DrawLine(g[n - 1], lines[n])
    <3>1. CASE n = 0
      BY <1>4, <3>1
    <3>2. CASE n # 0
      <4>1. n \in 1 .. N
        BY <1>1, <3>2
      <4> QED BY <1>3, <1>4, <3>2, <4>1
    <3> QED BY <3>1, <3>2
  <2> QED BY <1>5, <2>1
<1>7. h = [n \in 0 .. N |-> IF n = 0 THEN start ELSE DrawLine(h[n - 1], lines[n])]
  BY <1>6
<1> HIDE DEF h
<1> DEFINE B == {n \in 0 .. N : h[n] = g[n]}
<1>8. 0 \in B
  <2>1. 0 \in 0 .. N
    BY <1>1
  <2>2. h[0] = start
    BY <1>7, <2>1
  <2>3. h[0] = g[0]
    BY <1>4, <2>2
  <2> QED BY <2>1, <2>3
<1>9. ASSUME NEW n \in 1 .. N, n - 1 \in B PROVE n \in B
  <2>1. n \in 0 .. N /\ n # 0
    BY <1>1
  <2>2. h[n] = DrawLine(h[n - 1], lines[n])
    BY <1>7, <2>1
  <2>3. g[n] = DrawLine(g[n - 1], lines[n])
    BY <1>3, <1>4
  <2>4. h[n - 1] = g[n - 1]
    BY <1>9
  <2>5. h[n] = g[n]
    BY <2>2, <2>3, <2>4
  <2> QED BY <2>1, <2>5
<1> HIDE DEF B
<1>10. N \in B
  <2>1. \A n \in 0 .. N : n \in B
    BY <1>1, <1>8, <1>9, Upwards
  <2> QED BY <1>1, <2>1
<1>11. h[N] = To(N)
  <2>1. h[N] = g[N]
    BY <1>10 DEF B
  <2>2. N \in 1 .. N
    BY <1>1
  <2> QED BY <1>4, <2>1, <2>2
<1> QED BY <1>2, <1>11 DEF N, To, start

(* The lines of a buffer, and those before its cursor. *)
LEMMA BufferLines ==
  ASSUME NEW b \in Buffers
  PROVE  LET lines == SplitLines(b.content)
             head == SubSeq(b.content, 1, b.cursor)
         IN \E front \in Seq(Texts) : \E last \in Texts :
              /\ SplitLines(head) = Append(front, last)
              /\ Len(SplitLines(head)) = Len(front) + 1 /\ Last(SplitLines(head)) = last
              /\ WidthOf(head) = Spans(front) + WidthOf(last)
              /\ lines \in Seq(Texts) /\ GoesOn(lines, front, last)
<1> DEFINE text == b.content
           n == b.cursor
           o == 1
           lines == SplitLines(text)
           head == SubSeq(text, o, n)
           tail == SubSeq(text, n + 1, Len(text))
<1>1. text \in Seq(Characters) /\ n \in 0 .. Len(text) /\ Len(text) \in Nat
  BY BufferParts DEF Texts
<1>2. head \in Texts /\ tail \in Texts
  <2> DEFINE m == n + 1
             z == Len(text)
  <2>1. n \in Nat /\ m \in Nat /\ z \in Nat /\ o \in Nat /\ o >= 1 /\ m >= 1 /\ n <= Len(text)
        /\ z <= Len(text)
    BY <1>1
  <2> HIDE DEF m, o, z
  <2>2. SubSeq(text, o, n) \in Seq(Characters) /\ SubSeq(text, m, z) \in Seq(Characters)
    BY <1>1, <2>1, PartIs
  <2> QED BY <2>2 DEF Texts, m, z
<1>3. text = head \o tail
  BY <1>1, PartAndRest
<1> HIDE DEF text, head, tail, n
<1>4. PICK front \in Seq(Texts), last \in Texts : EndsWith(head, front, last)
  BY <1>2, LastLineExists
<1>5. GoesOn(lines, front, last)
  BY <1>2, <1>3, <1>4, LinesGoOn DEF EndsWith
<1>6. lines \in Seq(Texts)
  BY <1>5 DEF GoesOn
<1> DEFINE before == Append(front, last)
<1>7. before \in Seq(Texts) /\ Len(before) = Len(front) + 1 /\ before[Len(front) + 1] = last
  BY LastIsAppended
<1>8. SplitLines(head) = before /\ WidthOf(head) = Spans(front) + WidthOf(last)
  BY <1>4 DEF EndsWith
<1> HIDE DEF before
<1>9. Last(before) = last
  BY <1>7 DEF Last
<1>10. /\ SplitLines(head) = Append(front, last)
       /\ Len(SplitLines(head)) = Len(front) + 1 /\ Last(SplitLines(head)) = last
       /\ WidthOf(head) = Spans(front) + WidthOf(last)
       /\ lines \in Seq(Texts) /\ GoesOn(lines, front, last)
  BY <1>5, <1>6, <1>7, <1>8, <1>9 DEF before
<1> QED BY <1>10 DEF head, text, n

(* A screen with the cursor in one of its rows; one with the prompt at its *)
(* begin and the cursor the given number of rows below; one with the       *)
(* cursor in the last row, which is empty but for the prompt.              *)
IsScreen(s) == s.rows \in Seq(Seq(Int)) /\ s.r \in 1 .. Len(s.rows)

Ready(s, line) ==
  /\ line \in Nat /\ s.r = line + 2
  /\ s.rows[1] = Above
  /\ PromptLen <= Len(s.rows[2]) /\ SubSeq(s.rows[2], 1, PromptLen) = Cells(Prompt)

Fresh(s) == s.r = Len(s.rows) /\ Len(s.rows[s.r]) <= PromptLen

(* The screen that shows a buffer. *)
ShownOf(b) ==
  LET lines == SplitLines(b.content)
      before == SplitLines(SubSeq(b.content, 1, b.cursor))
  IN Screen(Page(lines, Len(lines)), 1 + Len(before), PromptLen + WidthOf(Last(before)))

(* Drawing begins behind the prompt, on rows which hold nothing else. *)
LEMMA ClearedIs ==
  ASSUME NEW s, IsScreen(s), Ready(s, cursorLine)
  PROVE  Cleared(s) = Screen(<<Above, Cells(Prompt)>>, 2, PromptLen)
<1> DEFINE rows == s.rows
           up == IF cursorLine = 0 THEN s ELSE MoveUpRows(s, cursorLine)
           t == ToColumn(up, PromptLen)
           first == SubSeq(rows, 1, 1)
           prompt == Cells(Prompt)
<1>1. /\ rows \in Seq(Seq(Int)) /\ s.r \in 1 .. Len(rows) /\ cursorLine \in Nat
      /\ s.r = cursorLine + 2 /\ rows[1] = Above /\ SubSeq(rows[2], 1, PromptLen) = prompt
  BY DEF IsScreen, Ready
<1> HIDE DEF rows, prompt
<1>2. up.rows = rows /\ up.r = 2
  <2>1. CASE cursorLine = 0
    BY <1>1, <2>1 DEF rows
  <2>2. CASE cursorLine # 0
    <3>1. s.r - cursorLine = 2
      BY <1>1
    <3>2. Max({1, 2}) = IF 1 < 2 THEN 2 ELSE 1
      BY MaxOfTwo
    <3>3. Max({1, s.r - cursorLine}) = 2
      BY <3>1, <3>2
    <3>4. MoveUpRows(s, cursorLine) = Screen(rows, 2, s.c)
      BY <3>3 DEF MoveUpRows, rows
    <3>5. up = Screen(rows, 2, s.c)
      BY <2>2, <3>4
    <3> HIDE DEF up
    <3> QED BY <3>5 DEF Screen
  <2> QED BY <2>1, <2>2
<1>3. Cleared(s) = ClearDown(t)
  BY DEF Cleared
<1> HIDE DEF up
<1>4. t.rows = rows /\ t.r = 2 /\ t.c = PromptLen
  BY <1>2 DEF ToColumn, Screen
<1> HIDE DEF t
<1>5. ClearDown(t) = Screen(Append(SubSeq(rows, 1, 2 - 1), prompt), 2, PromptLen)
  BY <1>1, <1>4 DEF ClearDown
<1>6. SubSeq(rows, 1, 2 - 1) = first
  <2>1. 2 - 1 = 1
    OBVIOUS
  <2> QED BY <2>1
<1>7. Append(first, prompt) = <<Above, prompt>>
  <2> DEFINE S == Seq(Int)
             one == 1
  <2>1. rows \in Seq(S) /\ one \in Nat /\ one >= 1 /\ one <= Len(rows) /\ one = 1
    BY <1>1
  <2> HIDE DEF S, one
  <2>2. /\ SubSeq(rows, one, one) \in Seq(S)
        /\ Len(SubSeq(rows, one, one)) = IF one <= one THEN (one - one) + 1 ELSE 0
        /\ \A i \in 1 .. (one - one) + 1 : SubSeq(rows, one, one)[i] = rows[(one + i) - 1]
    BY <2>1, PartIs
  <2>3. (one - one) + 1 = 1 /\ one <= one /\ (one + 1) - 1 = 1 /\ 1 \in 1 .. (one - one) + 1
    BY <2>1
  <2>4. Len(SubSeq(rows, one, one)) = 1 /\ SubSeq(rows, one, one)[1] = rows[1]
    <3>1. \A i \in 1 .. (one - one) + 1 : SubSeq(rows, one, one)[i] = rows[(one + i) - 1]
      BY <2>2
    <3>2. SubSeq(rows, one, one)[1] = rows[(one + 1) - 1]
      BY <2>3, <3>1
    <3>3. SubSeq(rows, one, one)[1] = rows[1]
      BY <2>3, <3>2
    <3>4. Len(SubSeq(rows, one, one)) = 1
      BY <2>2, <2>3
    <3> QED BY <3>3, <3>4
  <2>5. first \in Seq(S) /\ Len(first) = 1 /\ first[1] = Above
    BY <1>1, <2>1, <2>2, <2>4
  <2> HIDE DEF first
  <2>6. first = <<Above>>
    BY <2>5
  <2> DEFINE a == Above
  <2>7. a \in S /\ prompt \in S
    BY PromptIsWide DEF S, prompt
  <2> HIDE DEF a
  <2>8. Append(<<a>>, prompt) = <<a, prompt>>
    <3> DEFINE u == <<a>>
               x == Append(u, prompt)
               y == <<a, prompt>>
    <3>1. u \in Seq(S) /\ Len(u) = 1 /\ u[1] = a
      BY <2>7
    <3>2. y \in Seq(S) /\ Len(y) = 2 /\ y[1] = a /\ y[2] = prompt
      BY <2>7
    <3> HIDE DEF u, y
    <3>3. x \in Seq(S) /\ Len(x) = 2 /\ x[1] = a /\ x[2] = prompt
      <4>1. u \in Seq(Seq(Int)) /\ prompt \in Seq(Int)
        BY <2>7, <3>1 DEF S
      <4>2. /\ x \in Seq(Seq(Int)) /\ Len(x) = Len(u) + 1 /\ x[Len(u) + 1] = prompt
            /\ \A i \in 1 .. Len(u) : x[i] = u[i]
        BY ONLY <4>1, RowAppended
      <4>3. Len(u) + 1 = 2 /\ 1 \in 1 .. Len(u)
        BY <3>1
      <4>4. x \in Seq(S)
        BY <4>2 DEF S
      <4> HIDE DEF x
      <4>5. x[1] = u[1]
        BY <4>2, <4>3
      <4>6. Len(x) = 2 /\ x[2] = prompt
        BY <4>2, <4>3
      <4> QED BY <3>1, <4>4, <4>5, <4>6
    <3> HIDE DEF x
    <3>4. ASSUME NEW i \in 1 .. Len(x) PROVE x[i] = y[i]
      <4>1. i = 1 \/ i = 2
        BY <3>3
      <4> QED BY <3>2, <3>3, <4>1
    <3>5. x = y
      BY <3>2, <3>3, <3>4, SameSeq
    <3> QED BY <3>5 DEF x, y, u
  <2> QED BY <2>6, <2>8 DEF a
<1> QED BY <1>3, <1>5, <1>6, <1>7 DEF prompt

(* A row that begins with the prompt. *)
LEMMA PromptFirst ==
  ASSUME NEW cells \in Seq(Int)
  PROVE  LET row == Cells(Prompt) \o cells
         IN /\ row \in Seq(Int) /\ PromptLen <= Len(row)
            /\ SubSeq(row, 1, PromptLen) = Cells(Prompt)
<1> DEFINE prompt == Cells(Prompt)
           row == prompt \o cells
<1>1. prompt \in Seq(Int) /\ Len(prompt) = PromptLen /\ PromptLen \in Nat
  BY PromptIsWide
<1> HIDE DEF prompt
<1>2. /\ row \in Seq(Int) /\ Len(row) = Len(prompt) + Len(cells)
      /\ Len(cells) \in Nat /\ \A i \in 1 .. Len(prompt) : row[i] = prompt[i]
  BY ONLY <1>1, cells \in Seq(Int), ConcatIs
<1> HIDE DEF row
<1>3. PromptLen <= Len(row)
  BY <1>1, <1>2
<1>4. SubSeq(row, 1, PromptLen) = prompt
  <2> DEFINE p == SubSeq(row, 1, PromptLen)
  <2>1. 1 \in Nat /\ 1 >= 1 /\ PromptLen <= Len(row)
    BY <1>3
  <2>2. /\ p \in Seq(Int) /\ Len(p) = (IF 1 <= PromptLen THEN (PromptLen - 1) + 1 ELSE 0)
        /\ \A i \in 1 .. (PromptLen - 1) + 1 : p[i] = row[(1 + i) - 1]
    BY <1>1, <1>2, <2>1, PartIs
  <2>3. Len(p) = PromptLen
    BY <1>1, <2>2
  <2> HIDE DEF p
  <2>4. ASSUME NEW i \in 1 .. Len(p) PROVE p[i] = prompt[i]
    <3>1. i \in 1 .. (PromptLen - 1) + 1 /\ (1 + i) - 1 = i /\ i \in 1 .. Len(prompt)
      BY <1>1, <2>3
    <3>2. p[i] = row[i]
      BY <2>2, <3>1
    <3> QED BY <1>2, <3>1, <3>2
  <2>5. p = prompt
    BY <1>1, <2>2, <2>3, <2>4, SameSeq
  <2> QED BY <2>5 DEF p
<1> QED BY <1>2, <1>3, <1>4 DEF row, prompt

(* A screen that shows a buffer is ready for the next drawing. *)
LEMMA ShownParts ==
  ASSUME NEW b \in Buffers
  PROVE  LET lines == SplitLines(b.content)
             before == SplitLines(SubSeq(b.content, 1, b.cursor))
             N == Len(lines)
             K == Len(before)
         IN /\ N \in Nat /\ K \in 1 .. N /\ lines \in Seq(Texts)
            /\ IsScreen(ShownOf(b)) /\ Ready(ShownOf(b), K - 1)
            /\ ShownOf(b).rows = Page(lines, N) /\ ShownOf(b).r = 1 + K
            /\ ShownOf(b).c = PromptLen + WidthOf(Last(before))
<1> DEFINE lines == SplitLines(b.content)
           before == SplitLines(SubSeq(b.content, 1, b.cursor))
           N == Len(lines)
           K == Len(before)
           page == Page(lines, N)
           prompt == Cells(Prompt)
           s == ShownOf(b)
<1>1. PICK front \in Seq(Texts), last \in Texts :
              /\ Len(before) = Len(front) + 1
              /\ lines \in Seq(Texts) /\ GoesOn(lines, front, last)
  BY BufferLines
<1>2. N \in Nat /\ K \in 1 .. N /\ lines \in Seq(Texts)
  <2>1. Len(front) \in Nat /\ N \in Nat /\ Len(front) < N
    BY <1>1 DEF GoesOn
  <2> QED BY <1>1, <2>1
<1>3. s.rows = page /\ s.r = 1 + K /\ s.c = PromptLen + WidthOf(Last(before))
  <2> HIDE DEF lines, before, page
  <2> QED BY DEF ShownOf, Screen, lines, before, page
<1> HIDE DEF lines, before, s
<1>4. N \in 1 .. N
  BY <1>2
<1>5. /\ page \in Seq(Seq(Int)) /\ Len(page) = N + 1 /\ page[1] = Above
      /\ page[2] = prompt \o Cells(lines[1])
  <2> HIDE DEF N
  <2>1. N \in 1 .. Len(lines)
    BY <1>4 DEF N
  <2> QED BY <1>2, <2>1, PageRows
<1> DEFINE row == page[2]
           cells == Cells(lines[1])
<1>6. cells \in Seq(Int)
  <2>1. lines[1] \in Texts
    BY <1>2
  <2> QED BY <2>1, TextCells
<1>7. row = prompt \o cells
  BY <1>5
<1> HIDE DEF N, K, page, cells, row
<1>8. PromptLen <= Len(row) /\ SubSeq(row, 1, PromptLen) = prompt
  BY <1>6, <1>7, PromptFirst
<1>9. IsScreen(s)
  <2>1. 1 + K \in 1 .. N + 1
    BY <1>2
  <2> QED BY <1>3, <1>5, <2>1 DEF IsScreen
<1>10. Ready(s, K - 1)
  <2>1. K - 1 \in Nat /\ 1 + K = (K - 1) + 2
    BY <1>2
  <2>2. s.rows[2] = row /\ s.rows[1] = Above
    BY <1>3, <1>5 DEF row
  <2> QED BY <1>3, <1>8, <2>1, <2>2 DEF Ready
<1> QED BY <1>2, <1>3, <1>9, <1>10 DEF lines, before, N, K, page, s

Bare == Screen(<<Above, Cells(Prompt)>>, 2, PromptLen)

LEMMA BareRows ==
  LET rows == <<Above, Cells(Prompt)>>
  IN rows \in Seq(Seq(Int)) /\ Len(rows) = 2 /\ rows[1] = Above /\ rows[2] = Cells(Prompt)
<1> DEFINE S == Seq(Int)
           a == Above
           b == Cells(Prompt)
<1>1. a \in S /\ b \in S
  BY PromptIsWide
<1> HIDE DEF S, a, b
<1>2. <<a, b>> \in Seq(S) /\ Len(<<a, b>>) = 2 /\ <<a, b>>[1] = a /\ <<a, b>>[2] = b
  BY <1>1
<1> QED BY <1>2 DEF S, a, b

(* A new prompt is ready, and nothing else is there after a fresh screen. *)
LEMMA PromptedIs ==
  ASSUME NEW s, IsScreen(s)
  PROVE  /\ IsScreen(Prompted(s)) /\ Ready(Prompted(s), 0)
         /\ Fresh(s) => Prompted(s) = Bare
<1> DEFINE rows == s.rows
           r == s.r
           z == Len(rows)
           tail == SubSeq(rows, r, z)
           head == <<Above>>
           all == head \o tail
           cells == Cells(Prompt)
           S == Seq(Int)
<1>1. rows \in Seq(S) /\ r \in 1 .. z /\ z \in Nat
  BY DEF IsScreen
<1> HIDE DEF rows, r
<1>2. r \in Nat /\ r >= 1 /\ r <= z
  BY <1>1
<1> HIDE DEF S, z
<1>3. /\ tail \in Seq(S) /\ Len(tail) = (IF r <= z THEN (z - r) + 1 ELSE 0)
      /\ \A i \in 1 .. (z - r) + 1 : tail[i] = rows[(r + i) - 1]
  <2>1. z <= Len(rows)
    BY <1>1 DEF z
  <2> QED BY <1>1, <1>2, <2>1, PartIs
<1> HIDE DEF tail
<1>4. Len(tail) = (z - r) + 1 /\ Len(tail) >= 1 /\ Len(tail) \in Nat
  BY <1>1, <1>2, <1>3
<1>5. tail[1] = rows[r]
  <2>1. 1 \in 1 .. (z - r) + 1 /\ (r + 1) - 1 = r
    BY <1>1, <1>2
  <2>2. tail[1] = rows[(r + 1) - 1]
    BY <1>3, <2>1
  <2> QED BY <2>1, <2>2
<1>6. head \in Seq(S) /\ Len(head) = 1 /\ head[1] = Above
  <2> DEFINE a == Above
  <2>1. a \in S
    BY PromptIsWide DEF S
  <2> HIDE DEF a
  <2>2. <<a>> \in Seq(S) /\ Len(<<a>>) = 1 /\ <<a>>[1] = a
    BY <2>1
  <2> QED BY <2>2 DEF a
<1> HIDE DEF head
<1>7. /\ all \in Seq(S) /\ Len(all) = Len(head) + Len(tail)
      /\ \A i \in 1 .. Len(head) : all[i] = head[i]
      /\ \A i \in 1 .. Len(tail) : all[Len(head) + i] = tail[i]
  <2>1. head \in Seq(S) /\ tail \in Seq(S)
    BY <1>3, <1>6
  <2> QED BY ONLY <2>1, ConcatIs
<1> HIDE DEF all
<1>8. Len(all) = 1 + Len(tail) /\ all[1] = Above /\ all[2] = rows[r] /\ 2 \in 1 .. Len(all)
  <2>1. 1 \in 1 .. Len(head) /\ 1 \in 1 .. Len(tail) /\ Len(head) + 1 = 2
    BY <1>4, <1>6
  <2>2. all[1] = head[1]
    BY <1>7, <2>1
  <2>3. all[Len(head) + 1] = tail[1]
    BY <1>7, <2>1
  <2>4. all[2] = tail[1]
    BY <2>1, <2>3
  <2>5. Len(all) = 1 + Len(tail)
    BY <1>6, <1>7
  <2> QED BY <1>4, <1>5, <1>6, <2>2, <2>4, <2>5
<1>9. Prompt \in Seq(Printable)
  BY TextsArePrintable
<1>10. PICK rest \in Seq(Int) :
          /\ Put(Screen(all, 2, 0), Prompt) =
               Screen([all EXCEPT ![2] = cells \o rest], 2, WidthOf(Prompt))
          /\ Len(all[2]) <= WidthOf(Prompt) => rest = <<>>
  BY <1>7, <1>8, <1>9, PutAtBegin DEF S
<1> DEFINE row == cells \o rest
           new == [all EXCEPT ![2] = row]
           t == Prompted(s)
<1>11. t = Screen(new, 2, PromptLen)
  BY <1>10 DEF Prompted, PromptLen, all, head, tail, z, rows, r
<1>12. row \in S /\ PromptLen <= Len(row) /\ SubSeq(row, 1, PromptLen) = cells
  BY PromptFirst DEF S
<1> HIDE DEF row
<1>13. /\ new \in Seq(S) /\ Len(new) = Len(all) /\ new[2] = row
       /\ \A i \in 1 .. Len(all) : i # 2 => new[i] = all[i]
  <2> DEFINE k == 2
  <2>1. all \in Seq(Seq(Int)) /\ row \in Seq(Int) /\ k \in 1 .. Len(all)
    BY <1>7, <1>8, <1>12 DEF S
  <2> HIDE DEF k
  <2>2. /\ [all EXCEPT ![k] = row] \in Seq(Seq(Int))
        /\ Len([all EXCEPT ![k] = row]) = Len(all)
        /\ [all EXCEPT ![k] = row][k] = row
        /\ \A i \in 1 .. Len(all) : i # k => [all EXCEPT ![k] = row][i] = all[i]
    BY ONLY <2>1, RowStored
  <2> QED BY <2>2 DEF S, k
<1> HIDE DEF new, t
<1>14. t.rows = new /\ t.r = 2
  BY <1>11 DEF Screen
<1>15. new[1] = Above /\ 1 \in 1 .. Len(all)
  <2>1. 1 \in 1 .. Len(all)
    BY <1>4, <1>8
  <2>2. new[1] = all[1]
    BY <1>13, <2>1
  <2> QED BY <1>8, <2>1, <2>2
<1>16. IsScreen(t)
  BY <1>8, <1>13, <1>14 DEF IsScreen, S
<1>17. Ready(t, 0)
  BY <1>12, <1>13, <1>14, <1>15 DEF Ready, cells
<1>18. ASSUME Fresh(s) PROVE t = Bare
  <2>1. r = z /\ Len(rows[r]) <= PromptLen
    BY <1>18 DEF Fresh, rows, r, z
  <2>2. Len(all) = 2
    BY <1>1, <1>4, <1>8, <2>1
  <2>3. rest = <<>>
    <3>1. Len(all[2]) <= WidthOf(Prompt)
      BY <1>8, <2>1 DEF PromptLen
    <3> QED BY <1>10, <3>1
  <2>4. row = cells
    <3>1. cells \in Seq(Int)
      BY PromptIsWide
    <3> HIDE DEF cells
    <3>2. cells \o <<>> = cells
      BY <3>1, NothingAdded
    <3> QED BY <2>3, <3>2 DEF row
  <2> DEFINE bare == <<Above, cells>>
  <2>5. bare \in Seq(S) /\ Len(bare) = 2 /\ bare[1] = Above /\ bare[2] = cells
    BY BareRows DEF S
  <2> HIDE DEF bare
  <2>6. ASSUME NEW i \in 1 .. Len(new) PROVE new[i] = bare[i]
    <3>1. i = 1 \/ i = 2
      BY <1>13, <2>2
    <3> QED BY <1>13, <1>15, <2>4, <2>5, <3>1
  <2>7. new = bare
    BY <1>13, <2>2, <2>5, <2>6, SameSeq
  <2> QED BY <1>11, <2>7 DEF Bare, bare
<1> QED BY <1>16, <1>17, <1>18 DEF t

(* What shows no text. *)
LEMMA ShownEmpty == ShownOf(EmptyBuffer) = Bare
<1> DEFINE none == <<>>
           lines == <<none>>
           page == Page(lines, 1)
           prompt == Cells(Prompt)
           bare == <<Above, prompt>>
<1>1. none \in Texts /\ none \in Seq(Int) /\ none \in Seq(Printable)
  BY DEF Texts
<1>2. EmptyBuffer.content = none /\ EmptyBuffer.cursor = 0
  BY DEF EmptyBuffer, Buffer
<1>3. SubSeq(none, 1, 0) = none
  <2>1. SubSeq(none, 1, 0) \in Seq(Int) /\ Len(SubSeq(none, 1, 0)) = 0
    BY <1>1, PartIs
  <2> QED BY <2>1, EmptySeq
<1>4. SplitLines(none) = lines
  BY LinesGrow
<1>5. WidthOf(none) = 0 /\ Cells(none) = none
  BY WidthGrows, CellsGrow
<1> HIDE DEF none
<1>6. lines \in Seq(Texts) /\ Len(lines) = 1 /\ lines[1] = none
  BY <1>1
<1>7. Last(lines) = none
  BY <1>6 DEF Last
<1> HIDE DEF lines
<1>8. /\ page \in Seq(Seq(Int)) /\ Len(page) = 1 + 1 /\ page[1] = Above
      /\ page[2] = prompt \o Cells(lines[1])
  <2>1. 1 \in 1 .. Len(lines)
    BY <1>6
  <2> QED BY <1>6, <2>1, PageRows
<1>9. bare \in Seq(Seq(Int)) /\ Len(bare) = 2 /\ bare[1] = Above /\ bare[2] = prompt
  BY BareRows
<1>10. prompt \in Seq(Int) /\ PromptLen \in Nat
  BY PromptIsWide
<1> HIDE DEF prompt, page
<1>11. prompt \o Cells(lines[1]) = prompt
  <2>1. prompt \o <<>> = prompt
    BY <1>10, NothingAdded
  <2> QED BY <1>5, <1>6, <2>1 DEF none
<1>12. page[2] = prompt
  BY <1>8, <1>11
<1> HIDE DEF bare
<1>13. page = bare
  <2>1. ASSUME NEW i \in 1 .. Len(page) PROVE page[i] = bare[i]
    <3>1. i = 1 \/ i = 2
      BY <1>8
    <3> QED BY <1>8, <1>9, <1>12, <3>1
  <2>2. Len(page) = Len(bare)
    BY <1>8, <1>9
  <2> QED BY <1>8, <1>9, <2>1, <2>2, SameRows
<1>14. ShownOf(EmptyBuffer) = Screen(Page(lines, Len(lines)), 1 + Len(lines),
                                    PromptLen + WidthOf(Last(lines)))
  BY <1>2, <1>3, <1>4 DEF ShownOf
<1>15. ShownOf(EmptyBuffer) = Screen(page, 2, PromptLen)
  <2>1. PromptLen + 0 = PromptLen /\ 1 + 1 = 2
    BY <1>10
  <2>2. PromptLen + WidthOf(Last(lines)) = PromptLen
    BY <1>5, <1>7, <2>1
  <2>3. 1 + Len(lines) = 2
    BY <1>6
  <2>4. Page(lines, Len(lines)) = page
    BY <1>6 DEF page
  <2> QED BY <1>14, <2>2, <2>3, <2>4
<1> QED BY <1>13, <1>15 DEF Bare, bare, prompt

LEMMA MaxOfBoth == \A m, n \in Nat : m <= n => Max({m, n}) = n
<1> SUFFICES ASSUME NEW m \in Nat, NEW n \in Nat, m <= n PROVE Max({m, n}) = n
  OBVIOUS
<1>1. Max({m, n}) = IF m < n THEN n ELSE m
  BY MaxOfTwo
<1> QED BY <1>1

(* A drawing shows the buffer, with the cursor in its place, when editing  *)
(* goes on; when the line is finished it leaves the cursor in a new row.   *)
LEMMA DrawnIs ==
  ASSUME IsMultiline, NEW b \in Buffers, IsScreen(screen), Ready(screen, cursorLine), NEW why
  PROVE  LET drawn == Drawn(b, why)
         IN /\ why = "Continue" =>
                 /\ drawn.screen = ShownOf(b)
                 /\ drawn.line = Len(SplitLines(SubSeq(b.content, 1, b.cursor))) - 1
            /\ why # "Continue" => IsScreen(drawn.screen)
            /\ why = "Finished" => Fresh(drawn.screen)
<1> DEFINE lines == SplitLines(b.content)
           head == SubSeq(b.content, 1, b.cursor)
           before == SplitLines(head)
           N == Len(lines)
           K == Len(before)
           page == Page(lines, N)
           start == [screen |-> Cleared(screen), count |-> 0, line |-> 0,
                     found |-> FALSE, cursor |-> WidthOf(head), row |-> 0, col |-> 0]
           d == DrawLines(start, lines)
           drawn == Drawn(b, why)
<1>1. PICK front \in Seq(Texts), last \in Texts :
              /\ SplitLines(head) = Append(front, last)
              /\ Len(SplitLines(head)) = Len(front) + 1 /\ Last(SplitLines(head)) = last
              /\ WidthOf(head) = Spans(front) + WidthOf(last)
              /\ lines \in Seq(Texts) /\ GoesOn(lines, front, last)
  BY BufferLines
<1>2. drawn = CASE ~IsMultiline -> drawn
                [] IsMultiline /\ why = "Continue" ->
                     [screen |-> ToColumn(IF d.row = d.line THEN d.screen
                                          ELSE MoveUpRows(d.screen, d.line - d.row), d.col),
                      line |-> d.row]
                [] IsMultiline /\ why = "ControlBreak" -> [screen |-> d.screen, line |-> d.line]
                [] OTHER -> [screen |-> LineBreak(d.screen), line |-> d.line]
  <2> HIDE DEF lines, head
  <2>1. CASE why = "Continue"
    <3>1. drawn = [screen |-> ToColumn(IF d.row = d.line THEN d.screen
                                       ELSE MoveUpRows(d.screen, d.line - d.row), d.col),
                   line |-> d.row]
      BY <2>1, IsMultiline DEF Drawn, head, lines
    <3> HIDE DEF d, drawn
    <3> QED BY <2>1, <3>1, IsMultiline
  <2>2. CASE why = "ControlBreak"
    <3>1. drawn = [screen |-> d.screen, line |-> d.line]
      BY <2>2, IsMultiline DEF Drawn, head, lines
    <3> HIDE DEF d, drawn
    <3> QED BY <2>2, <3>1, IsMultiline
  <2>3. CASE why # "Continue" /\ why # "ControlBreak"
    <3>1. drawn = [screen |-> LineBreak(d.screen), line |-> d.line]
      BY <2>3, IsMultiline DEF Drawn, head, lines
    <3> HIDE DEF d, drawn
    <3> QED BY <2>3, <3>1, IsMultiline
  <2> QED BY <2>1, <2>2, <2>3
<1> HIDE DEF head, lines
<1>3. K \in 1 .. N /\ N \in Nat /\ lines \in Seq(Texts)
  <2>1. Len(front) \in Nat /\ N \in Nat /\ Len(front) < N
    BY <1>1 DEF GoesOn
  <2> QED BY <1>1, <2>1
<1>4. start = StartOf(Spans(front) + WidthOf(last))
  <2>1. Cleared(screen) = Screen(<<Above, Cells(Prompt)>>, 2, PromptLen)
    BY ClearedIs
  <2> QED BY <1>1, <2>1 DEF StartOf
<1>5. d = DrawnTo(lines, K, Spans(front) + WidthOf(last), last, N)
  <2>1. DrawLines(StartOf(Spans(front) + WidthOf(last)), lines)
          = DrawnTo(lines, Len(front) + 1, Spans(front) + WidthOf(last), last, Len(lines))
    BY <1>1, DrawLinesIs
  <2> QED BY <1>1, <1>4, <2>1
<1> DEFINE c == PromptLen + WidthOf(lines[N])
           col == PromptLen + WidthOf(last)
<1> HIDE DEF drawn, d, start
<1>6. /\ d.screen = Screen(page, N + 1, c) /\ d.line = N - 1
      /\ d.row = K - 1 /\ d.col = col
  <2>1. (N >= K) = TRUE
    BY <1>3
  <2> HIDE DEF N, K
  <2>2. d.screen = Screen(Page(lines, N), N + 1, PromptLen + WidthOf(lines[N]))
        /\ d.line = N - 1
    BY <1>5 DEF DrawnTo
  <2>3. d.row = IF N >= K THEN K - 1 ELSE 0
    BY <1>5 DEF DrawnTo
  <2>4. d.col = IF N >= K THEN PromptLen + WidthOf(last) ELSE 0
    BY <1>5 DEF DrawnTo
  <2> QED BY <2>1, <2>2, <2>3, <2>4
<1>7. page \in Seq(Seq(Int)) /\ Len(page) = N + 1
  <2>1. N \in 1 .. Len(lines)
    BY <1>3
  <2> QED BY <1>3, <2>1, PageRows
<1>8. ShownOf(b) = Screen(page, 1 + K, col)
  BY <1>1 DEF ShownOf, lines, head
<1> HIDE DEF N, K, c, col, page, before
<1> DEFINE s == d.screen
<1>9. s.rows = page /\ s.r = N + 1 /\ s.c = c
  BY <1>6 DEF Screen
<1> HIDE DEF s
<1>10. ASSUME why = "Continue"
       PROVE  drawn.screen = ShownOf(b) /\ drawn.line = K - 1
  <2> DEFINE up == IF d.row = d.line THEN d.screen ELSE MoveUpRows(d.screen, d.line - d.row)
  <2>1. drawn = [screen |-> ToColumn(up, d.col), line |-> d.row]
    BY <1>2, <1>10
  <2>2. up.rows = page /\ up.r = 1 + K
    <3>1. CASE K = N
      <4>1. up = s
        BY <1>6, <3>1 DEF s
      <4>2. N + 1 = 1 + K
        BY <1>3, <3>1
      <4> HIDE DEF up
      <4> QED BY <1>9, <4>1, <4>2
    <3>2. CASE K # N
      <4>1. d.row # d.line
        BY <1>3, <1>6, <3>2
      <4> DEFINE n == d.line - d.row
                 k == 1 + K
      <4>2. (N + 1) - n = k /\ k \in Nat /\ 1 <= k
        BY <1>3, <1>6
      <4> HIDE DEF k
      <4>3. Max({1, k}) = k
        BY <4>2, MaxOfBoth
      <4> HIDE DEF n
      <4>4. s.r - n = k
        BY <1>9, <4>2
      <4>5. MoveUpRows(s, n) = Screen(page, k, s.c)
        BY <1>9, <4>3, <4>4 DEF MoveUpRows
      <4>6. up = Screen(page, k, s.c)
        BY <4>1, <4>5 DEF s, n
      <4> HIDE DEF up
      <4> QED BY <4>6 DEF Screen, k
    <3> QED BY <3>1, <3>2
  <2> HIDE DEF up
  <2>3. ToColumn(up, d.col) = Screen(page, 1 + K, col)
    BY <1>6, <2>2 DEF ToColumn
  <2> QED BY <1>6, <1>8, <2>1, <2>3
<1>11. ASSUME why = "ControlBreak" PROVE IsScreen(drawn.screen)
  <2>1. drawn = [screen |-> d.screen, line |-> d.line]
    BY <1>2, <1>11
  <2>2. drawn.screen = s
    BY <2>1 DEF s
  <2>3. N + 1 \in 1 .. N + 1
    BY <1>3
  <2> QED BY <1>7, <1>9, <2>2, <2>3 DEF IsScreen
<1>12. ASSUME why # "Continue", why # "ControlBreak"
       PROVE  IsScreen(drawn.screen) /\ Fresh(drawn.screen)
  <2> DEFINE t == LineBreak(s)
             none == <<>>
             rows == Append(page, none)
             r == (N + 1) + 1
  <2>1. drawn = [screen |-> LineBreak(d.screen), line |-> d.line]
    BY <1>2, <1>12
  <2>2. drawn.screen = t
    BY <2>1 DEF s
  <2>3. NextRow(s) = Screen(rows, r, c)
    BY <1>7, <1>9 DEF NextRow
  <2>4. none \in Seq(Int) /\ Len(none) = 0
    OBVIOUS
  <2> HIDE DEF none
  <2>5. rows \in Seq(Seq(Int)) /\ Len(rows) = Len(page) + 1 /\ rows[Len(page) + 1] = none
    BY <1>7, <2>4, RowAppended
  <2> HIDE DEF rows
  <2>6. t.rows = rows /\ t.r = r
    BY <2>3 DEF LineBreak, ToColumn, Screen
  <2> HIDE DEF t
  <2>7. Len(rows) = r /\ rows[r] = none /\ r \in 1 .. r
    BY <1>3, <1>7, <2>5
  <2>8. PromptLen \in Nat
    BY PromptIsWide
  <2> HIDE DEF r
  <2>9. IsScreen(t)
    BY <2>5, <2>6, <2>7 DEF IsScreen
  <2>10. Fresh(t)
    BY <2>4, <2>6, <2>7, <2>8 DEF Fresh
  <2> QED BY <2>2, <2>9, <2>10
<1>13. why # "Continue" => IsScreen(drawn.screen)
  BY <1>11, <1>12
<1>14. why = "Finished" => Fresh(drawn.screen)
  BY <1>12
<1> QED BY <1>10, <1>13, <1>14 DEF drawn, K, before, head

(* A key that is not followed by a drawing changes nothing that is shown.  *)
LEMMA Undrawn ==
  ASSUME NEW decoded, ~Dispatched(decoded).redraw
  PROVE  Dispatched(decoded).state = "Continue" /\ Dispatched(decoded).buffer = buffer
<1> DEFINE Same(e) == ~e.redraw => e.state = "Continue" /\ e.buffer = buffer
<1>1. Same(Ignored)
  BY DEF Ignored, Now
<1>2. ASSUME NEW b PROVE Same(Edited(b))
  BY DEF Edited, Now
<1>3. ASSUME NEW why PROVE Same(Stopped(why))
  BY DEF Stopped, Now
<1>4. Same(HistoryPrevious)
  <2>1. HistoryPrevious = Ignored \/ HistoryPrevious.redraw
    BY DEF HistoryPrevious, Now
  <2> HIDE DEF Same
  <2>2. CASE HistoryPrevious = Ignored
    BY <1>1, <2>2
  <2>3. CASE HistoryPrevious.redraw
    BY <2>3 DEF Same
  <2> QED BY <2>1, <2>2, <2>3
<1>5. Same(HistoryNext)
  <2>1. HistoryNext = Ignored \/ HistoryNext.redraw
    BY DEF HistoryNext, Now
  <2> HIDE DEF Same
  <2>2. CASE HistoryNext = Ignored
    BY <1>1, <2>2
  <2>3. CASE HistoryNext.redraw
    BY <2>3 DEF Same
  <2> QED BY <2>1, <2>2, <2>3
<1> HIDE DEF Same
<1>6. ASSUME NEW key PROVE Same(ProcessKey(key))
  BY <1>1, <1>2, <1>4, <1>5 DEF ProcessKey
<1>7. ASSUME NEW key PROVE Same(ProcessAltKey(key))
  BY <1>1, <1>2 DEF ProcessAltKey
<1>8. ASSUME NEW char PROVE Same(ProcessAltChar(char))
  BY <1>1, <1>2 DEF ProcessAltChar
<1>9. ASSUME NEW char PROVE Same(ProcessCtrlChar(char))
  BY <1>1, <1>2, <1>3, <1>4, <1>5 DEF ProcessCtrlChar
<1>10. ASSUME NEW key, NEW char PROVE Same(ProcessPlain(key, char))
  BY <1>2, <1>3, <1>6 DEF ProcessPlain, ProcessEnter
<1>11. Same(Dispatched(decoded))
  BY <1>1, <1>7, <1>8, <1>9, <1>10 DEF Dispatched
<1> QED BY <1>11 DEF Same

(* What is known of the screen: while keys are awaited or processed it     *)
(* begins with the prompt, cursorLine rows above the cursor, and shows the *)
(* buffer unless a line given up remains there; once a line was entered    *)
(* the cursor is in the last row, and nothing stands behind the prompt.    *)
ScreenInv ==
  /\ IsScreen(screen)
  /\ pc \in {"process", "read", "idle"} => Ready(screen, cursorLine)
  /\ pc \in {"read", "finish"} /\ state = "Finished" => Fresh(screen)
  /\ pc \in {"process", "read", "idle"} /\ ~remains => screen = ShownOf(buffer)

LEMMA WaitingIs == Waiting \in {"idle", "read"} /\ Resumes \in {"process", "read"}
  BY DEF Waiting, Resumes

LEMMA BareIs == IsScreen(Bare) /\ Ready(Bare, 0) /\ Fresh(Bare)
<1> DEFINE rows == <<Above, Cells(Prompt)>>
           b == Bare
<1>1. /\ rows \in Seq(Seq(Int)) /\ Len(rows) = 2 /\ rows[1] = Above
      /\ rows[2] = Cells(Prompt)
  BY BareRows
<1> HIDE DEF rows
<1>2. b.rows = rows /\ b.r = 2
  BY DEF Bare, Screen, rows
<1>3. /\ Cells(Prompt) \in Seq(Int) /\ Len(Cells(Prompt)) = PromptLen /\ PromptLen \in Nat
  BY PromptIsWide
<1>4. SubSeq(Cells(Prompt), 1, PromptLen) = Cells(Prompt)
  BY <1>3, AllLeft
<1> HIDE DEF b
<1>5. IsScreen(b)
  <2>1. 2 \in 1 .. Len(rows)
    BY <1>1
  <2> QED BY <1>1, <1>2, <2>1 DEF IsScreen
<1>6. Fresh(b)
  BY <1>1, <1>2, <1>3 DEF Fresh
<1>7. Ready(b, 0)
  BY <1>1, <1>2, <1>3, <1>4 DEF Ready
<1> QED BY <1>5, <1>6, <1>7 DEF b

(* The screen of a program that starts. *)
LEMMA FirstPrompt == Prompted(Screen(<<Above, <<>>>>, 2, 0)) = Bare
<1> DEFINE a == Above
           none == <<>>
           rows == <<a, none>>
           s == Screen(rows, 2, 0)
           S == Seq(Int)
<1>1. a \in S /\ none \in S /\ Len(none) = 0
  BY PromptIsWide
<1> HIDE DEF a, none, S
<1>2. rows \in Seq(S) /\ Len(rows) = 2 /\ rows[2] = none
  BY <1>1
<1> HIDE DEF rows
<1>3. s.rows = rows /\ s.r = 2
  BY DEF Screen
<1> HIDE DEF s
<1>4. PromptLen \in Nat
  BY PromptIsWide
<1>5. IsScreen(s)
  <2>1. 2 \in 1 .. Len(rows)
    BY <1>2
  <2>2. rows \in Seq(Seq(Int))
    BY <1>2 DEF S
  <2> QED BY <1>3, <2>1, <2>2 DEF IsScreen
<1>6. Fresh(s)
  BY <1>1, <1>2, <1>3, <1>4 DEF Fresh
<1>7. Prompted(s) = Bare
  BY <1>5, <1>6, PromptedIs
<1> QED BY <1>7 DEF s, rows, a, none

LEMMA InitScreen ==
  ASSUME Init
  PROVE  ScreenInv
<1>1. screen = Bare /\ cursorLine = 0 /\ buffer = EmptyBuffer
  BY FirstPrompt DEF Init
<1>2. state = "NeedMoreInputData"
  BY DEF Init
<1> QED BY <1>1, <1>2, BareIs, ShownEmpty DEF ScreenInv

LEMMA ProcessScreen ==
  ASSUME EditLineInv, EditLineInv', ScreenInv, IsMultiline, ProcessInput
  PROVE  ScreenInv'
<1>1. PICK decoded :
        /\ pc = "process"
        /\ \E e \in {Dispatched(decoded)} :
             /\ buffer' = e.buffer
             /\ state' = e.state
             /\ pc' = IF e.state = "Continue" THEN "process" ELSE "finish"
             /\ IF e.redraw THEN Redraw(e)
                ELSE UNCHANGED <<screen, cursorLine, continueNl, remains>>
  BY Zenon DEF ProcessInput
<1> DEFINE e == Dispatched(decoded)
<1>2. /\ buffer' = e.buffer /\ state' = e.state
      /\ pc' = (IF e.state = "Continue" THEN "process" ELSE "finish")
      /\ (IF e.redraw THEN Redraw(e) ELSE UNCHANGED <<screen, cursorLine, continueNl, remains>>)
  BY <1>1, Zenon
<1>3. ~e.redraw => e.state = "Continue" /\ e.buffer = buffer
  BY Undrawn
<1> HIDE DEF e
<1>4. IsScreen(screen) /\ Ready(screen, cursorLine)
      /\ (~remains => screen = ShownOf(buffer))
  BY <1>1 DEF ScreenInv
<1>5. buffer' \in Buffers
  BY DEF EditLineInv, EditorOK
<1>6. CASE ~e.redraw
  <2>1. /\ screen' = screen /\ cursorLine' = cursorLine /\ remains' = remains
        /\ buffer' = buffer /\ pc' = "process"
    BY <1>2, <1>3, <1>6
  <2> QED BY <1>4, <2>1 DEF ScreenInv
<1>7. CASE e.redraw
  <2> DEFINE b == e.buffer
             why == e.state
             drawn == Drawn(b, why)
             K == Len(SplitLines(SubSeq(b.content, 1, b.cursor)))
  <2>1. Redraw(e)
    BY <1>2, <1>7
  <2>2. screen' = drawn.screen /\ cursorLine' = drawn.line /\ remains' = FALSE
    BY <2>1, Zenon DEF Redraw
  <2>3. b \in Buffers
    BY <1>2, <1>5
  <2> HIDE DEF b, why
  <2>4. /\ why = "Continue" => drawn.screen = ShownOf(b) /\ drawn.line = K - 1
        /\ why # "Continue" => IsScreen(drawn.screen)
        /\ why = "Finished" => Fresh(drawn.screen)
    BY <1>4, <2>3, DrawnIs
  <2>5. IsScreen(ShownOf(b)) /\ Ready(ShownOf(b), K - 1)
    BY <2>3, ShownParts
  <2> HIDE DEF drawn, K
  <2>6. buffer' = b /\ state' = why
        /\ pc' = IF why = "Continue" THEN "process" ELSE "finish"
    BY <1>2 DEF b, why
  <2>7. CASE why = "Continue"
    <3>1. screen' = ShownOf(b) /\ cursorLine' = K - 1 /\ pc' = "process" /\ buffer' = b
      BY <2>2, <2>4, <2>6, <2>7
    <3> QED BY <2>5, <3>1 DEF ScreenInv
  <2>8. CASE why # "Continue"
    <3>1. IsScreen(screen') /\ pc' = "finish" /\ (state' = "Finished" => Fresh(screen'))
      BY <2>2, <2>4, <2>6, <2>8
    <3> QED BY <3>1 DEF ScreenInv
  <2> QED BY <2>7, <2>8
<1> QED BY <1>6, <1>7

LEMMA ScreenStep ==
  ASSUME EditLineInv, EditLineInv', ScreenInv, IsMultiline, [Next]_vars
  PROVE  ScreenInv'
<1>1. CASE Type
  <2>1. /\ pc' = pc /\ state' = state /\ buffer' = buffer /\ cursorLine' = cursorLine
        /\ screen' = screen /\ remains' = remains
    BY <1>1 DEF Type
  <2> QED BY <2>1 DEF ScreenInv
<1>2. CASE HangUp
  <2>1. /\ pc' = pc /\ state' = state /\ buffer' = buffer /\ cursorLine' = cursorLine
        /\ screen' = screen /\ remains' = remains
    BY <1>2 DEF HangUp
  <2> QED BY <2>1 DEF ScreenInv
<1>3. CASE Receive
  <2>1. /\ pc = Waiting /\ pc' = "process" /\ state' = state /\ buffer' = buffer
        /\ cursorLine' = cursorLine /\ screen' = screen /\ remains' = remains
    BY <1>3 DEF Receive
  <2>2. pc \in {"process", "read", "idle"}
    BY <2>1, WaitingIs
  <2> QED BY <2>1, <2>2 DEF ScreenInv
<1>4. CASE ProcessInput
  BY <1>4, ProcessScreen
<1>5. CASE NeedMoreInput
  <2>1. /\ pc = "process" /\ pc' = Waiting /\ state' = "NeedMoreInputData" /\ buffer' = buffer
        /\ cursorLine' = cursorLine /\ screen' = screen /\ remains' = remains
    BY <1>5 DEF NeedMoreInput
  <2> QED BY <2>1 DEF ScreenInv
<1>6. CASE EndOfInput
  <2>1. /\ pc = "read" /\ pc' = "finish" /\ state' = state /\ screen' = screen
    BY <1>6 DEF EndOfInput
  <2> QED BY <2>1 DEF ScreenInv
<1>7. CASE NextLine
  <2>1. /\ pc = "finish" /\ screen' = Prompted(screen) /\ state' = state
        /\ remains' = (state # "Finished") /\ pc' = Resumes
    BY <1>7 DEF NextLine
  <2>2. buffer' = EmptyBuffer /\ cursorLine' = 0
    BY <1>7 DEF NextLine, StartInput
  <2>3. IsScreen(screen) /\ (state = "Finished" => Fresh(screen))
    BY <2>1 DEF ScreenInv
  <2>4. IsScreen(screen') /\ Ready(screen', 0)
        /\ (state = "Finished" => screen' = Bare)
    BY <2>1, <2>3, PromptedIs
  <2>5. state' = "Finished" => Fresh(screen')
    BY <2>1, <2>4, BareIs
  <2>6. ~remains' => screen' = ShownOf(buffer')
    BY <2>1, <2>2, <2>4, ShownEmpty
  <2>7. Ready(screen', cursorLine')
    BY <2>2, <2>4
  <2> QED BY <2>4, <2>5, <2>6, <2>7 DEF ScreenInv
<1>8. CASE Leave
  <2>1. pc' = "left" /\ screen' = screen
    BY <1>8 DEF Leave
  <2> QED BY <2>1 DEF ScreenInv
<1>9. CASE Restart
  <2>1. /\ screen' = Bare /\ state' = "NeedMoreInputData" /\ buffer' = EmptyBuffer
        /\ cursorLine' = 0
    BY <1>9, FirstPrompt DEF Restart, StartInput
  <2> QED BY <2>1, BareIs, ShownEmpty DEF ScreenInv
<1>10. CASE UNCHANGED vars
  <2>1. /\ pc' = pc /\ state' = state /\ buffer' = buffer /\ cursorLine' = cursorLine
        /\ screen' = screen /\ remains' = remains
    BY <1>10 DEF vars
  <2> QED BY <2>1 DEF ScreenInv
<1> QED BY <1>1, <1>2, <1>3, <1>4, <1>5, <1>6, <1>7, <1>8, <1>9, <1>10 DEF Next, Program

LEMMA ScreenShows ==
  ASSUME EditLineInv, ScreenInv
  PROVE  ShowsContent
<1> DEFINE lines == SplitLines(buffer.content)
           before == SplitLines(SubSeq(buffer.content, 1, buffer.cursor))
           Expected(i) == (IF i = 1 THEN Cells(Prompt) ELSE Padding(<<>>, PromptLen))
                            \o Cells(lines[i])
           N == Len(lines)
           K == Len(before)
           page == Page(lines, N)
<1> SUFFICES ASSUME pc \in {"process", "read", "idle"}, ~remains
             PROVE  /\ screen.rows[1] = Above
                    /\ Len(screen.rows) = 1 + Len(lines)
                    /\ \A i \in DOMAIN lines : Shown(screen.rows[i + 1]) = Shown(Expected(i))
                    /\ screen.r = 1 + Len(before)
                    /\ screen.c = PromptLen + WidthOf(Last(before))
  BY DEF ShowsContent
<1>1. screen = ShownOf(buffer) /\ buffer \in Buffers
  BY DEF ScreenInv, EditLineInv, EditorOK
<1>2. /\ N \in Nat /\ K \in 1 .. N /\ lines \in Seq(Texts)
      /\ screen.rows = page /\ screen.r = 1 + K
      /\ screen.c = PromptLen + WidthOf(Last(before))
  BY <1>1, ShownParts
<1> HIDE DEF lines, before
<1>3. N \in 1 .. N
  BY <1>2
<1>4. /\ Len(page) = N + 1 /\ page[1] = Above
      /\ page[2] = Cells(Prompt) \o Cells(lines[1])
      /\ \A i \in 2 .. N : page[i + 1] = Padding(<<>>, PromptLen) \o Cells(lines[i])
  <2>1. N \in 1 .. Len(lines)
    BY <1>3
  <2> HIDE DEF N
  <2> QED BY <1>2, <2>1, PageRows
<1>5. DOMAIN lines = 1 .. N
  BY <1>2
<1> HIDE DEF N, K, page
<1>6. ASSUME NEW i \in 1 .. N PROVE screen.rows[i + 1] = Expected(i)
  <2>1. CASE i = 1
    <3>1. i + 1 = 2
      BY <2>1
    <3>2. Expected(i) = Cells(Prompt) \o Cells(lines[1])
      BY <2>1
    <3> HIDE DEF Expected
    <3> QED BY <1>2, <1>4, <3>1, <3>2
  <2>2. CASE i # 1
    <3>1. i \in 2 .. N
      BY <1>2, <2>2
    <3>2. Expected(i) = Padding(<<>>, PromptLen) \o Cells(lines[i])
      BY <2>2
    <3> HIDE DEF Expected
    <3> QED BY <1>2, <1>4, <3>1, <3>2
  <2> QED BY <2>1, <2>2
<1>7. \A i \in DOMAIN lines : Shown(screen.rows[i + 1]) = Shown(Expected(i))
  BY <1>5, <1>6
<1>8. screen.rows[1] = Above /\ Len(screen.rows) = 1 + N
  BY <1>2, <1>4
<1> QED BY <1>2, <1>7, <1>8 DEF N, K

(* Whenever keys are awaited the terminal shows the prompt with the text   *)
(* that is edited, nothing else below, and the cursor in its place,        *)
(* however the text and its number of lines changed between two drawings   *)
(* (process_input, with m_cursor_line).                                    *)
THEOREM ContentShown ==
  ASSUME OrdinaryInput
  PROVE  Spec => []ShowsContent
<1> DEFINE Inv == EditLineInv /\ ScreenInv
<1>1. Init => Inv
  BY InitEditor, InitScreen
<1>2. Inv /\ [Next]_vars => Inv'
  BY EditorStep, ScreenStep DEF OrdinaryInput
<1>3. Inv => ShowsContent
  BY ScreenShows
<1> HIDE DEF Inv
<1> QED BY <1>1, <1>2, <1>3, PTL DEF Spec
=============================================================================
