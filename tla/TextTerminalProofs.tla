------------------------- MODULE TextTerminalProofs -------------------------
(***************************************************************************)
(* Theorems about the terminal, for any flags and values of attributes,    *)
(* any texts and pages of any size.  Lines hold attributes as changes      *)
(* against what precedes them; the first theorems say that the changes     *)
(* terminal::Line writes have the effect they should, the next ones are    *)
(* about types and pages, and the last one is that TextTerminal implements *)
(* Screen.                                                                 *)
(***************************************************************************)
EXTENDS TextTerminal, SequenceTheorems, WellFoundedInduction, TLAPS

(* Who reads the change after `other' has `attr' in effect.                *)
THEOREM ChangeTakesEffect ==
  ASSUME NEW attr \in Attributes, NEW other \in Attributes
  PROVE  Effective(Decoded(other, PrecededBy(attr, other))) = Effective(attr)
<1> DEFINE change == PrecededBy(attr, other)
           read == Decoded(other, change)
<1>1. ASSUME NEW f \in Flags
      PROVE  (IF read[f] = Unset THEN Default ELSE read[f])
               = (IF attr[f] = Unset THEN Default ELSE attr[f])
  <2>1. change[f] = CASE attr[f] = other[f] -> Unset
                      [] attr[f] = Unset /\ other[f] \notin {Unset, Default} -> Default
                      [] OTHER -> attr[f]
    BY DEF PrecededBy
  <2>2. read[f] = IF change[f] = Unset THEN other[f] ELSE change[f]
    BY DEF Decoded
  <2>3. CASE attr[f] = other[f]
    BY <2>1, <2>2, <2>3
  <2>4. CASE attr[f] # other[f] /\ attr[f] = Unset /\ other[f] # Default
    BY <2>1, <2>2, <2>4, ValuesAssumption
  <2>5. CASE attr[f] # other[f] /\ attr[f] = Unset /\ other[f] = Default
    BY <2>1, <2>2, <2>5
  <2>6. CASE attr[f] # other[f] /\ attr[f] # Unset
    BY <2>1, <2>2, <2>6
  <2> QED BY <2>3, <2>4, <2>5, <2>6
<1> QED BY <1>1 DEF Effective

(* add_text() and erase_text() write one change for the new cells and then *)
(* another for what follows them, although the first was cut down to what  *)
(* differs from `start'.  What follows has its attributes `end' in effect, *)
(* because every flag of `start' is also set in `end', which began as a    *)
(* copy of it and to which reading only added.                             *)
THEOREM RestoresWhatFollows ==
  ASSUME NEW attr \in Attributes, NEW start \in Attributes, NEW end \in Attributes,
         \A f \in Flags : start[f] # Unset => end[f] # Unset
  PROVE  LET change == PrecededBy(attr, start)
             before == Decoded(start, change)
         IN Effective(Decoded(before, PrecededBy(end, change))) = Effective(end)
<1> DEFINE change == PrecededBy(attr, start)
           before == Decoded(start, change)
           back == PrecededBy(end, change)
           read == Decoded(before, back)
<1>1. ASSUME NEW f \in Flags
      PROVE  (IF read[f] = Unset THEN Default ELSE read[f])
               = (IF end[f] = Unset THEN Default ELSE end[f])
  <2>1. change[f] = CASE attr[f] = start[f] -> Unset
                      [] attr[f] = Unset /\ start[f] \notin {Unset, Default} -> Default
                      [] OTHER -> attr[f]
    BY DEF PrecededBy
  <2>2. before[f] = IF change[f] = Unset THEN start[f] ELSE change[f]
    BY DEF Decoded
  <2>3. back[f] = CASE end[f] = change[f] -> Unset
                    [] end[f] = Unset /\ change[f] \notin {Unset, Default} -> Default
                    [] OTHER -> end[f]
    BY DEF PrecededBy
  <2>4. read[f] = IF back[f] = Unset THEN before[f] ELSE back[f]
    BY DEF Decoded
  <2>5. CASE change[f] = Unset /\ end[f] = Unset
    <3>1. start[f] = Unset
      BY <2>5
    <3> QED BY <3>1, <2>2, <2>3, <2>4, <2>5
  <2>6. CASE change[f] = Unset /\ end[f] # Unset
    BY <2>2, <2>3, <2>4, <2>6
  <2>7. CASE change[f] # Unset
    <3>1. before[f] = change[f]
      BY <2>2, <2>7
    <3>2. CASE end[f] = change[f]
      BY <3>1, <3>2, <2>3, <2>4
    <3>3. CASE end[f] # change[f] /\ end[f] = Unset /\ change[f] # Default
      BY <3>1, <3>3, <2>3, <2>4, ValuesAssumption
    <3>4. CASE end[f] # change[f] /\ end[f] = Unset /\ change[f] = Default
      BY <3>1, <3>4, <2>3, <2>4, ValuesAssumption
    <3>5. CASE end[f] # change[f] /\ end[f] # Unset
      BY <3>5, <2>3, <2>4
    <3> QED BY <3>2, <3>3, <3>4, <3>5
  <2> QED BY <2>5, <2>6, <2>7
<1>2. Effective(read) = Effective(end)
  BY <1>1 DEF Effective
<1> QED BY <1>2

-----------------------------------------------------------------------------
(* Functions that are defined one number after the other.                  *)

LEMMA LeastOf ==
  ASSUME NEW A \in SUBSET Nat, A # {}
  PROVE  \E n \in A : \A m \in A : n <= m
<1> DEFINE Less == OpToRel(<, Nat)
<1>1. IsWellFoundedOn(Less, Nat)
  BY NatLessThanWellFounded
<1>2. \A m, n \in Nat : <<m, n>> \in Less <=> m < n
  BY DEF OpToRel
<1> HIDE DEF Less
<1>3. PICK n \in A : \A m \in A : <<m, n>> \notin Less
  BY <1>1, WFMin
<1>4. ASSUME NEW m \in A PROVE n <= m
  <2>1. ~(m < n)
    BY <1>2, <1>3
  <2> QED BY <2>1
<1> QED BY <1>4

LEMMA StaysIn ==
  ASSUME NEW N \in Nat, NEW S, NEW f, f[0] \in S,
         \A n \in 1 .. N : f[n - 1] \in S => f[n] \in S
  PROVE  \A n \in 0 .. N : f[n] \in S
<1> DEFINE Outside == {n \in 0 .. N : f[n] \notin S}
<1>1. Outside = {}
  <2> SUFFICES ASSUME Outside # {} PROVE FALSE
    OBVIOUS
  <2>1. PICK n \in Outside : \A m \in Outside : n <= m
    <3>1. Outside \in SUBSET Nat
      OBVIOUS
    <3> HIDE DEF Outside
    <3> QED BY <3>1, LeastOf
  <2>2. n \in 1 .. N /\ f[n] \notin S
    BY <2>1
  <2>3. n - 1 \in 0 .. N /\ ~(n <= n - 1)
    BY <2>2
  <2>4. f[n - 1] \in S
    BY <2>1, <2>3
  <2> QED BY <2>2, <2>4
<1> QED BY <1>1

Builds(f, N, v, step) ==
  f[0] = v /\ \A n \in 1 .. N : f[n] = step[n][f[n - 1]]

LEMMA Recursion ==
  ASSUME NEW N \in Nat, NEW S, NEW v \in S, NEW step \in [1 .. N -> [S -> S]]
  PROVE  \E f \in [0 .. N -> S] : Builds(f, N, v, step)
<1> DEFINE UpTo(n, f) == /\ f \in [0 .. n -> S]
                         /\ f[0] = v
                         /\ \A m \in 1 .. n : f[m] = step[m][f[m - 1]]
           Missing == {n \in 0 .. N : ~\E f : UpTo(n, f)}
<1>1. \E f : UpTo(0, f)
  <2>1. UpTo(0, [n \in 0 .. 0 |-> v])
    OBVIOUS
  <2> QED BY <2>1
<1>2. ASSUME NEW n \in 1 .. N, NEW f, UpTo(n - 1, f)
      PROVE  \E g : UpTo(n, g)
  <2> DEFINE g == [m \in 0 .. n |-> IF m = n THEN step[n][f[n - 1]] ELSE f[m]]
  <2>1. f[n - 1] \in S /\ step[n] \in [S -> S]
    BY <1>2
  <2>2. g \in [0 .. n -> S]
    BY <1>2, <2>1
  <2>3. ASSUME NEW m \in 1 .. n PROVE g[m] = step[m][g[m - 1]]
    <3>1. g[m - 1] = f[m - 1]
      OBVIOUS
    <3>2. CASE m = n
      BY <3>1, <3>2
    <3>3. CASE m # n
      <4>1. m \in 1 .. n - 1
        BY <3>3
      <4> QED BY <4>1, <3>1, <3>3, <1>2
    <3> QED BY <3>2, <3>3
  <2>4. g[0] = v
    BY <1>2
  <2>5. UpTo(n, g)
    BY <2>2, <2>3, <2>4
  <2> QED BY <2>5
<1>3. Missing = {}
  <2> SUFFICES ASSUME Missing # {} PROVE FALSE
    OBVIOUS
  <2> HIDE DEF UpTo
  <2>1. PICK n \in Missing : \A m \in Missing : n <= m
    <3>1. Missing \in SUBSET Nat
      OBVIOUS
    <3> HIDE DEF Missing
    <3> QED BY <3>1, LeastOf
  <2>2. n \in 1 .. N /\ ~\E f : UpTo(n, f)
    BY <2>1, <1>1
  <2>3. n - 1 \in 0 .. N /\ ~(n <= n - 1)
    BY <2>2
  <2>4. PICK f : UpTo(n - 1, f)
    BY <2>1, <2>3
  <2> QED BY <2>2, <2>4, <1>2
<1>4. PICK f : UpTo(N, f)
  <2> HIDE DEF UpTo
  <2> QED BY <1>3
<1> QED BY <1>4 DEF Builds

-----------------------------------------------------------------------------
(* Tokens.  Runs have at least `low' blanks: 1, if lines are narrow enough *)
(* that the length of a run fits in a byte.                                *)

TokensOf(low) ==
  {Attr(attr) : attr \in Attributes \ {NoAttributes}}
    \cup {Blanks(n) : n \in low .. MaxBlanks}
    \cup {Char(c) : c \in Characters}

LinesOf(low) == [content : Seq(TokensOf(low)), blank : BOOLEAN, page : BOOLEAN]

LEMMA TokenKinds ==
  ASSUME NEW low \in {0, 1}, NEW t \in TokensOf(low)
  PROVE  /\ CellsOf(t) \in Nat
         /\ \/ t.kind = "attr" /\ t.attr \in Attributes /\ CellsOf(t) = 0
            \/ t.kind = "blanks" /\ t.num \in low .. MaxBlanks /\ CellsOf(t) = t.num
            \/ t.kind = "char" /\ t.char \in Characters /\ CellsOf(t) \in 1 .. 2
<1>1. ASSUME NEW attr \in Attributes, t = Attr(attr)
      PROVE  t.kind = "attr" /\ t.attr \in Attributes /\ CellsOf(t) = 0
  BY <1>1 DEF Attr, CellsOf
<1>2. ASSUME NEW n \in low .. MaxBlanks, t = Blanks(n)
      PROVE  t.kind = "blanks" /\ t.num \in low .. MaxBlanks /\ CellsOf(t) = t.num
  BY <1>2 DEF Blanks, CellsOf
<1>3. ASSUME NEW c \in Characters, t = Char(c)
      PROVE  t.kind = "char" /\ t.char \in Characters /\ CellsOf(t) \in 1 .. 2
  BY <1>3 DEF Char, CellsOf, CharWidth
<1>4. \/ \E attr \in Attributes : t = Attr(attr)
      \/ \E n \in low .. MaxBlanks : t = Blanks(n)
      \/ \E c \in Characters : t = Char(c)
  BY DEF TokensOf
<1>5. MaxBlanks \in Nat
  BY BlanksAssumption
<1> QED BY <1>1, <1>2, <1>3, <1>4, <1>5

LEMMA DecodedType ==
  ASSUME NEW attr \in Attributes, NEW read \in Attributes
  PROVE  Decoded(attr, read) \in Attributes
BY DEF Decoded, Attributes

LEMMA PrecededByType ==
  ASSUME NEW attr \in Attributes, NEW other \in Attributes
  PROVE  PrecededBy(attr, other) \in Attributes
<1>1. ASSUME NEW f \in Flags
      PROVE  (CASE attr[f] = other[f] -> Unset
                [] attr[f] = Unset /\ other[f] # Default -> Default
                [] OTHER -> attr[f]) \in Values \cup {Unset}
  BY ValuesAssumption DEF Attributes
<1> QED BY <1>1 DEF PrecededBy, Attributes

LEMMA NoAttributesType == NoAttributes \in Attributes
BY DEF NoAttributes, Attributes

LEMMA CellsCounted ==
  ASSUME NEW low \in {0, 1}, NEW tokens \in Seq(TokensOf(low))
  PROVE  /\ CellsBefore(tokens) \in [0 .. Len(tokens) -> Nat]
         /\ CellsBefore(tokens)[0] = 0
         /\ \A n \in 1 .. Len(tokens) :
               CellsBefore(tokens)[n] = CellsBefore(tokens)[n - 1] + CellsOf(tokens[n])
<1> DEFINE N == Len(tokens)
           Is(f) == f = [n \in 0 .. N |->
                           IF n = 0 THEN 0 ELSE f[n - 1] + CellsOf(tokens[n])]
           step == [n \in 1 .. N |-> [k \in Nat |-> k + CellsOf(tokens[n])]]
           f == CHOOSE f : Is(f)
<1>1. N \in Nat /\ \A n \in 1 .. N : CellsOf(tokens[n]) \in Nat
  BY TokenKinds
<1>2. step \in [1 .. N -> [Nat -> Nat]]
  BY <1>1
<1> HIDE DEF N
<1>3. \E g : Is(g)
  <2> HIDE DEF step
  <2>1. PICK g \in [0 .. N -> Nat] : Builds(g, N, 0, step)
    <3>1. 0 \in Nat
      OBVIOUS
    <3> QED BY <3>1, <1>1, <1>2, Recursion
  <2>2. ASSUME NEW n \in 1 .. N PROVE g[n] = g[n - 1] + CellsOf(tokens[n])
    <3>1. g[n - 1] \in Nat
      BY <1>1
    <3>2. step[n][g[n - 1]] = g[n - 1] + CellsOf(tokens[n])
      BY <3>1 DEF step
    <3> QED BY <2>1, <3>2 DEF Builds
  <2>3. ASSUME NEW n \in 0 .. N
        PROVE  g[n] = IF n = 0 THEN 0 ELSE g[n - 1] + CellsOf(tokens[n])
    BY <2>1, <2>2, <1>1 DEF Builds
  <2>4. Is(g)
    BY <2>3
  <2> QED BY <2>4
<1>4. Is(f)
  <2> HIDE DEF Is
  <2> QED BY <1>3
<1>5. f = CellsBefore(tokens)
  BY DEF CellsBefore, N
<1> HIDE DEF f
<1>6. DOMAIN f = 0 .. N /\ f[0] = 0 /\ \A n \in 1 .. N : f[n] = f[n - 1] + CellsOf(tokens[n])
  BY <1>4, <1>1
<1>7. \A n \in 0 .. N : f[n] \in Nat
  <2>1. f[0] \in Nat /\ \A n \in 1 .. N : f[n - 1] \in Nat => f[n] \in Nat
    BY <1>1, <1>6
  <2> QED BY <1>1, <2>1, StaysIn
<1>8. f \in [0 .. N -> Nat]
  BY <1>4, <1>6, <1>7
<1> QED BY <1>5, <1>6, <1>8 DEF N

LEMMA AttrsDecoded ==
  ASSUME NEW low \in {0, 1}, NEW tokens \in Seq(TokensOf(low)), NEW attr \in Attributes
  PROVE  /\ AttrsBefore(tokens, attr) \in [0 .. Len(tokens) -> Attributes]
         /\ AttrsBefore(tokens, attr)[0] = attr
         /\ \A n \in 1 .. Len(tokens) :
               AttrsBefore(tokens, attr)[n]
                 = IF tokens[n].kind = "attr"
                   THEN Decoded(AttrsBefore(tokens, attr)[n - 1], tokens[n].attr)
                   ELSE AttrsBefore(tokens, attr)[n - 1]
<1> DEFINE N == Len(tokens)
           After(n, a) == IF tokens[n].kind = "attr" THEN Decoded(a, tokens[n].attr) ELSE a
           Is(f) == f = [n \in 0 .. N |->
                           IF n = 0 THEN attr
                           ELSE IF tokens[n].kind = "attr"
                           THEN Decoded(f[n - 1], tokens[n].attr)
                           ELSE f[n - 1]]
           step == [n \in 1 .. N |-> [a \in Attributes |-> After(n, a)]]
           f == CHOOSE f : Is(f)
<1>1. N \in Nat /\ \A n \in 1 .. N : tokens[n] \in TokensOf(low)
  OBVIOUS
<1>2. ASSUME NEW n \in 1 .. N, NEW a \in Attributes PROVE After(n, a) \in Attributes
  <2>1. tokens[n].kind = "attr" => tokens[n].attr \in Attributes
    BY <1>1, TokenKinds
  <2> QED BY <2>1, DecodedType
<1>3. step \in [1 .. N -> [Attributes -> Attributes]]
  BY <1>2
<1> HIDE DEF N, After
<1>4. \E g : Is(g)
  <2> HIDE DEF step
  <2>1. PICK g \in [0 .. N -> Attributes] : Builds(g, N, attr, step)
    BY <1>1, <1>3, Recursion
  <2>2. ASSUME NEW n \in 1 .. N PROVE g[n] = After(n, g[n - 1])
    <3>1. g[n - 1] \in Attributes
      BY <1>1
    <3>2. step[n][g[n - 1]] = After(n, g[n - 1])
      BY <3>1 DEF step
    <3> QED BY <2>1, <3>2 DEF Builds
  <2>3. ASSUME NEW n \in 0 .. N
        PROVE  g[n] = IF n = 0 THEN attr
                      ELSE IF tokens[n].kind = "attr"
                      THEN Decoded(g[n - 1], tokens[n].attr)
                      ELSE g[n - 1]
    <3>1. CASE n = 0
      BY <2>1, <3>1 DEF Builds
    <3>2. CASE n # 0
      <4>1. n \in 1 .. N
        BY <3>2, <1>1
      <4> QED BY <4>1, <2>2, <3>2 DEF After
    <3> QED BY <3>1, <3>2
  <2>4. Is(g)
    BY <2>3
  <2> QED BY <2>4
<1>5. Is(f)
  <2> HIDE DEF Is
  <2> QED BY <1>4
<1>6. f = AttrsBefore(tokens, attr)
  BY DEF AttrsBefore, N
<1> HIDE DEF f
<1>7. DOMAIN f = 0 .. N /\ f[0] = attr
  BY <1>5, <1>1
<1>8. ASSUME NEW n \in 1 .. N PROVE f[n] = After(n, f[n - 1])
  <2>1. n \in 0 .. N /\ n # 0
    BY <1>1
  <2> QED BY <2>1, <1>5 DEF After
<1>9. \A n \in 0 .. N : f[n] \in Attributes
  <2>1. f[0] \in Attributes
    BY <1>7
  <2>2. \A n \in 1 .. N : f[n - 1] \in Attributes => f[n] \in Attributes
    BY <1>2, <1>8
  <2> QED BY <1>1, <2>1, <2>2, StaysIn
<1>10. f \in [0 .. N -> Attributes]
  BY <1>5, <1>7, <1>9
<1> QED BY <1>6, <1>7, <1>8, <1>10 DEF N, After

-----------------------------------------------------------------------------
(* Places                                                                  *)

LEMMA NumberFound ==
  ASSUME NEW stops, NEW length \in Nat, NEW n, n = NumberBefore(stops, length)
  PROVE  /\ n \in 0 .. length
         /\ \A i \in 1 .. n : i \notin stops
         /\ n = length \/ n + 1 \in stops
<1> DEFINE Is(k) == /\ \A i \in 1 .. k : i \notin stops
                    /\ k = length \/ k + 1 \in stops
           Ends == {k \in 0 .. length : k = length \/ k + 1 \in stops}
<1>1. PICK k \in Ends : \A m \in Ends : k <= m
  <2>1. Ends \in SUBSET Nat /\ length \in Ends
    OBVIOUS
  <2> HIDE DEF Ends
  <2> QED BY <2>1, LeastOf
<1>2. Is(k)
  <2>1. ASSUME NEW i \in 1 .. k, i \in stops PROVE FALSE
    <3>1. i - 1 \in Ends /\ ~(k <= i - 1)
      BY <2>1
    <3> QED BY <3>1, <1>1
  <2> QED BY <2>1
<1>3. \E m \in 0 .. length : Is(m)
  BY <1>2
<1>4. n = CHOOSE m \in 0 .. length : Is(m)
  BY DEF NumberBefore
<1> HIDE DEF Is
<1>5. n \in 0 .. length /\ Is(n)
  BY <1>3, <1>4
<1> QED BY <1>5 DEF Is

PlacesOf(low) ==
  [before : Seq(TokensOf(low)), attr : Attributes, after : Seq(TokensOf(low))]

LEMMA PassedType ==
  ASSUME NEW low \in {0, 1}, NEW place \in PlacesOf(low), NEW n \in 0 .. Len(place.after)
  PROVE  /\ Passed(place, n) \in PlacesOf(low)
         /\ Len(Passed(place, n).after) = Len(place.after) - n
<1> DEFINE T == TokensOf(low)
           tokens == place.after
<1>1. place.before \in Seq(T) /\ tokens \in Seq(T) /\ place.attr \in Attributes
  BY DEF PlacesOf
<1>2. AttrsBefore(tokens, place.attr)[n] \in Attributes
  BY <1>1, AttrsDecoded
<1> HIDE DEF T
<1>3. /\ SubSeq(tokens, 1, n) \in Seq(T)
      /\ SubSeq(tokens, n + 1, Len(tokens)) \in Seq(T)
      /\ Len(SubSeq(tokens, n + 1, Len(tokens))) = Len(tokens) - n
  BY <1>1
<1>4. place.before \o SubSeq(tokens, 1, n) \in Seq(T)
  BY <1>1, <1>3
<1> QED BY <1>2, <1>3, <1>4 DEF Passed, Place, PlacesOf, T

LEMMA PassAttributesType ==
  ASSUME NEW low \in {0, 1}, NEW place \in PlacesOf(low)
  PROVE  PassAttributes(place) \in PlacesOf(low)
<1> DEFINE others == {i \in DOMAIN place.after : place.after[i].kind # "attr"}
           n == NumberBefore(others, Len(place.after))
<1>1. Len(place.after) \in Nat
  BY DEF PlacesOf
<1>2. n \in 0 .. Len(place.after)
  BY <1>1, NumberFound
<1> QED BY <1>2, PassedType DEF PassAttributes

(* What was skipped is only kept where the blanks that fill up a line fit  *)
(* in one run.                                                             *)
LEMMA ContentSkipType ==
  ASSUME NEW low \in {0, 1}, NEW place \in PlacesOf(low), NEW num \in Nat
  PROVE  /\ ContentSkip(num, place).attr \in Attributes
         /\ ContentSkip(num, place).after \in Seq(TokensOf(low))
         /\ low = 0 \/ num <= MaxBlanks => ContentSkip(num, place) \in PlacesOf(low)
<1> DEFINE T == TokensOf(low)
           tokens == place.after
           Left(n) == num - CellsBefore(tokens)[n]
           stops == {i \in DOMAIN tokens :
                       \/ Left(i - 1) <= 0
                       \/ tokens[i].kind = "blanks" /\ ~Within(tokens[i].num, Left(i - 1))}
           n == NumberBefore(stops, Len(tokens))
           there == Passed(place, n)
           left == Left(n)
           skipped == ContentSkip(num, place)
<1>1. tokens \in Seq(T) /\ Len(tokens) \in Nat
  BY DEF PlacesOf
<1>2. /\ n \in 0 .. Len(tokens)
      /\ n = Len(tokens) \/ n + 1 \in stops
  <2> HIDE DEF stops
  <2> QED BY <1>1, NumberFound
<1>3. there \in PlacesOf(low) /\ Len(there.after) = Len(tokens) - n
  BY <1>2, PassedType
<1>4. CellsBefore(tokens)[n] \in Nat
  BY <1>1, <1>2, CellsCounted
<1>5. left \in Int /\ left <= num
  BY <1>4
<1>11. skipped =
         CASE left <= 0 -> there
           [] left > 0 /\ n = Len(tokens) ->
                [there EXCEPT !.before = Append(@, Blanks(left % (MaxBlanks + 1)))]
           [] OTHER ->
                Place(Append(there.before, Blanks(left)), there.attr,
                      <<Blanks(tokens[n + 1].num - left)>> \o Tail(there.after))
  BY DEF ContentSkip
<1>12. n + 1 \in stops =>
         /\ n + 1 \in DOMAIN tokens
         /\ \/ left <= 0
            \/ tokens[n + 1].kind = "blanks" /\ ~Within(tokens[n + 1].num, left)
  <2>1. n \in Int /\ n + 1 - 1 = n
    <3> HIDE DEF n
    <3> QED BY <1>1, <1>2
  <2>2. ASSUME NEW i \in stops
        PROVE  /\ i \in DOMAIN tokens
               /\ \/ Left(i - 1) <= 0
                  \/ tokens[i].kind = "blanks" /\ ~Within(tokens[i].num, Left(i - 1))
    OBVIOUS
  <2> HIDE DEF stops, Left, n
  <2> QED BY <2>1, <2>2 DEF left
<1> HIDE DEF n, stops, there, left, skipped
<1>6. MaxBlanks \in Nat \ {0}
  BY BlanksAssumption
<1>7. there.before \in Seq(T) /\ there.after \in Seq(T) /\ there.attr \in Attributes
  BY <1>3 DEF PlacesOf
<1>8. CASE left <= 0
  <2>1. skipped = there
    BY <1>8, <1>5, <1>11
  <2> QED BY <2>1, <1>3, <1>7 DEF skipped
<1>9. CASE left > 0 /\ n = Len(tokens)
  <2> DEFINE filled == left % (MaxBlanks + 1)
  <2>1. skipped = [there EXCEPT !.before = Append(there.before, Blanks(filled))]
    BY <1>9, <1>5, <1>11
  <2>2. filled \in 0 .. MaxBlanks
    BY <1>5, <1>6
  <2>3. low = 0 \/ num <= MaxBlanks => filled \in low .. MaxBlanks
    <3>1. num <= MaxBlanks => filled = left
      BY <1>5, <1>6, <1>9
    <3> QED BY <3>1, <2>2, <1>9, <1>5
  <2>4. low = 0 \/ num <= MaxBlanks => Blanks(filled) \in T
    BY <2>3 DEF TokensOf
  <2> HIDE DEF T, filled, there, skipped
  <2>5. low = 0 \/ num <= MaxBlanks => Append(there.before, Blanks(filled)) \in Seq(T)
    BY <2>4, <1>7
  <2>6. skipped.attr = there.attr /\ skipped.after = there.after
    BY <2>1, <1>3 DEF PlacesOf
  <2>7. Append(there.before, Blanks(filled)) \in Seq(T) => skipped \in PlacesOf(low)
    BY <2>1, <1>3 DEF PlacesOf, T
  <2> QED BY <2>5, <2>6, <2>7, <1>7 DEF skipped, T
<1>10. CASE left > 0 /\ n # Len(tokens)
  <2> DEFINE next == tokens[n + 1]
  <2>1. n + 1 \in stops
    BY <1>2, <1>10
  <2>2. n + 1 \in DOMAIN tokens /\ next.kind = "blanks" /\ ~Within(next.num, left)
    BY <2>1, <1>12, <1>10, <1>5
  <2>3. next \in T
    BY <2>2, <1>1
  <2>4. next.num \in low .. MaxBlanks
    BY <2>2, <2>3, TokenKinds
  <2>5. left < next.num
    BY <2>2, <2>4, <1>5 DEF Within
  <2>6. left \in low .. MaxBlanks /\ next.num - left \in low .. MaxBlanks
    BY <2>4, <2>5, <1>5, <1>10, <1>6
  <2>7. Blanks(left) \in T /\ Blanks(next.num - left) \in T
    BY <2>6 DEF TokensOf
  <2>8. skipped = Place(Append(there.before, Blanks(left)), there.attr,
                        <<Blanks(next.num - left)>> \o Tail(there.after))
    BY <1>10, <1>5, <1>11
  <2>9. there.after # <<>>
    BY <1>3, <1>10, <1>2, <1>7
  <2> HIDE DEF T, left, there, skipped, next
  <2>10. Tail(there.after) \in Seq(T)
    BY <2>9, <1>7
  <2>11. <<Blanks(next.num - left)>> \o Tail(there.after) \in Seq(T)
    BY <2>7, <2>10
  <2>12. Append(there.before, Blanks(left)) \in Seq(T)
    BY <2>7, <1>7
  <2>13. skipped \in PlacesOf(low)
    BY <2>8, <2>11, <2>12, <1>7 DEF Place, PlacesOf, T
  <2> QED BY <2>13 DEF PlacesOf, skipped
<1> QED BY <1>8, <1>9, <1>10, <1>5 DEF skipped

LEMMA FindType ==
  ASSUME NEW low \in {0, 1}, NEW line \in LinesOf(low), NEW pos \in Nat,
         low = 0 \/ pos <= MaxBlanks
  PROVE  Find(line, pos) \in PlacesOf(low)
<1>1. Place(<<>>, NoAttributes, line.content) \in PlacesOf(low)
  BY NoAttributesType DEF Place, PlacesOf, LinesOf
<1> QED BY <1>1, ContentSkipType DEF Find

(* Where the text ends that is replaced; what was before it is not used.   *)
LEMMA EndType ==
  ASSUME NEW low \in {0, 1}, NEW place \in PlacesOf(low), NEW num \in Nat
  PROVE  /\ PassAttributes(ContentSkip(num, place)).attr \in Attributes
         /\ PassAttributes(ContentSkip(num, place)).after \in Seq(TokensOf(low))
<1> DEFINE T == TokensOf(low)
           skipped == ContentSkip(num, place)
           others == {i \in DOMAIN skipped.after : skipped.after[i].kind # "attr"}
           n == NumberBefore(others, Len(skipped.after))
<1>1. skipped.attr \in Attributes /\ skipped.after \in Seq(T)
  BY ContentSkipType
<1>2. PassAttributes(skipped) = Passed(skipped, n)
  BY DEF PassAttributes
<1>3. n \in 0 .. Len(skipped.after)
  <2> HIDE DEF others, skipped
  <2>1. Len(skipped.after) \in Nat
    BY <1>1
  <2> QED BY <2>1, NumberFound
<1>4. AttrsBefore(skipped.after, skipped.attr)[n] \in Attributes
  <2> HIDE DEF n, skipped
  <2> QED BY <1>1, <1>3, AttrsDecoded
<1>5. SubSeq(skipped.after, n + 1, Len(skipped.after)) \in Seq(T)
  <2> HIDE DEF n, skipped, T
  <2> QED BY <1>1, <1>3
<1> HIDE DEF n, skipped
<1>6. /\ Passed(skipped, n).attr = AttrsBefore(skipped.after, skipped.attr)[n]
      /\ Passed(skipped, n).after = SubSeq(skipped.after, n + 1, Len(skipped.after))
  BY DEF Passed, Place
<1> QED BY <1>2, <1>4, <1>5, <1>6 DEF skipped

-----------------------------------------------------------------------------
(* What is done to a line                                                  *)

LEMMA EncodedType ==
  ASSUME NEW low \in {0, 1}, NEW attr \in Attributes
  PROVE  Encoded(attr) \in Seq(TokensOf(low))
<1>1. CASE attr = NoAttributes
  BY <1>1 DEF Encoded
<1>2. CASE attr # NoAttributes
  <2>1. Attr(attr) \in TokensOf(low)
    BY <1>2 DEF TokensOf
  <2> HIDE DEF TokensOf
  <2> QED BY <2>1, <1>2 DEF Encoded
<1> QED BY <1>1, <1>2

LEMMA CharsType ==
  ASSUME NEW low \in {0, 1}, NEW text \in Seq(Characters)
  PROVE  /\ Chars(text) \in Seq(TokensOf(low))
         /\ Len(Chars(text)) = Len(text)
<1>1. \A c \in Characters : Char(c) \in TokensOf(low)
  BY DEF TokensOf
<1>2. DOMAIN text = 1 .. Len(text) /\ Len(text) \in Nat
  OBVIOUS
<1>3. Chars(text) \in [1 .. Len(text) -> TokensOf(low)]
  BY <1>1, <1>2 DEF Chars
<1> QED BY <1>2, <1>3

LEMMA SplicedType ==
  ASSUME NEW low \in {0, 1}, NEW line \in LinesOf(low), NEW start \in PlacesOf(low),
         NEW tokens \in Seq(TokensOf(low)), NEW end, end.after \in Seq(TokensOf(low))
  PROVE  Spliced(line, start, tokens, end) \in LinesOf(low)
<1> DEFINE T == TokensOf(low)
<1>1. start.before \in Seq(T)
  BY DEF PlacesOf
<1> HIDE DEF T
<1>2. start.before \o tokens \o end.after \in Seq(T)
  <2>1. tokens \in Seq(T) /\ end.after \in Seq(T)
    BY DEF T
  <2>2. start.before \o tokens \in Seq(T)
    BY <2>1, <1>1
  <2> QED BY <2>1, <2>2
<1> QED BY <1>2 DEF Spliced, LinesOf, T

LEMMA TextWidthType ==
  ASSUME NEW text \in Seq(Characters)
  PROVE  TextWidth(text) \in Nat
<1>1. Chars(text) \in Seq(TokensOf(0)) /\ Len(Chars(text)) = Len(text) /\ Len(text) \in Nat
  BY CharsType
<1>2. CellsBefore(Chars(text)) \in [0 .. Len(text) -> Nat]
  BY <1>1, CellsCounted
<1> QED BY <1>1, <1>2 DEF TextWidth

LEMMA LineAddTextType ==
  ASSUME NEW low \in {0, 1}, NEW line \in LinesOf(low), NEW pos \in Nat,
         low = 0 \/ pos <= MaxBlanks,
         NEW text \in Seq(Characters), NEW attr \in Attributes, NEW insert \in BOOLEAN
  PROVE  LineAddText(line, pos, text, attr, insert) \in LinesOf(low)
<1> DEFINE T == TokensOf(low)
           start == Find(line, pos)
           here == PassAttributes(start)
           replaced == PassAttributes(ContentSkip(TextWidth(text), here))
           end == IF insert THEN here ELSE replaced
           change == PrecededBy(attr, start.attr)
           tokens == Encoded(change) \o Chars(text) \o Encoded(PrecededBy(end.attr, change))
<1>1. start \in PlacesOf(low)
  BY FindType
<1>2. here \in PlacesOf(low)
  BY <1>1, PassAttributesType
<1>3. end.attr \in Attributes /\ end.after \in Seq(T)
  <2> HIDE DEF here
  <2>1. here.attr \in Attributes /\ here.after \in Seq(T)
    BY <1>2 DEF PlacesOf
  <2>2. replaced.attr \in Attributes /\ replaced.after \in Seq(T)
    BY <1>2, EndType, TextWidthType
  <2> QED BY <2>1, <2>2
<1>4. change \in Attributes
  <2>1. start.attr \in Attributes
    BY <1>1 DEF PlacesOf
  <2> HIDE DEF start
  <2> QED BY <2>1, PrecededByType
<1>5. LineAddText(line, pos, text, attr, insert) = Spliced(line, start, tokens, end)
  BY DEF LineAddText
<1> HIDE DEF T, start, end, change
<1>6. tokens \in Seq(T)
  <2>1. PrecededBy(end.attr, change) \in Attributes
    BY <1>3, <1>4, PrecededByType
  <2>2. /\ Encoded(change) \in Seq(T)
        /\ Encoded(PrecededBy(end.attr, change)) \in Seq(T)
        /\ Chars(text) \in Seq(T)
    BY <2>1, <1>4, EncodedType, CharsType DEF T
  <2>3. Encoded(change) \o Chars(text) \in Seq(T)
    BY <2>2
  <2> QED BY <2>2, <2>3
<1> HIDE DEF tokens
<1>7. Spliced(line, start, tokens, end) \in LinesOf(low)
  BY <1>1, <1>3, <1>6, SplicedType DEF T
<1> QED BY <1>5, <1>7

LEMMA LineDeleteTextType ==
  ASSUME NEW low \in {0, 1}, NEW line \in LinesOf(low), NEW first \in Nat, NEW num \in Nat,
         low = 0 \/ first <= MaxBlanks
  PROVE  LineDeleteText(line, first, num) \in LinesOf(low)
<1> DEFINE start == Find(line, first)
           end == PassAttributes(ContentSkip(num, start))
           tokens == Encoded(PrecededBy(end.attr, start.attr))
<1>1. start \in PlacesOf(low)
  BY FindType
<1>2. end.attr \in Attributes /\ end.after \in Seq(TokensOf(low))
  BY <1>1, EndType
<1>3. LineDeleteText(line, first, num)
        = IF num = 0 THEN line ELSE Spliced(line, start, tokens, end)
  BY DEF LineDeleteText
<1>4. start.attr \in Attributes
  BY <1>1 DEF PlacesOf
<1> HIDE DEF start, end
<1>5. tokens \in Seq(TokensOf(low))
  BY <1>2, <1>4, PrecededByType, EncodedType
<1> HIDE DEF tokens
<1>6. Spliced(line, start, tokens, end) \in LinesOf(low)
  BY <1>1, <1>2, <1>5, SplicedType
<1> QED BY <1>3, <1>6

(* The runs of blanks for `num' cells are as long as fits in a byte, and   *)
(* none is empty.                                                          *)
LEMMA BlanksForType ==
  ASSUME NEW low \in {0, 1}, NEW num \in Nat
  PROVE  BlanksFor(num) \in Seq(TokensOf(low))
<1> DEFINE runs == (num + MaxBlanks - 1) \div MaxBlanks
           Rest(i) == num - (i - 1) * MaxBlanks
           Run(i) == IF Rest(i) < MaxBlanks THEN Rest(i) ELSE MaxBlanks
<1>1. MaxBlanks \in Nat /\ MaxBlanks > 0
  BY BlanksAssumption
<1>2. runs \in Nat /\ runs * MaxBlanks <= num + MaxBlanks - 1
  BY <1>1
<1>3. ASSUME NEW i \in 1 .. runs PROVE Run(i) \in low .. MaxBlanks
  <2> HIDE DEF runs
  <2>1. i * MaxBlanks <= runs * MaxBlanks
    BY <1>1, <1>2
  <2>2. (i - 1) * MaxBlanks = i * MaxBlanks - MaxBlanks
    BY <1>1, <1>2
  <2>3. i * MaxBlanks \in Int /\ runs * MaxBlanks \in Int
    BY <1>1, <1>2
  <2>4. Rest(i) >= 1 /\ Rest(i) \in Int
    BY <2>1, <2>2, <2>3, <1>1, <1>2
  <2> HIDE DEF Rest
  <2> QED BY <2>4, <1>1
<1>4. BlanksFor(num) = [i \in 1 .. runs |-> Blanks(Run(i))]
  BY DEF BlanksFor
<1> HIDE DEF runs, Run
<1>5. ASSUME NEW i \in 1 .. runs PROVE Blanks(Run(i)) \in TokensOf(low)
  BY <1>3 DEF TokensOf
<1> QED BY <1>2, <1>4, <1>5

LEMMA LineEraseTextType ==
  ASSUME NEW low \in {0, 1}, NEW line \in LinesOf(low), NEW first \in Nat, NEW num \in Nat,
         NEW attr \in Attributes, low = 0 \/ first <= MaxBlanks
  PROVE  LineEraseText(line, first, num, attr) \in LinesOf(low)
<1> DEFINE T == TokensOf(low)
           start == Find(line, first)
           end == PassAttributes(ContentSkip(num, start))
           change == PrecededBy(attr, start.attr)
           tokens == Encoded(change) \o BlanksFor(num) \o Encoded(PrecededBy(end.attr, change))
<1>1. start \in PlacesOf(low)
  BY FindType
<1>2. end.attr \in Attributes /\ end.after \in Seq(T)
  BY <1>1, EndType
<1>3. LineEraseCells(line, first, num, attr) = Spliced(line, start, tokens, end)
  BY DEF LineEraseCells
<1>4. LineEraseRest(line, first, attr)
        = [line EXCEPT !.content = start.before \o Encoded(change), !.blank = TRUE]
  BY DEF LineEraseRest
<1>5. start.attr \in Attributes /\ start.before \in Seq(T)
  BY <1>1 DEF PlacesOf
<1> HIDE DEF T, start, end
<1>6. change \in Attributes
  BY <1>5, PrecededByType
<1> HIDE DEF change
<1>7. /\ Encoded(change) \in Seq(T)
      /\ Encoded(PrecededBy(end.attr, change)) \in Seq(T)
      /\ BlanksFor(num) \in Seq(T)
  BY <1>2, <1>6, PrecededByType, EncodedType, BlanksForType DEF T
<1>8. tokens \in Seq(T)
  <2>1. Encoded(change) \o BlanksFor(num) \in Seq(T)
    BY <1>7
  <2> QED BY <2>1, <1>7
<1> HIDE DEF tokens
<1>9. Spliced(line, start, tokens, end) \in LinesOf(low)
  BY <1>1, <1>2, <1>8, SplicedType DEF T
<1>10. start.before \o Encoded(change) \in Seq(T)
  BY <1>5, <1>7
<1>11. LineEraseRest(line, first, attr) \in LinesOf(low)
  BY <1>4, <1>10 DEF LinesOf, T
<1> QED BY <1>3, <1>9, <1>11 DEF LineEraseText

LEMMA LineClearType ==
  ASSUME NEW low \in {0, 1}, NEW line \in LinesOf(low), NEW attr \in Attributes
  PROVE  LineClear(line, attr) \in LinesOf(low)
BY EncodedType DEF LineClear, LinesOf

LEMMA NewLineType ==
  ASSUME NEW low \in {0, 1}
  PROVE  NewLineOfBuffer \in LinesOf(low)
BY DEF NewLineOfBuffer, Line, LinesOf

(* A fragment takes as many cells as its characters. *)
LEMMA TextWidthSteps ==
  /\ TextWidth(<<>>) = 0
  /\ \A text \in Seq(Characters), c \in Characters :
        TextWidth(Append(text, c)) = TextWidth(text) + CharWidth(c)
<1>1. TextWidth(<<>>) = 0
  <2>1. <<>> \in Seq(Characters) /\ Len(<<>>) = 0
    OBVIOUS
  <2>2. Chars(<<>>) \in Seq(TokensOf(0))
    BY <2>1, CharsType
  <2> QED BY <2>1, <2>2, CellsCounted DEF TextWidth
<1>2. ASSUME NEW text \in Seq(Characters), NEW c \in Characters
      PROVE  TextWidth(Append(text, c)) = TextWidth(text) + CharWidth(c)
  <2> DEFINE N == Len(text)
             more == Append(text, c)
             f == CellsBefore(Chars(text))
             g == CellsBefore(Chars(more))
             d == [n \in 0 .. N |-> g[n] - f[n]]
  <2>1. /\ more \in Seq(Characters) /\ Len(more) = N + 1 /\ N \in Nat
        /\ more[N + 1] = c /\ \A n \in 1 .. N : more[n] = text[n]
    BY AppendProperties
  <2>2. /\ Chars(text) \in Seq(TokensOf(0)) /\ Len(Chars(text)) = N
        /\ Chars(more) \in Seq(TokensOf(0)) /\ Len(Chars(more)) = N + 1
    BY <2>1, CharsType
  <2>3. /\ f \in [0 .. N -> Nat] /\ f[0] = 0
        /\ g \in [0 .. N + 1 -> Nat] /\ g[0] = 0
        /\ \A n \in 1 .. N : f[n] = f[n - 1] + CellsOf(Chars(text)[n])
        /\ \A n \in 1 .. N + 1 : g[n] = g[n - 1] + CellsOf(Chars(more)[n])
    BY <2>2, CellsCounted
  <2>4. \A n \in 1 .. N : Chars(text)[n] = Char(text[n])
    BY DEF Chars
  <2>5. \A n \in 1 .. N + 1 : Chars(more)[n] = Char(more[n])
    BY <2>1 DEF Chars
  <2> HIDE DEF f, g, more, N
  <2>6. ASSUME NEW n \in 1 .. N, d[n - 1] \in {0} PROVE d[n] \in {0}
    <3>1. n - 1 \in 0 .. N /\ n \in 0 .. N /\ n \in 1 .. N + 1 /\ n - 1 \in 0 .. N + 1
      BY <2>1
    <3>2. f[n] = f[n - 1] + CellsOf(Char(text[n])) /\ g[n] = g[n - 1] + CellsOf(Char(text[n]))
      BY <2>1, <2>3, <2>4, <2>5, <3>1
    <3>3. g[n - 1] = f[n - 1]
      BY <2>6, <2>3, <3>1
    <3>4. g[n] = f[n] /\ f[n] \in Nat
      BY <3>1, <3>2, <3>3, <2>3
    <3> QED BY <3>1, <3>4
  <2>7. d[0] \in {0}
    BY <2>1, <2>3
  <2>8. d[N] \in {0}
    <3>1. \A n \in 0 .. N : d[n] \in {0}
      <4> DEFINE S == {0}
      <4>1. N \in Nat
        BY <2>1
      <4>2. d[0] \in S /\ \A n \in 1 .. N : d[n - 1] \in S => d[n] \in S
        BY <2>6, <2>7
      <4>3. \A n \in 0 .. N : d[n] \in S
        <5> HIDE DEF d, S
        <5> QED BY <4>1, <4>2, StaysIn
      <4> QED BY <4>3
    <3> QED BY <3>1, <2>1
  <2>9. g[N] = f[N] /\ f[N] \in Nat
    <3>1. N \in 0 .. N /\ N \in 0 .. N + 1
      BY <2>1
    <3> QED BY <2>3, <2>8, <3>1
  <2>10. CellsOf(Char(c)) = CharWidth(c)
    BY DEF CellsOf, Char
  <2>11. g[N + 1] = f[N] + CharWidth(c)
    <3>1. N + 1 \in 1 .. N + 1 /\ N + 1 - 1 = N
      BY <2>1
    <3>2. g[N + 1] = g[N] + CellsOf(Chars(more)[N + 1])
      <4>1. \A n \in 1 .. N + 1 : g[n] = g[n - 1] + CellsOf(Chars(more)[n])
        BY <2>3
      <4>2. g[N + 1] = g[N + 1 - 1] + CellsOf(Chars(more)[N + 1])
        BY <4>1, <3>1, <2>1
      <4>3. N + 1 - 1 = N
        BY <3>1
      <4> QED BY <4>2, <4>3, Zenon
    <3>3. Chars(more)[N + 1] = Char(c)
      BY <2>1, <2>5, <3>1
    <3> QED BY <2>9, <2>10, <3>2, <3>3
  <2> QED BY <2>1, <2>11 DEF TextWidth, f, g, more, N
<1> QED BY <1>1, <1>2

-----------------------------------------------------------------------------
(* What add_text() does to the lines, the page and the cursor.  `fits' says *)
(* that the page was never made shorter.                                    *)

BelowEmpty(lines, top, page) ==
  \A i \in DOMAIN lines : i > top + page.lines => lines[i] = NewLineOfBuffer

StatesOf(low, fits) ==
  {s \in [buffer : Seq(LinesOf(low)), offset : Nat, x : Nat, y : Nat] :
     /\ s.offset + s.y + 1 <= Len(s.buffer)
     /\ low = 1 => s.x <= MaxBlanks
     /\ fits => s.y < cells.lines /\ BelowEmpty(s.buffer, s.offset, cells)}

LEMMA StateIn ==
  ASSUME NEW low, NEW fits, NEW lines \in Seq(LinesOf(low)),
         NEW top \in Nat, NEW x \in Nat, NEW y \in Nat,
         top + y + 1 <= Len(lines),
         low = 1 => x <= MaxBlanks,
         fits => y < cells.lines /\ BelowEmpty(lines, top, cells)
  PROVE  State(lines, top, x, y) \in StatesOf(low, fits)
<1> DEFINE s == State(lines, top, x, y)
<1>1. s \in [buffer : Seq(LinesOf(low)), offset : Nat, x : Nat, y : Nat]
  BY DEF State
<1>2. s.buffer = lines /\ s.offset = top /\ s.x = x /\ s.y = y
  BY DEF State
<1> HIDE DEF s
<1>3. s \in StatesOf(low, fits)
  BY <1>1, <1>2 DEF StatesOf
<1> QED BY <1>3 DEF s

LEMMA AfterNewLineKeeps ==
  ASSUME NEW low \in {0, 1}, NEW fits \in BOOLEAN, cells \in Sizes,
         NEW s \in StatesOf(low, fits)
  PROVE  /\ AfterNewLine(s) \in StatesOf(low, fits)
         /\ AfterNewLine(s).x = 0
<1> DEFINE L == LinesOf(low)
           lines == Append(s.buffer, NewLineOfBuffer)
           new == AfterNewLine(s)
<1>1. s.buffer \in Seq(L) /\ s.offset \in Nat /\ s.y \in Nat /\ Len(s.buffer) \in Nat
  BY DEF StatesOf
<1>2. /\ s.offset + s.y + 1 <= Len(s.buffer)
      /\ fits => s.y < cells.lines /\ BelowEmpty(s.buffer, s.offset, cells)
  BY DEF StatesOf
<1>3. cells.lines \in Nat /\ cells.lines > 0
  BY SizesAssumption
<1>4. NewLineOfBuffer \in L
  BY NewLineType
<1> HIDE DEF L
<1>5. lines \in Seq(L) /\ Len(lines) = Len(s.buffer) + 1 /\ DOMAIN lines = 1 .. Len(s.buffer) + 1
  BY <1>1, <1>4
<1>6. /\ \A i \in DOMAIN s.buffer : lines[i] = s.buffer[i]
      /\ DOMAIN s.buffer = 1 .. Len(s.buffer)
      /\ lines[Len(s.buffer) + 1] = NewLineOfBuffer
  BY <1>1, <1>4
<1>7. new = IF s.y < cells.lines - 1 THEN State(lines, s.offset, 0, s.y + 1)
            ELSE State(lines, s.offset + 1, 0, s.y)
  BY DEF AfterNewLine
<1> HIDE DEF lines, new
<1>8. fits => BelowEmpty(lines, s.offset, cells) /\ BelowEmpty(lines, s.offset + 1, cells)
  <2> SUFFICES ASSUME fits, NEW i \in DOMAIN lines, i > s.offset + cells.lines
               PROVE  lines[i] = NewLineOfBuffer
    BY <1>1, <1>3, <1>5 DEF BelowEmpty
  <2>1. CASE i = Len(s.buffer) + 1
    BY <2>1, <1>6
  <2>2. CASE i # Len(s.buffer) + 1
    <3>1. i \in DOMAIN s.buffer
      BY <2>2, <1>1, <1>5, <1>6
    <3> QED BY <3>1, <1>2, <1>6 DEF BelowEmpty
  <2> QED BY <2>1, <2>2
<1>9. new.x = 0
  BY <1>7 DEF State
<1>12. low = 1 => 0 <= MaxBlanks
  BY BlanksAssumption
<1>10. CASE s.y < cells.lines - 1
  <2>1. new = State(lines, s.offset, 0, s.y + 1)
    BY <1>7, <1>10
  <2>2. s.offset + (s.y + 1) + 1 <= Len(lines)
    BY <1>1, <1>2, <1>5
  <2>3. s.y + 1 < cells.lines /\ s.y + 1 \in Nat /\ 0 \in Nat
    BY <1>1, <1>3, <1>10
  <2>4. fits => s.y + 1 < cells.lines /\ BelowEmpty(lines, s.offset, cells)
    BY <2>3, <1>8
  <2>5. lines \in Seq(LinesOf(low)) /\ s.offset \in Nat
    BY <1>1, <1>5 DEF L
  <2>6. State(lines, s.offset, 0, s.y + 1) \in StatesOf(low, fits)
    BY <2>2, <2>3, <2>4, <2>5, <1>12, StateIn
  <2> QED BY <2>1, <2>6, <1>9 DEF new
<1>11. CASE ~(s.y < cells.lines - 1)
  <2>1. new = State(lines, s.offset + 1, 0, s.y)
    BY <1>7, <1>11
  <2>2. s.offset + 1 + s.y + 1 <= Len(lines)
    BY <1>1, <1>2, <1>5
  <2>3. s.offset + 1 \in Nat /\ 0 \in Nat
    BY <1>1
  <2>4. fits => s.y < cells.lines /\ BelowEmpty(lines, s.offset + 1, cells)
    BY <1>2, <1>8
  <2>5. lines \in Seq(LinesOf(low)) /\ s.y \in Nat
    BY <1>1, <1>5 DEF L
  <2>6. State(lines, s.offset + 1, 0, s.y) \in StatesOf(low, fits)
    BY <2>2, <2>3, <2>4, <2>5, <1>12, StateIn
  <2> QED BY <2>1, <2>6, <1>9 DEF new
<1> QED BY <1>10, <1>11

LEMMA AddedAtKeeps ==
  ASSUME NEW low \in {0, 1}, NEW fits \in BOOLEAN, cells \in Sizes, attrs \in Attributes,
         NEW s \in StatesOf(low, fits), NEW text \in Seq(Characters), NEW insert \in BOOLEAN
  PROVE  /\ AddedAt(s, text, insert) \in Seq(LinesOf(low))
         /\ Len(AddedAt(s, text, insert)) = Len(s.buffer)
         /\ fits => BelowEmpty(AddedAt(s, text, insert), s.offset, cells)
<1> DEFINE L == LinesOf(low)
           at == s.offset + s.y + 1
           line == LineAddText(s.buffer[at], s.x, text, attrs, insert)
           lines == [s.buffer EXCEPT ![at] = line]
<1>1. /\ s.buffer \in Seq(L) /\ s.offset \in Nat /\ s.y \in Nat /\ s.x \in Nat
      /\ at <= Len(s.buffer) /\ (low = 1 => s.x <= MaxBlanks)
  BY DEF StatesOf
<1>2. fits => s.y < cells.lines /\ BelowEmpty(s.buffer, s.offset, cells)
  BY DEF StatesOf
<1>3. at \in 1 .. Len(s.buffer) /\ Len(s.buffer) \in Nat
  BY <1>1
<1>4. s.buffer[at] \in LinesOf(low)
  BY <1>1, <1>3
<1>5. line \in LinesOf(low)
  <2>1. low = 0 \/ s.x <= MaxBlanks
    BY <1>1
  <2> HIDE DEF at
  <2> QED BY <2>1, <1>1, <1>4, LineAddTextType
<1>6. AddedAt(s, text, insert) = lines
  BY DEF AddedAt
<1> HIDE DEF L, line
<1>7. line \in L
  BY <1>5 DEF L
<1>8. lines \in Seq(L) /\ Len(lines) = Len(s.buffer)
  BY <1>1, <1>3, <1>7
<1>9. fits => BelowEmpty(lines, s.offset, cells)
  <2> SUFFICES ASSUME fits, NEW i \in DOMAIN lines, i > s.offset + cells.lines
               PROVE  lines[i] = NewLineOfBuffer
    BY DEF BelowEmpty
  <2>1. cells.lines \in Nat
    BY SizesAssumption
  <2>2. i \in DOMAIN s.buffer /\ i \in Int
    BY <1>1
  <2>3. i # at
    BY <2>1, <2>2, <1>1, <1>2
  <2>4. lines[i] = s.buffer[i]
    BY <2>2, <2>3
  <2> QED BY <2>2, <2>4, <1>2 DEF BelowEmpty
<1> HIDE DEF lines
<1> QED BY <1>6, <1>8, <1>9 DEF L

LEMMA FlushedKeeps ==
  ASSUME NEW low \in {0, 1}, NEW fits \in BOOLEAN, cells \in Sizes, attrs \in Attributes,
         NEW s \in StatesOf(low, fits), NEW fragment \in Seq(Characters),
         NEW insert \in BOOLEAN,
         low = 1 => s.x + TextWidth(fragment) <= MaxBlanks
  PROVE  /\ Flushed(s, fragment, insert) \in StatesOf(low, fits)
         /\ Flushed(s, fragment, insert).x = s.x + TextWidth(fragment)
<1>1. CASE fragment = <<>>
  <2>1. Flushed(s, fragment, insert) = s
    BY <1>1 DEF Flushed
  <2>2. TextWidth(fragment) = 0 /\ s.x \in Nat
    BY <1>1, TextWidthSteps DEF StatesOf
  <2> QED BY <2>1, <2>2
<1>2. CASE fragment # <<>>
  <2> DEFINE lines == AddedAt(s, fragment, insert)
             x == s.x + TextWidth(fragment)
  <2>1. Flushed(s, fragment, insert) = State(lines, s.offset, x, s.y)
    BY <1>2 DEF Flushed
  <2>2. /\ lines \in Seq(LinesOf(low)) /\ Len(lines) = Len(s.buffer)
        /\ fits => BelowEmpty(lines, s.offset, cells)
    BY AddedAtKeeps
  <2>3. /\ s.offset \in Nat /\ s.y \in Nat /\ s.x \in Nat
        /\ s.offset + s.y + 1 <= Len(s.buffer)
        /\ fits => s.y < cells.lines
    BY DEF StatesOf
  <2>4. x \in Nat
    BY <2>3, TextWidthType
  <2> HIDE DEF lines
  <2>5. s.offset + s.y + 1 <= Len(lines)
    BY <2>2, <2>3
  <2>6. fits => s.y < cells.lines /\ BelowEmpty(lines, s.offset, cells)
    BY <2>2, <2>3
  <2>7. low = 1 => x <= MaxBlanks
    OBVIOUS
  <2> HIDE DEF x
  <2>8. State(lines, s.offset, x, s.y) \in StatesOf(low, fits)
    BY <2>2, <2>3, <2>4, <2>5, <2>6, <2>7, StateIn
  <2>9. State(lines, s.offset, x, s.y).x = x
    BY DEF State
  <2> QED BY <2>1, <2>8, <2>9 DEF x
<1> QED BY <1>1, <1>2

(* How far the loop over the characters has come.                          *)
PendingOf(low, fits) ==
  {p \in [state : StatesOf(low, fits), fragment : Seq(Characters)] :
     low = 1 => p.state.x + TextWidth(p.fragment) <= MaxBlanks}

(* The pages are narrower than what a byte holds. *)
NarrowPages ==
  /\ \A s \in Sizes : s.columns < MaxBlanks
  /\ MaxColumn <= MaxBlanks

LEMMA AfterFlushKeeps ==
  ASSUME NEW low \in {0, 1}, NEW fits \in BOOLEAN, cells \in Sizes, attrs \in Attributes,
         NEW p \in PendingOf(low, fits), NEW insert \in BOOLEAN
  PROVE  /\ AfterFlush(p, insert) \in StatesOf(low, fits)
         /\ AfterFlush(p, insert).x = p.state.x + TextWidth(p.fragment)
<1>1. /\ p.state \in StatesOf(low, fits) /\ p.fragment \in Seq(Characters)
      /\ low = 1 => p.state.x + TextWidth(p.fragment) <= MaxBlanks
  BY DEF PendingOf
<1> QED BY <1>1, FlushedKeeps DEF AfterFlush

LEMMA PendingIn ==
  ASSUME NEW low \in {0, 1}, NEW fits, NEW s \in StatesOf(low, fits)
  PROVE  Pending(s, <<>>) \in PendingOf(low, fits)
<1> DEFINE p == Pending(s, <<>>)
<1>1. p.state = s /\ p.fragment = <<>> /\ p \in [state : StatesOf(low, fits), fragment : Seq(Characters)]
  BY DEF Pending
<1>2. s.x \in Nat /\ (low = 1 => s.x <= MaxBlanks)
  BY DEF StatesOf
<1>3. TextWidth(<<>>) = 0
  BY TextWidthSteps
<1> HIDE DEF p
<1>4. p \in PendingOf(low, fits)
  BY <1>1, <1>2, <1>3 DEF PendingOf
<1> QED BY <1>4 DEF p

LEMMA MakeRoomKeeps ==
  ASSUME NEW low \in {0, 1}, NEW fits \in BOOLEAN, cells \in Sizes, attrs \in Attributes,
         low = 1 => NarrowPages,
         NEW p \in PendingOf(low, fits), NEW insert \in BOOLEAN, NEW wrap \in BOOLEAN
  PROVE  /\ MakeRoom(p, insert, wrap) \in PendingOf(low, fits)
         /\ LET q == MakeRoom(p, insert, wrap)
            IN q.state.x + TextWidth(q.fragment) < cells.columns
<1> DEFINE s == AfterFlush(p, insert)
           there == [s EXCEPT !.x = cells.columns - 1]
<1>1. s \in StatesOf(low, fits)
  BY AfterFlushKeeps
<1>2. cells.columns \in Nat /\ cells.columns > 0 /\ cells.columns - 1 \in Nat
  BY SizesAssumption
<1>3. AfterNewLine(s) \in StatesOf(low, fits) /\ AfterNewLine(s).x = 0
  BY <1>1, AfterNewLineKeeps
<1>4. there \in StatesOf(low, fits) /\ there.x = cells.columns - 1
  <2>1. low = 1 => cells.columns - 1 <= MaxBlanks
    BY <1>2, BlanksAssumption DEF NarrowPages
  <2> HIDE DEF s
  <2> QED BY <1>1, <1>2, <2>1 DEF StatesOf
<1>5. \A t \in StatesOf(low, fits) : Pending(t, <<>>) \in PendingOf(low, fits)
  BY PendingIn
<1>6. \A t : Pending(t, <<>>).state = t /\ Pending(t, <<>>).fragment = <<>>
  BY DEF Pending
<1>7. TextWidth(<<>>) = 0
  BY TextWidthSteps
<1>8. p.state.x \in Nat /\ TextWidth(p.fragment) \in Nat
  <2>1. p.state \in StatesOf(low, fits) /\ p.fragment \in Seq(Characters)
    BY DEF PendingOf
  <2> QED BY <2>1, TextWidthType DEF StatesOf
<1>9. MakeRoom(p, insert, wrap)
        = IF p.state.x + TextWidth(p.fragment) < cells.columns THEN p
          ELSE Pending(IF wrap THEN AfterNewLine(s) ELSE there, <<>>)
  BY DEF MakeRoom
<1> HIDE DEF s, there
<1>10. CASE p.state.x + TextWidth(p.fragment) < cells.columns
  BY <1>9, <1>10
<1>11. CASE ~(p.state.x + TextWidth(p.fragment) < cells.columns) /\ wrap
  <2>1. MakeRoom(p, insert, wrap) = Pending(AfterNewLine(s), <<>>)
    BY <1>9, <1>11
  <2>2. Pending(AfterNewLine(s), <<>>).state.x + TextWidth(<<>>) < cells.columns
    BY <1>2, <1>3, <1>6, <1>7
  <2> QED BY <2>1, <2>2, <1>3, <1>5, <1>6
<1>12. CASE ~(p.state.x + TextWidth(p.fragment) < cells.columns) /\ ~wrap
  <2>1. MakeRoom(p, insert, wrap) = Pending(there, <<>>)
    BY <1>9, <1>12
  <2>2. Pending(there, <<>>).state.x + TextWidth(<<>>) < cells.columns
    BY <1>2, <1>4, <1>6, <1>7
  <2> QED BY <2>1, <2>2, <1>4, <1>5, <1>6
<1> QED BY <1>10, <1>11, <1>12

LEMMA PutKeeps ==
  ASSUME NEW low \in {0, 1}, NEW fits \in BOOLEAN, cells \in Sizes, attrs \in Attributes,
         low = 1 => NarrowPages,
         NEW p \in PendingOf(low, fits), NEW char \in Characters, NEW wrap \in BOOLEAN,
         p.state.x + TextWidth(p.fragment) < cells.columns
  PROVE  Put(p, char, wrap) \in PendingOf(low, fits)
<1> DEFINE lines == AddedAt(p.state, <<char>>, FALSE)
           stays == ~wrap /\ p.fragment = <<>> /\ p.state.x = cells.columns - 1
<1>1. p.state \in StatesOf(low, fits) /\ p.fragment \in Seq(Characters)
  BY DEF PendingOf
<1>2. /\ p.state.offset \in Nat /\ p.state.y \in Nat /\ p.state.x \in Nat
      /\ p.state.buffer \in Seq(LinesOf(low))
      /\ p.state.offset + p.state.y + 1 <= Len(p.state.buffer)
      /\ low = 1 => p.state.x <= MaxBlanks
      /\ fits => p.state.y < cells.lines
  BY <1>1 DEF StatesOf
<1>3. Put(p, char, wrap) = IF stays THEN Pending([p.state EXCEPT !.buffer = lines], <<>>)
                           ELSE Pending(p.state, Append(p.fragment, char))
  BY DEF Put
<1>4. CASE stays
  <2>1. <<char>> \in Seq(Characters)
    OBVIOUS
  <2>2. /\ lines \in Seq(LinesOf(low)) /\ Len(lines) = Len(p.state.buffer)
        /\ fits => BelowEmpty(lines, p.state.offset, cells)
    BY <1>1, <2>1, AddedAtKeeps
  <2> DEFINE s == [p.state EXCEPT !.buffer = lines]
  <2> HIDE DEF lines
  <2>3. s = State(lines, p.state.offset, p.state.x, p.state.y)
    BY <1>1 DEF State, StatesOf
  <2> HIDE DEF s
  <2>4. p.state.offset + p.state.y + 1 <= Len(lines)
    BY <1>2, <2>2
  <2>5. fits => p.state.y < cells.lines /\ BelowEmpty(lines, p.state.offset, cells)
    BY <1>2, <2>2
  <2>6. s \in StatesOf(low, fits)
    BY <1>2, <2>2, <2>3, <2>4, <2>5, StateIn
  <2>7. Put(p, char, wrap) = Pending(s, <<>>)
    BY <1>3, <1>4 DEF s
  <2> QED BY <2>6, <2>7, PendingIn
<1>5. CASE ~stays
  <2> DEFINE fragment == Append(p.fragment, char)
             q == Pending(p.state, fragment)
  <2>1. fragment \in Seq(Characters)
    BY <1>1
  <2>2. TextWidth(fragment) = TextWidth(p.fragment) + CharWidth(char)
    BY <1>1, TextWidthSteps
  <2>3. CharWidth(char) \in 1 .. 2 /\ TextWidth(p.fragment) \in Nat
    BY <1>1, TextWidthType DEF CharWidth
  <2>4. cells.columns \in Nat /\ MaxBlanks \in Nat
    BY SizesAssumption, BlanksAssumption
  <2>5. low = 1 => cells.columns < MaxBlanks
    BY DEF NarrowPages
  <2>6. q.state = p.state /\ q.fragment = fragment
        /\ q \in [state : StatesOf(low, fits), fragment : Seq(Characters)]
    BY <1>1, <2>1 DEF Pending
  <2>7. Put(p, char, wrap) = q
    BY <1>3, <1>5
  <2> HIDE DEF fragment, q
  <2>8. low = 1 => q.state.x + TextWidth(q.fragment) <= MaxBlanks
    BY <1>2, <2>2, <2>3, <2>4, <2>5, <2>6
  <2>9. q \in PendingOf(low, fits)
    BY <2>6, <2>8 DEF PendingOf
  <2> QED BY <2>7, <2>9
<1> QED BY <1>4, <1>5

LEMMA CharAddedKeeps ==
  ASSUME NEW low \in {0, 1}, NEW fits \in BOOLEAN, cells \in Sizes, attrs \in Attributes,
         low = 1 => NarrowPages,
         NEW p \in PendingOf(low, fits), NEW char \in Characters \cup {NewLine},
         NEW insert \in BOOLEAN, NEW wrap \in BOOLEAN
  PROVE  CharAdded(p, char, insert, wrap) \in PendingOf(low, fits)
<1>1. CASE char = NewLine
  <2>1. AfterFlush(p, insert) \in StatesOf(low, fits)
    BY AfterFlushKeeps
  <2>2. AfterNewLine(AfterFlush(p, insert)) \in StatesOf(low, fits)
    BY <2>1, AfterNewLineKeeps
  <2> QED BY <1>1, <2>2, PendingIn DEF CharAdded
<1>2. CASE char # NewLine
  <2> DEFINE q == MakeRoom(p, insert, wrap)
  <2>1. q \in PendingOf(low, fits) /\ q.state.x + TextWidth(q.fragment) < cells.columns
    BY MakeRoomKeeps
  <2>2. char \in Characters
    BY <1>2
  <2>3. CharAdded(p, char, insert, wrap) = Put(q, char, wrap)
    BY <1>2 DEF CharAdded
  <2> HIDE DEF q
  <2> QED BY <2>1, <2>2, <2>3, PutKeeps
<1> QED BY <1>1, <1>2

LEMMA TextAddedKeeps ==
  ASSUME NEW low \in {0, 1}, NEW fits \in BOOLEAN, cells \in Sizes, attrs \in Attributes,
         low = 1 => NarrowPages, Now \in StatesOf(low, fits),
         NEW text \in Seq(Characters \cup {NewLine}),
         NEW insert \in BOOLEAN, NEW wrap \in BOOLEAN
  PROVE  TextAdded(text, insert, wrap) \in StatesOf(low, fits)
<1> DEFINE N == Len(text)
           S == PendingOf(low, fits)
           first == Pending(Now, <<>>)
           Is(f) == f = [n \in 0 .. N |->
                           IF n = 0 THEN Pending(Now, <<>>)
                           ELSE CharAdded(f[n - 1], text[n], insert, wrap)]
           step == [n \in 1 .. N |-> [p \in S |-> CharAdded(p, text[n], insert, wrap)]]
           f == CHOOSE f : Is(f)
<1>1. N \in Nat /\ \A n \in 1 .. N : text[n] \in Characters \cup {NewLine}
  OBVIOUS
<1>2. ASSUME NEW n \in 1 .. N, NEW p \in S
      PROVE  CharAdded(p, text[n], insert, wrap) \in S
  BY <1>1, CharAddedKeeps
<1>3. first \in S
  BY PendingIn
<1> HIDE DEF N, S
<1>4. step \in [1 .. N -> [S -> S]]
  BY <1>2
<1>5. \E g : Is(g)
  <2> HIDE DEF step, first
  <2>1. PICK g \in [0 .. N -> S] : Builds(g, N, first, step)
    BY <1>1, <1>3, <1>4, Recursion
  <2>2. ASSUME NEW n \in 1 .. N
        PROVE  g[n] = CharAdded(g[n - 1], text[n], insert, wrap)
    <3>1. g[n - 1] \in S
      BY <1>1
    <3>2. step[n][g[n - 1]] = CharAdded(g[n - 1], text[n], insert, wrap)
      BY <3>1 DEF step
    <3> QED BY <2>1, <3>2 DEF Builds
  <2>3. ASSUME NEW n \in 0 .. N
        PROVE  g[n] = IF n = 0 THEN Pending(Now, <<>>)
                      ELSE CharAdded(g[n - 1], text[n], insert, wrap)
    <3>1. CASE n = 0
      BY <2>1, <3>1 DEF Builds, first
    <3>2. CASE n # 0
      <4>1. n \in 1 .. N
        BY <3>2, <1>1
      <4> QED BY <4>1, <2>2, <3>2
    <3> QED BY <3>1, <3>2
  <2>4. Is(g)
    BY <2>3
  <2> QED BY <2>4
<1>6. Is(f)
  <2> HIDE DEF Is
  <2> QED BY <1>5
<1>7. TextAdded(text, insert, wrap) = AfterFlush(f[N], insert)
  BY DEF TextAdded, N
<1> HIDE DEF f
<1>8. f[0] \in S
  BY <1>1, <1>3, <1>6
<1>9. ASSUME NEW n \in 1 .. N, f[n - 1] \in S PROVE f[n] \in S
  <2>1. n \in 0 .. N /\ n # 0
    BY <1>1
  <2>2. f[n] = CharAdded(f[n - 1], text[n], insert, wrap)
    BY <2>1, <1>6
  <2> QED BY <1>2, <1>9, <2>2
<1>10. \A n \in 0 .. N : f[n] \in S
  BY <1>1, <1>8, <1>9, StaysIn
<1>11. f[N] \in PendingOf(low, fits)
  BY <1>1, <1>10 DEF S
<1> QED BY <1>7, <1>11, AfterFlushKeeps

-----------------------------------------------------------------------------
(* The inductive invariant: while no buffer was set with lines scrolled    *)
(* off, the buffer reaches down to the cursor; and while the page was not  *)
(* made shorter either, the cursor is on it and lines below are empty.     *)

PageSound(low) ==
  /\ buffer \in Seq(LinesOf(low))
  /\ offset \in Nat
  /\ cursor \in [x : Nat, y : Nat]
  /\ low = 1 => cursor.x <= MaxBlanks
  /\ cells \in Sizes
  /\ attrs \in Attributes
  /\ {undefined, shrunk, switched} \subseteq BOOLEAN
  /\ switched \/ offset + cursor.y + 1 <= Len(buffer)
  /\ shrunk \/ switched \/ (cursor.y < cells.lines /\ BelowEmpty(buffer, offset, cells))

LEMMA SoundNext ==
  ASSUME NEW low,
         buffer' \in Seq(LinesOf(low)), offset' \in Nat, cursor' \in [x : Nat, y : Nat],
         low = 1 => cursor'.x <= MaxBlanks, cells' \in Sizes, attrs' \in Attributes,
         {undefined', shrunk', switched'} \subseteq BOOLEAN,
         switched' \/ offset' + cursor'.y + 1 <= Len(buffer'),
         shrunk' \/ switched' \/ (cursor'.y < cells'.lines /\ BelowEmpty(buffer', offset', cells'))
  PROVE  PageSound(low)'
BY DEF PageSound, BelowEmpty

(* What leaves the page as it is but for the lines and the cursor.         *)
LEMMA SoundMoved ==
  ASSUME NEW low, PageSound(low), NEW s \in StatesOf(low, ~shrunk /\ ~switched),
         buffer' = s.buffer, offset' = s.offset, cursor' = At(s.x, s.y),
         UNCHANGED <<cells, attrs, undefined, shrunk, switched>>
  PROVE  PageSound(low)'
<1>1. /\ s.buffer \in Seq(LinesOf(low)) /\ s.offset \in Nat /\ s.x \in Nat /\ s.y \in Nat
      /\ low = 1 => s.x <= MaxBlanks
      /\ s.offset + s.y + 1 <= Len(s.buffer)
  BY DEF StatesOf
<1>2. shrunk \/ switched \/ (s.y < cells.lines /\ BelowEmpty(s.buffer, s.offset, cells))
  <2> DEFINE fits == ~shrunk /\ ~switched
  <2>1. s \in StatesOf(low, fits)
    OBVIOUS
  <2>2. fits => s.y < cells.lines /\ BelowEmpty(s.buffer, s.offset, cells)
    <3> HIDE DEF fits
    <3> QED BY <2>1 DEF StatesOf
  <2> QED BY <2>2, Zenon
<1>3. cursor' \in [x : Nat, y : Nat] /\ cursor'.x = s.x /\ cursor'.y = s.y
  BY <1>1 DEF At
<1>4. cells' \in Sizes /\ attrs' \in Attributes /\ {undefined', shrunk', switched'} \subseteq BOOLEAN
  BY DEF PageSound
<1>5. shrunk' \/ switched' \/ (cursor'.y < cells'.lines /\ BelowEmpty(buffer', offset', cells'))
  BY <1>2, <1>3
<1>6. switched' \/ offset' + cursor'.y + 1 <= Len(buffer')
  BY <1>1, <1>3
<1>7. buffer' \in Seq(LinesOf(low)) /\ offset' \in Nat /\ (low = 1 => cursor'.x <= MaxBlanks)
  BY <1>1, <1>3
<1> QED BY <1>3, <1>4, <1>5, <1>6, <1>7, SoundNext

LEMMA NowSound ==
  ASSUME NEW low \in {0, 1}, PageSound(low), LineExists
  PROVE  /\ Now \in StatesOf(low, ~shrunk /\ ~switched)
         /\ CurrentLine \in 1 .. Len(buffer)
         /\ Len(buffer) \in Nat
         /\ buffer[CurrentLine] \in LinesOf(low)
<1>1. /\ buffer \in Seq(LinesOf(low)) /\ offset \in Nat /\ cursor.x \in Nat /\ cursor.y \in Nat
      /\ low = 1 => cursor.x <= MaxBlanks
  BY DEF PageSound
<1>2. CurrentLine \in 1 .. Len(buffer) /\ Len(buffer) \in Nat
  BY <1>1 DEF LineExists
<1>3. offset + cursor.y + 1 <= Len(buffer)
  BY <1>1, <1>2 DEF CurrentLine
<1>4. ~shrunk /\ ~switched => cursor.y < cells.lines /\ BelowEmpty(buffer, offset, cells)
  BY DEF PageSound
<1>5. Now \in StatesOf(low, ~shrunk /\ ~switched)
  BY <1>1, <1>3, <1>4, StateIn DEF Now
<1>6. buffer[CurrentLine] \in LinesOf(low)
  <2> HIDE DEF CurrentLine
  <2> QED BY <1>1, <1>2
<1> QED BY <1>2, <1>5, <1>6

LEMMA AddTextSound ==
  ASSUME NEW low \in {0, 1}, low = 1 => NarrowPages, PageSound(low),
         NEW text \in Texts, NEW insert \in BOOLEAN, NEW wrap \in BOOLEAN,
         AddText(text, insert, wrap)
  PROVE  PageSound(low)'
<1> DEFINE s == TextAdded(text, insert, wrap)
           fits == ~shrunk /\ ~switched
<1>1. /\ LineExists /\ buffer' = s.buffer /\ offset' = s.offset /\ cursor' = At(s.x, s.y)
      /\ UNCHANGED <<cells, attrs, undefined, shrunk, switched>>
  BY DEF AddText
<1>2. fits \in BOOLEAN /\ cells \in Sizes /\ attrs \in Attributes
  BY DEF PageSound
<1>3. Now \in StatesOf(low, fits)
  BY <1>1, NowSound
<1>4. text \in Seq(Characters \cup {NewLine})
  BY TextsAssumption
<1> HIDE DEF fits
<1>5. s \in StatesOf(low, fits)
  BY <1>2, <1>3, <1>4, TextAddedKeeps
<1> HIDE DEF s
<1> QED BY <1>1, <1>5, SoundMoved DEF fits

(* One line of the page is changed.                                        *)
LEMMA ChangeLineSound ==
  ASSUME NEW low \in {0, 1}, PageSound(low), NEW line \in LinesOf(low), ChangeLine(line)
  PROVE  PageSound(low)'
<1> DEFINE lines == [buffer EXCEPT ![CurrentLine] = line]
           L == LinesOf(low)
<1>1. LineExists /\ buffer' = lines /\ UNCHANGED <<offset, cursor, cells, attrs, undefined, shrunk, switched>>
  BY DEF ChangeLine
<1>2. CurrentLine \in 1 .. Len(buffer) /\ Len(buffer) \in Nat
  BY <1>1, NowSound
<1>3. buffer \in Seq(L) /\ offset \in Nat /\ cursor \in [x : Nat, y : Nat]
  BY DEF PageSound
<1> HIDE DEF L
<1>4. lines \in Seq(L) /\ Len(lines) = Len(buffer) /\ DOMAIN lines = DOMAIN buffer
  <2> HIDE DEF CurrentLine
  <2>1. line \in L
    BY DEF L
  <2> QED BY <1>2, <1>3, <2>1
<1>5. ~shrunk /\ ~switched => cursor.y < cells.lines /\ BelowEmpty(lines, offset, cells)
  <2> SUFFICES ASSUME ~shrunk, ~switched
               PROVE  cursor.y < cells.lines /\ BelowEmpty(lines, offset, cells)
    OBVIOUS
  <2>1. cursor.y < cells.lines /\ BelowEmpty(buffer, offset, cells)
    BY DEF PageSound
  <2>2. cells.lines \in Nat
    BY SizesAssumption DEF PageSound
  <2>3. CurrentLine <= offset + cells.lines
    BY <2>1, <2>2, <1>3 DEF CurrentLine
  <2>4. ASSUME NEW i \in DOMAIN lines, i > offset + cells.lines
        PROVE  lines[i] = NewLineOfBuffer
    <3>1. i \in DOMAIN buffer /\ i \in Int
      BY <1>3, <1>4
    <3>2. i # CurrentLine
      BY <2>2, <2>3, <2>4, <3>1, <1>2, <1>3
    <3>3. lines[i] = buffer[i]
      BY <3>1, <3>2
    <3> QED BY <2>1, <2>4, <3>1, <3>3 DEF BelowEmpty
  <2> QED BY <2>1, <2>4 DEF BelowEmpty
<1>6. switched \/ offset + cursor.y + 1 <= Len(lines)
  BY <1>4 DEF PageSound
<1> HIDE DEF lines
<1>7. /\ buffer' \in Seq(LinesOf(low)) /\ offset' \in Nat /\ cursor' \in [x : Nat, y : Nat]
      /\ low = 1 => cursor'.x <= MaxBlanks
      /\ cells' \in Sizes /\ attrs' \in Attributes /\ {undefined', shrunk', switched'} \subseteq BOOLEAN
  BY <1>1, <1>3, <1>4 DEF PageSound, L
<1>8. switched' \/ offset' + cursor'.y + 1 <= Len(buffer')
  BY <1>1, <1>6
<1>9. shrunk' \/ switched' \/ (cursor'.y < cells'.lines /\ BelowEmpty(buffer', offset', cells'))
  <2>1. /\ buffer' = lines /\ offset' = offset /\ cursor' = cursor /\ cells' = cells
        /\ shrunk' = shrunk /\ switched' = switched
    BY <1>1
  <2>2. shrunk \/ switched \/ (cursor.y < cells.lines /\ BelowEmpty(lines, offset, cells))
    BY <1>5, Zenon
  <2> QED BY <2>1, <2>2, Zenon
<1> QED BY <1>7, <1>8, <1>9, SoundNext

LEMMA EraseInLineSound ==
  ASSUME NEW low \in {0, 1}, low = 1 => NarrowPages, PageSound(low),
         NEW first \in Columns, NEW num \in Columns, EraseInLine(first, num)
  PROVE  PageSound(low)'
<1> DEFINE tooMany == first <= cells.columns /\ num > cells.columns - first
           n == IF tooMany THEN 0 ELSE num
           line == LineEraseText(buffer[CurrentLine], first, n, attrs)
<1>1. ChangeLine(line)
  BY DEF EraseInLine
<1>2. buffer[CurrentLine] \in LinesOf(low)
  BY <1>1, NowSound DEF ChangeLine
<1>3. first \in Nat /\ n \in Nat /\ (low = 0 \/ first <= MaxBlanks)
  BY BoundsAssumption, BlanksAssumption DEF Columns, NarrowPages
<1>4. attrs \in Attributes
  BY DEF PageSound
<1> HIDE DEF n
<1>5. line \in LinesOf(low)
  BY <1>2, <1>3, <1>4, LineEraseTextType
<1> HIDE DEF line
<1> QED BY <1>1, <1>5, ChangeLineSound

LEMMA DeleteTextSound ==
  ASSUME NEW low \in {0, 1}, low = 1 => NarrowPages, PageSound(low),
         NEW first \in Columns, NEW num \in Columns, DeleteText(first, num)
  PROVE  PageSound(low)'
<1> DEFINE line == LineDeleteText(buffer[CurrentLine], first, num)
<1>1. ChangeLine(line)
  BY DEF DeleteText
<1>2. buffer[CurrentLine] \in LinesOf(low)
  BY <1>1, NowSound DEF ChangeLine
<1>3. first \in Nat /\ num \in Nat /\ (low = 0 \/ first <= MaxBlanks)
  BY BoundsAssumption, BlanksAssumption DEF Columns, NarrowPages
<1>4. line \in LinesOf(low)
  BY <1>2, <1>3, LineDeleteTextType
<1> HIDE DEF line
<1> QED BY <1>1, <1>4, ChangeLineSound

LEMMA EraseToEndOfPageSound ==
  ASSUME NEW low \in {0, 1}, PageSound(low), EraseToEndOfPage
  PROVE  PageSound(low)'
<1> DEFINE L == LinesOf(low)
           erased == LineEraseText(buffer[CurrentLine], cursor.x, 0, attrs)
           line == [erased EXCEPT !.page = TRUE]
           above == SubSeq(buffer, 1, CurrentLine - 1)
           lines == Append(above, line)
           s == State(lines, offset, cursor.x, cursor.y)
<1>1. /\ LineExists /\ buffer' = lines
      /\ UNCHANGED <<offset, cursor, cells, attrs, undefined, shrunk, switched>>
  BY DEF EraseToEndOfPage
<1>2. /\ CurrentLine \in 1 .. Len(buffer) /\ Len(buffer) \in Nat
      /\ buffer[CurrentLine] \in LinesOf(low)
  BY <1>1, NowSound
<1>3. /\ buffer \in Seq(L) /\ offset \in Nat /\ cursor \in [x : Nat, y : Nat]
      /\ attrs \in Attributes /\ (low = 1 => cursor.x <= MaxBlanks)
  BY DEF PageSound
<1>4. erased \in LinesOf(low)
  <2>1. cursor.x \in Nat /\ 0 \in Nat /\ (low = 0 \/ cursor.x <= MaxBlanks)
    BY <1>3
  <2> QED BY <2>1, <1>2, <1>3, LineEraseTextType
<1>5. line \in L
  <2> HIDE DEF erased
  <2> QED BY <1>4 DEF LinesOf
<1> HIDE DEF L, line
<1>6. /\ above \in Seq(L) /\ Len(above) = CurrentLine - 1
      /\ \A i \in 1 .. CurrentLine - 1 : above[i] = buffer[i]
  <2> HIDE DEF CurrentLine
  <2> QED BY <1>2, <1>3
<1> HIDE DEF above
<1>7. /\ lines \in Seq(L) /\ Len(lines) = CurrentLine
      /\ DOMAIN lines = 1 .. CurrentLine
  <2> HIDE DEF CurrentLine
  <2> QED BY <1>2, <1>5, <1>6
<1> HIDE DEF lines
<1>8. CurrentLine = offset + cursor.y + 1
  BY DEF CurrentLine
<1>9. ~shrunk /\ ~switched => cursor.y < cells.lines /\ BelowEmpty(lines, offset, cells)
  <2> SUFFICES ASSUME ~shrunk, ~switched
               PROVE  cursor.y < cells.lines /\ BelowEmpty(lines, offset, cells)
    OBVIOUS
  <2>1. cursor.y < cells.lines
    BY DEF PageSound
  <2>2. cells.lines \in Nat
    BY SizesAssumption DEF PageSound
  <2>3. \A i \in DOMAIN lines : ~(i > offset + cells.lines)
    BY <2>1, <2>2, <1>3, <1>7, <1>8
  <2> QED BY <2>1, <2>3 DEF BelowEmpty
<1>10. offset + cursor.y + 1 <= Len(lines)
  BY <1>3, <1>7, <1>8
<1>11. s \in StatesOf(low, ~shrunk /\ ~switched)
  <2>1. lines \in Seq(LinesOf(low)) /\ cursor.x \in Nat /\ cursor.y \in Nat
    BY <1>3, <1>7 DEF L
  <2> QED BY <2>1, <1>3, <1>9, <1>10, StateIn
<1>12. s.buffer = lines /\ s.offset = offset /\ s.x = cursor.x /\ s.y = cursor.y
  BY DEF State
<1>13. cursor = At(cursor.x, cursor.y)
  BY <1>3 DEF At
<1> HIDE DEF s
<1>14. buffer' = s.buffer /\ offset' = s.offset /\ cursor' = At(s.x, s.y)
  BY <1>1, <1>12, <1>13
<1> QED BY <1>1, <1>11, <1>14, SoundMoved

LEMMA EraseToCursorSound ==
  ASSUME NEW low \in {0, 1}, PageSound(low), EraseToCursor
  PROVE  PageSound(low)'
<1> DEFINE L == LinesOf(low)
           LineAt(i) == CASE i > offset /\ i < CurrentLine -> LineClear(buffer[i], attrs)
                          [] i = CurrentLine -> LineEraseText(buffer[i], 0, cursor.x + 1, attrs)
                          [] OTHER -> buffer[i]
           lines == [i \in DOMAIN buffer |-> LineAt(i)]
           s == State(lines, offset, cursor.x, cursor.y)
<1>1. /\ LineExists /\ buffer' = lines
      /\ UNCHANGED <<offset, cursor, cells, attrs, undefined, shrunk, switched>>
  BY DEF EraseToCursor
<1>2. /\ CurrentLine \in 1 .. Len(buffer) /\ Len(buffer) \in Nat
  BY <1>1, NowSound
<1>3. /\ buffer \in Seq(L) /\ offset \in Nat /\ cursor \in [x : Nat, y : Nat]
      /\ attrs \in Attributes /\ DOMAIN buffer = 1 .. Len(buffer)
  BY DEF PageSound
<1>4. ASSUME NEW i \in DOMAIN buffer PROVE LineAt(i) \in L
  <2>1. buffer[i] \in LinesOf(low)
    BY <1>3
  <2>2. LineClear(buffer[i], attrs) \in L
    BY <2>1, <1>3, LineClearType
  <2>3. LineEraseText(buffer[i], 0, cursor.x + 1, attrs) \in L
    <3>1. 0 \in Nat /\ cursor.x + 1 \in Nat /\ (low = 0 \/ 0 <= MaxBlanks)
      BY <1>3, BlanksAssumption
    <3> QED BY <2>1, <3>1, <1>3, LineEraseTextType
  <2> HIDE DEF CurrentLine
  <2> QED BY <2>1, <2>2, <2>3
<1>5. \A i \in DOMAIN buffer : i > CurrentLine => LineAt(i) = buffer[i]
  <2> HIDE DEF CurrentLine
  <2> QED BY <1>2, <1>3
<1> HIDE DEF L, LineAt
<1>6. /\ lines \in Seq(L) /\ Len(lines) = Len(buffer) /\ DOMAIN lines = DOMAIN buffer
  BY <1>2, <1>3, <1>4
<1>7. \A i \in DOMAIN buffer : lines[i] = LineAt(i)
  OBVIOUS
<1> HIDE DEF lines
<1>8. CurrentLine = offset + cursor.y + 1
  BY DEF CurrentLine
<1>9. ~shrunk /\ ~switched => cursor.y < cells.lines /\ BelowEmpty(lines, offset, cells)
  <2> SUFFICES ASSUME ~shrunk, ~switched
               PROVE  cursor.y < cells.lines /\ BelowEmpty(lines, offset, cells)
    OBVIOUS
  <2>1. cursor.y < cells.lines /\ BelowEmpty(buffer, offset, cells)
    BY DEF PageSound
  <2>2. cells.lines \in Nat
    BY SizesAssumption DEF PageSound
  <2>3. ASSUME NEW i \in DOMAIN buffer, i > offset + cells.lines
        PROVE  lines[i] = NewLineOfBuffer
    <3>1. i > CurrentLine
      BY <2>1, <2>2, <2>3, <1>2, <1>3, <1>8
    <3> QED BY <3>1, <2>1, <2>3, <1>5, <1>7 DEF BelowEmpty
  <2> QED BY <2>1, <2>3, <1>6 DEF BelowEmpty
<1>10. offset + cursor.y + 1 <= Len(lines)
  BY <1>2, <1>6, <1>8
<1>11. s \in StatesOf(low, ~shrunk /\ ~switched)
  <2>1. lines \in Seq(LinesOf(low)) /\ cursor.x \in Nat /\ cursor.y \in Nat
    BY <1>3, <1>6 DEF L
  <2>2. low = 1 => cursor.x <= MaxBlanks
    BY DEF PageSound
  <2> QED BY <2>1, <2>2, <1>3, <1>9, <1>10, StateIn
<1>12. s.buffer = lines /\ s.offset = offset /\ s.x = cursor.x /\ s.y = cursor.y
  BY DEF State
<1>13. cursor = At(cursor.x, cursor.y)
  BY <1>3 DEF At
<1> HIDE DEF s
<1>14. buffer' = s.buffer /\ offset' = s.offset /\ cursor' = At(s.x, s.y)
  BY <1>1, <1>12, <1>13
<1> QED BY <1>1, <1>11, <1>14, SoundMoved

(* A page with one line, which is the last of the buffer.                  *)
LEMMA FirstLineIn ==
  ASSUME NEW low \in {0, 1}, PageSound(low), NEW top \in Nat,
         NEW lines \in Seq(LinesOf(low)), Len(lines) = top + 1
  PROVE  State(lines, top, 0, 0) \in StatesOf(low, ~shrunk /\ ~switched)
<1>1. cells.lines \in Nat /\ cells.lines > 0
  BY SizesAssumption DEF PageSound
<1>2. \A i \in DOMAIN lines : ~(i > top + cells.lines)
  BY <1>1
<1>3. BelowEmpty(lines, top, cells) /\ 0 < cells.lines
  BY <1>1, <1>2 DEF BelowEmpty
<1>4. 0 \in Nat /\ (low = 1 => 0 <= MaxBlanks) /\ top + 0 + 1 <= Len(lines)
  BY BlanksAssumption
<1> QED BY <1>3, <1>4, StateIn

LEMMA ErasePageSound ==
  ASSUME NEW low \in {0, 1}, PageSound(low), ErasePage
  PROVE  PageSound(low)'
<1> DEFINE L == LinesOf(low)
           above == SubSeq(buffer, 1, offset)
           lines == Append(above, NewLineOfBuffer)
           s == State(lines, offset, 0, 0)
<1>1. /\ offset <= Len(buffer) /\ buffer' = lines /\ cursor' = At(0, 0)
      /\ UNCHANGED <<offset, cells, attrs, undefined, shrunk, switched>>
  BY DEF ErasePage
<1>2. buffer \in Seq(L) /\ offset \in Nat
  BY DEF PageSound
<1>3. NewLineOfBuffer \in L
  BY NewLineType
<1> HIDE DEF L
<1>4. above \in Seq(L) /\ Len(above) = offset
  BY <1>1, <1>2
<1> HIDE DEF above
<1>5. lines \in Seq(L) /\ Len(lines) = offset + 1
  BY <1>2, <1>3, <1>4
<1> HIDE DEF lines
<1>6. s \in StatesOf(low, ~shrunk /\ ~switched)
  BY <1>2, <1>5, FirstLineIn DEF L
<1>7. s.buffer = lines /\ s.offset = offset /\ s.x = 0 /\ s.y = 0
  BY DEF State
<1> HIDE DEF s
<1>8. buffer' = s.buffer /\ offset' = s.offset /\ cursor' = At(s.x, s.y)
  BY <1>1, <1>7
<1> QED BY <1>1, <1>6, <1>8, SoundMoved

LEMMA EraseBufferSound ==
  ASSUME NEW low \in {0, 1}, PageSound(low), EraseBuffer
  PROVE  PageSound(low)'
<1> DEFINE lines == <<NewLineOfBuffer>>
           s == State(lines, 0, 0, 0)
<1>1. /\ buffer' = lines /\ cursor' = At(0, 0) /\ offset' = 0
      /\ UNCHANGED <<cells, attrs, undefined, shrunk, switched>>
  BY DEF EraseBuffer
<1>2. NewLineOfBuffer \in LinesOf(low)
  BY NewLineType
<1>3. lines \in Seq(LinesOf(low)) /\ Len(lines) = 0 + 1
  BY <1>2
<1> HIDE DEF lines
<1>4. s \in StatesOf(low, ~shrunk /\ ~switched)
  <2>1. 0 \in Nat
    OBVIOUS
  <2> QED BY <2>1, <1>3, FirstLineIn
<1>5. s.buffer = lines /\ s.offset = 0 /\ s.x = 0 /\ s.y = 0
  BY DEF State
<1> HIDE DEF s
<1>6. buffer' = s.buffer /\ offset' = s.offset /\ cursor' = At(s.x, s.y)
  BY <1>1, <1>5
<1> QED BY <1>1, <1>4, <1>6, SoundMoved

LEMMA EraseScrollbackSound ==
  ASSUME NEW low \in {0, 1}, PageSound(low), EraseScrollback
  PROVE  PageSound(low)'
<1> DEFINE L == LinesOf(low)
           lines == SubSeq(buffer, offset + 1, Len(buffer))
<1>1. /\ offset <= Len(buffer) /\ buffer' = lines /\ offset' = 0
      /\ UNCHANGED <<cursor, cells, attrs, undefined, shrunk, switched>>
  BY DEF EraseScrollback
<1>2. buffer \in Seq(L) /\ offset \in Nat /\ cursor \in [x : Nat, y : Nat] /\ Len(buffer) \in Nat
  BY DEF PageSound
<1> HIDE DEF L
<1>3. /\ lines \in Seq(L) /\ Len(lines) = Len(buffer) - offset
      /\ \A i \in 1 .. Len(buffer) - offset : lines[i] = buffer[i + offset]
  BY <1>1, <1>2
<1> HIDE DEF lines
<1>4. switched' \/ offset' + cursor'.y + 1 <= Len(buffer')
  <2>1. switched \/ offset + cursor.y + 1 <= Len(buffer)
    BY DEF PageSound
  <2> QED BY <2>1, <1>1, <1>2, <1>3
<1>5. shrunk \/ switched \/ (cursor.y < cells.lines /\ BelowEmpty(lines, 0, cells))
  <2> SUFFICES ASSUME ~shrunk, ~switched
               PROVE  cursor.y < cells.lines /\ BelowEmpty(lines, 0, cells)
    OBVIOUS
  <2>1. cursor.y < cells.lines /\ BelowEmpty(buffer, offset, cells)
    BY DEF PageSound
  <2>2. cells.lines \in Nat
    BY SizesAssumption DEF PageSound
  <2>3. ASSUME NEW i \in DOMAIN lines, i > 0 + cells.lines
        PROVE  lines[i] = NewLineOfBuffer
    <3>1. i \in 1 .. Len(buffer) - offset
      BY <1>3
    <3>2. i + offset \in 1 .. Len(buffer) /\ i + offset > offset + cells.lines
      BY <3>1, <2>2, <2>3, <1>1, <1>2
    <3>3. buffer[i + offset] = NewLineOfBuffer
      <4>1. i + offset \in DOMAIN buffer
        BY <3>2, <1>2
      <4> QED BY <4>1, <3>2, <2>1 DEF BelowEmpty
    <3> QED BY <3>1, <3>3, <1>3
  <2> QED BY <2>1, <2>3 DEF BelowEmpty
<1>6. shrunk' \/ switched' \/ (cursor'.y < cells'.lines /\ BelowEmpty(buffer', offset', cells'))
  <2>1. /\ buffer' = lines /\ offset' = 0 /\ cursor' = cursor /\ cells' = cells
        /\ shrunk' = shrunk /\ switched' = switched
    BY <1>1
  <2> QED BY <2>1, <1>5, Zenon
<1>7. /\ cursor' \in [x : Nat, y : Nat] /\ (low = 1 => cursor'.x <= MaxBlanks)
      /\ cells' \in Sizes /\ attrs' \in Attributes /\ {undefined', shrunk', switched'} \subseteq BOOLEAN
  BY <1>1 DEF PageSound
<1>8. buffer' \in Seq(LinesOf(low)) /\ offset' \in Nat
  BY <1>1, <1>3 DEF L
<1> QED BY <1>4, <1>6, <1>7, <1>8, SoundNext

LEMMA SetBufferSound ==
  ASSUME NEW low \in {0, 1}, PageSound(low), SetBuffer
  PROVE  PageSound(low)'
<1> DEFINE lines == <<NewLineOfBuffer>>
<1>1. /\ buffer' = lines /\ cursor' = At(0, 0) /\ switched' = (switched \/ offset > 0)
      /\ UNCHANGED <<offset, cells, attrs, undefined, shrunk>>
  BY DEF SetBuffer
<1>2. NewLineOfBuffer \in LinesOf(low)
  BY NewLineType
<1>3. lines \in Seq(LinesOf(low)) /\ Len(lines) = 1 /\ DOMAIN lines = 1 .. 1
  BY <1>2
<1> HIDE DEF lines
<1>4. cells.lines \in Nat /\ cells.lines > 0 /\ offset \in Nat
  BY SizesAssumption DEF PageSound
<1>5. cursor' \in [x : Nat, y : Nat] /\ cursor'.x = 0 /\ cursor'.y = 0
  BY <1>1 DEF At
<1>6. switched' \/ offset' + cursor'.y + 1 <= Len(buffer')
  <2>1. offset > 0 => switched'
    BY <1>1, Zenon
  <2>2. ~(offset > 0) => offset' + cursor'.y + 1 <= Len(buffer')
    BY <1>1, <1>3, <1>4, <1>5
  <2> QED BY <2>1, <2>2, Zenon
<1>7. 0 < cells.lines /\ BelowEmpty(lines, offset, cells)
  <2>1. \A i \in DOMAIN lines : ~(i > offset + cells.lines)
    BY <1>3, <1>4
  <2> QED BY <2>1, <1>4 DEF BelowEmpty
<1>8. shrunk' \/ switched' \/ (cursor'.y < cells'.lines /\ BelowEmpty(buffer', offset', cells'))
  <2>1. buffer' = lines /\ offset' = offset /\ cursor'.y = 0 /\ cells' = cells
    BY <1>1, <1>5
  <2> QED BY <2>1, <1>7, Zenon
<1>9. /\ low = 1 => cursor'.x <= MaxBlanks
      /\ cells' \in Sizes /\ attrs' \in Attributes
      /\ buffer' \in Seq(LinesOf(low)) /\ offset' \in Nat
  BY <1>1, <1>3, <1>4, <1>5, BlanksAssumption DEF PageSound
<1>10. {undefined', shrunk', switched'} \subseteq BOOLEAN
  <2>1. undefined' = undefined /\ shrunk' = shrunk
    BY <1>1
  <2>2. switched' \in BOOLEAN
    BY <1>1, Zenon
  <2> QED BY <2>1, <2>2 DEF PageSound
<1> QED BY <1>5, <1>6, <1>8, <1>9, <1>10, SoundNext

LEMMA SetCursorXSound ==
  ASSUME NEW low \in {0, 1}, low = 1 => NarrowPages, PageSound(low),
         NEW column \in Columns, SetCursorX(column)
  PROVE  PageSound(low)'
<1>1. /\ cursor' = At(Lower(column, cells.columns), cursor.y)
      /\ UNCHANGED <<buffer, offset, cells, attrs, undefined, shrunk, switched>>
  BY DEF SetCursorX
<1>2. column \in Nat /\ cells.columns \in Nat /\ MaxBlanks \in Nat /\ cursor.y \in Nat
  BY BoundsAssumption, SizesAssumption, BlanksAssumption DEF Columns, PageSound
<1>3. low = 1 => cells.columns <= MaxBlanks
  BY <1>2 DEF PageSound, NarrowPages
<1>4. /\ cursor' \in [x : Nat, y : Nat] /\ cursor'.y = cursor.y
      /\ low = 1 => cursor'.x <= MaxBlanks
  BY <1>1, <1>2, <1>3 DEF At, Lower
<1>5. switched' \/ offset' + cursor'.y + 1 <= Len(buffer')
  BY <1>1, <1>4 DEF PageSound
<1>6. shrunk' \/ switched' \/ (cursor'.y < cells'.lines /\ BelowEmpty(buffer', offset', cells'))
  <2>1. /\ buffer' = buffer /\ offset' = offset /\ cursor'.y = cursor.y /\ cells' = cells
        /\ shrunk' = shrunk /\ switched' = switched
    BY <1>1, <1>4
  <2>2. shrunk \/ switched \/ (cursor.y < cells.lines /\ BelowEmpty(buffer, offset, cells))
    BY DEF PageSound
  <2> QED BY <2>1, <2>2, Zenon
<1>7. /\ cells' \in Sizes /\ attrs' \in Attributes /\ {undefined', shrunk', switched'} \subseteq BOOLEAN
      /\ buffer' \in Seq(LinesOf(low)) /\ offset' \in Nat
  BY <1>1 DEF PageSound
<1> QED BY <1>4, <1>5, <1>6, <1>7, SoundNext

LEMMA SetCursorYSound ==
  ASSUME NEW low \in {0, 1}, PageSound(low), NEW row \in Nat, SetCursorY(row)
  PROVE  PageSound(low)'
<1> DEFINE L == LinesOf(low)
           y == Lower(row, cells.lines)
           needed == IF offset <= Len(buffer) THEN offset + y + 1 ELSE 0
           added == [i \in 1 .. needed - Len(buffer) |-> NewLineOfBuffer]
           lines == buffer \o added
           scrolled == y >= cells.lines
           top == IF scrolled THEN offset + (y - cells.lines + 1) ELSE offset
           below == IF scrolled THEN cells.lines - 1 ELSE y
<1>1. /\ buffer' = lines /\ offset' = top /\ cursor' = At(cursor.x, below)
      /\ UNCHANGED <<cells, attrs, undefined, shrunk, switched>>
  BY DEF SetCursorY
<1>2. /\ buffer \in Seq(L) /\ offset \in Nat /\ cursor \in [x : Nat, y : Nat]
      /\ Len(buffer) \in Nat /\ DOMAIN buffer = 1 .. Len(buffer)
  BY DEF PageSound
<1>3. cells.lines \in Nat /\ cells.lines > 0
  BY SizesAssumption DEF PageSound
<1>4. y \in Nat /\ y <= cells.lines
  BY <1>3 DEF Lower
<1> HIDE DEF y
<1>5. needed \in Nat /\ (offset <= Len(buffer) => needed = offset + y + 1)
  BY <1>2, <1>4
<1>6. /\ top \in Nat /\ below \in Nat /\ top + below + 1 = offset + y + 1
      /\ below < cells.lines /\ offset <= top
  <2>1. CASE scrolled
    <3>1. y = cells.lines /\ top = offset + 1 /\ below = cells.lines - 1
      BY <2>1, <1>2, <1>3, <1>4
    <3> HIDE DEF top, below
    <3> QED BY <3>1, <1>2, <1>3
  <2>2. CASE ~scrolled
    <3>1. y < cells.lines /\ top = offset /\ below = y
      BY <2>2, <1>2, <1>3, <1>4
    <3> HIDE DEF top, below
    <3> QED BY <3>1, <1>2, <1>3, <1>4
  <2> QED BY <2>1, <2>2
<1>7. NewLineOfBuffer \in L
  BY NewLineType
<1> HIDE DEF L, needed, top, below
<1>8. PICK more \in Nat : /\ added = [i \in 1 .. more |-> NewLineOfBuffer]
                          /\ needed <= Len(buffer) + more
  <2>1. CASE needed >= Len(buffer)
    <3>1. needed - Len(buffer) \in Nat /\ needed <= Len(buffer) + (needed - Len(buffer))
      BY <2>1, <1>2, <1>5
    <3> QED BY <3>1
  <2>2. CASE ~(needed >= Len(buffer))
    <3>1. 1 .. needed - Len(buffer) = 1 .. 0 /\ needed <= Len(buffer) + 0
      BY <2>2, <1>2, <1>5
    <3>2. added = [i \in 1 .. 0 |-> NewLineOfBuffer]
      BY <3>1
    <3> QED BY <3>1, <3>2
  <2> QED BY <2>1, <2>2
<1> HIDE DEF added
<1>9. added \in Seq(L) /\ Len(added) = more /\ \A i \in 1 .. more : added[i] = NewLineOfBuffer
  BY <1>7, <1>8
<1>10. /\ lines \in Seq(L) /\ Len(lines) = Len(buffer) + more
       /\ DOMAIN lines = 1 .. Len(buffer) + more
       /\ \A i \in 1 .. Len(buffer) : lines[i] = buffer[i]
       /\ \A i \in Len(buffer) + 1 .. Len(buffer) + more : lines[i] = NewLineOfBuffer
  <2>1. lines \in Seq(L) /\ Len(lines) = Len(buffer) + more
    BY <1>2, <1>9
  <2>2. \A i \in 1 .. Len(buffer) + more :
           lines[i] = IF i <= Len(buffer) THEN buffer[i] ELSE added[i - Len(buffer)]
    BY <1>2, <1>9, ConcatProperties
  <2> HIDE DEF lines
  <2>3. ASSUME NEW i \in Len(buffer) + 1 .. Len(buffer) + more
        PROVE  lines[i] = NewLineOfBuffer
    <3>1. i - Len(buffer) \in 1 .. more /\ i \in 1 .. Len(buffer) + more /\ ~(i <= Len(buffer))
      BY <1>2, <1>8
    <3> QED BY <3>1, <2>2, <1>9
  <2> QED BY <2>1, <2>2, <2>3, <1>2, <1>8
<1> HIDE DEF lines
<1>11. shrunk \/ switched \/ (below < cells.lines /\ BelowEmpty(lines, top, cells))
  <2> SUFFICES ASSUME ~shrunk, ~switched
               PROVE  below < cells.lines /\ BelowEmpty(lines, top, cells)
    OBVIOUS
  <2>1. BelowEmpty(buffer, offset, cells)
    BY DEF PageSound
  <2>2. ASSUME NEW i \in DOMAIN lines, i > top + cells.lines
        PROVE  lines[i] = NewLineOfBuffer
    <3>1. i \in Int /\ i > offset + cells.lines
      BY <2>2, <1>2, <1>3, <1>6, <1>8, <1>10
    <3>2. CASE i <= Len(buffer)
      <4>1. i \in DOMAIN buffer /\ lines[i] = buffer[i]
        BY <3>2, <1>2, <1>8, <1>10
      <4> QED BY <4>1, <3>1, <2>1 DEF BelowEmpty
    <3>3. CASE ~(i <= Len(buffer))
      <4>1. i \in Len(buffer) + 1 .. Len(buffer) + more
        BY <3>1, <3>3, <1>2, <1>8, <1>10
      <4> QED BY <4>1, <1>10
    <3> QED BY <3>2, <3>3
  <2> QED BY <2>2, <1>6 DEF BelowEmpty
<1>12. switched \/ top + below + 1 <= Len(lines)
  <2>1. switched \/ offset + cursor.y + 1 <= Len(buffer)
    BY DEF PageSound
  <2>2. offset <= Len(buffer) => top + below + 1 <= Len(lines)
    BY <1>2, <1>5, <1>6, <1>8, <1>10
  <2>3. offset + cursor.y + 1 <= Len(buffer) => offset <= Len(buffer)
    BY <1>2
  <2> QED BY <2>1, <2>2, <2>3
<1>13. /\ cursor' \in [x : Nat, y : Nat] /\ cursor'.y = below /\ cursor'.x = cursor.x
  BY <1>1, <1>2, <1>6 DEF At
<1>14. switched' \/ offset' + cursor'.y + 1 <= Len(buffer')
  BY <1>1, <1>12, <1>13
<1>15. shrunk' \/ switched' \/ (cursor'.y < cells'.lines /\ BelowEmpty(buffer', offset', cells'))
  <2>1. /\ buffer' = lines /\ offset' = top /\ cursor'.y = below /\ cells' = cells
        /\ shrunk' = shrunk /\ switched' = switched
    BY <1>1, <1>13
  <2> QED BY <2>1, <1>11, Zenon
<1>16. /\ cells' \in Sizes /\ attrs' \in Attributes /\ {undefined', shrunk', switched'} \subseteq BOOLEAN
       /\ buffer' \in Seq(LinesOf(low)) /\ offset' \in Nat
       /\ low = 1 => cursor'.x <= MaxBlanks
  BY <1>1, <1>6, <1>10, <1>13 DEF PageSound, L
<1> QED BY <1>13, <1>14, <1>15, <1>16, SoundNext

LEMMA ResizeSound ==
  ASSUME NEW low \in {0, 1}, PageSound(low), NEW s \in Sizes, Resize(s)
  PROVE  PageSound(low)'
<1>1. /\ cells' = s /\ shrunk' = (shrunk \/ s.lines < cells.lines)
      /\ UNCHANGED <<buffer, offset, cursor, attrs, undefined, switched>>
  BY DEF Resize
<1>2. /\ offset \in Nat /\ cursor \in [x : Nat, y : Nat] /\ buffer \in Seq(LinesOf(low))
      /\ s.lines \in Nat /\ cells.lines \in Nat
  BY SizesAssumption DEF PageSound
<1>3. shrunk' \in BOOLEAN
  BY <1>1, Zenon
<1>4. shrunk' \/ switched' \/ (cursor'.y < cells'.lines /\ BelowEmpty(buffer', offset', cells'))
  <2>1. CASE shrunk \/ switched \/ s.lines < cells.lines
    BY <1>1, <2>1, Zenon
  <2>2. CASE ~shrunk /\ ~switched /\ ~(s.lines < cells.lines)
    <3>1. cursor.y < cells.lines /\ BelowEmpty(buffer, offset, cells)
      BY <2>2 DEF PageSound
    <3>2. cells.lines <= s.lines
      BY <2>2, <1>2
    <3>3. cursor.y < s.lines
      BY <3>1, <3>2, <1>2
    <3>4. BelowEmpty(buffer, offset, s)
      <4> SUFFICES ASSUME NEW i \in DOMAIN buffer, i > offset + s.lines
                   PROVE  buffer[i] = NewLineOfBuffer
        BY DEF BelowEmpty
      <4>1. i > offset + cells.lines
        BY <3>2, <1>2
      <4> QED BY <4>1, <3>1 DEF BelowEmpty
    <3>5. buffer' = buffer /\ offset' = offset /\ cursor' = cursor /\ cells' = s
      BY <1>1
    <3> QED BY <3>3, <3>4, <3>5, Zenon
  <2> QED BY <2>1, <2>2, Zenon
<1>5. switched' \/ offset' + cursor'.y + 1 <= Len(buffer')
  BY <1>1 DEF PageSound
<1>6. /\ cells' \in Sizes /\ attrs' \in Attributes /\ {undefined', shrunk', switched'} \subseteq BOOLEAN
      /\ buffer' \in Seq(LinesOf(low)) /\ offset' \in Nat /\ cursor' \in [x : Nat, y : Nat]
      /\ low = 1 => cursor'.x <= MaxBlanks
  BY <1>1, <1>3 DEF PageSound
<1> QED BY <1>4, <1>5, <1>6, SoundNext

(* The others change neither the page nor the cursor.                      *)
LEMMA OthersSound ==
  ASSUME NEW low \in {0, 1}, PageSound(low),
         UNCHANGED <<buffer, offset, cursor, cells, shrunk, switched>>,
         attrs' \in Attributes, undefined' \in BOOLEAN
  PROVE  PageSound(low)'
<1>1. /\ buffer' = buffer /\ offset' = offset /\ cursor' = cursor /\ cells' = cells
      /\ shrunk' = shrunk /\ switched' = switched
  OBVIOUS
<1>2. shrunk' \/ switched' \/ (cursor'.y < cells'.lines /\ BelowEmpty(buffer', offset', cells'))
  <2>1. shrunk \/ switched \/ (cursor.y < cells.lines /\ BelowEmpty(buffer, offset, cells))
    BY DEF PageSound
  <2>2. cursor'.y = cursor.y /\ cells'.lines = cells.lines
    BY <1>1
  <2>3. BelowEmpty(buffer', offset', cells') = BelowEmpty(buffer, offset, cells)
    BY <1>1
  <2> QED BY <2>1, <2>2, <2>3, <1>1
<1>3. switched' \/ offset' + cursor'.y + 1 <= Len(buffer')
  BY <1>1 DEF PageSound
<1>4. /\ buffer' \in Seq(LinesOf(low)) /\ offset' \in Nat /\ cursor' \in [x : Nat, y : Nat]
      /\ low = 1 => cursor'.x <= MaxBlanks
      /\ cells' \in Sizes /\ {undefined', shrunk', switched'} \subseteq BOOLEAN
  BY <1>1 DEF PageSound
<1> QED BY <1>2, <1>3, <1>4, SoundNext

-----------------------------------------------------------------------------

LEMMA InitSound ==
  ASSUME NEW low \in {0, 1}, Init
  PROVE  PageSound(low)
<1>1. PICK line \in FirstLines : buffer = <<line>>
  BY DEF Init
<1>2. Lines \subseteq LinesOf(low)
  <2>1. 1 .. MaxBlanks \subseteq low .. MaxBlanks
    BY BlanksAssumption
  <2>2. Tokens \subseteq TokensOf(low)
    BY <2>1 DEF Tokens, TokensOf
  <2>3. Seq(Tokens) \subseteq Seq(TokensOf(low))
    <3> HIDE DEF Tokens, TokensOf
    <3> QED BY <2>2
  <2> QED BY <2>3 DEF Lines, LinesOf
<1>3. line \in LinesOf(low)
  BY <1>2, TextsAssumption
<1>4. buffer \in Seq(LinesOf(low)) /\ Len(buffer) = 1 /\ DOMAIN buffer = 1 .. 1
  BY <1>1, <1>3
<1>5. /\ offset = 0 /\ cursor = At(0, 0) /\ cells = FirstSize /\ attrs = NoAttributes
      /\ undefined = FALSE /\ shrunk = FALSE /\ switched = FALSE
  BY DEF Init
<1>6. cells \in Sizes /\ cells.lines \in Nat /\ cells.lines > 0
  BY <1>5, SizesAssumption
<1>7. cursor \in [x : Nat, y : Nat] /\ cursor.x = 0 /\ cursor.y = 0
  BY <1>5 DEF At
<1>8. BelowEmpty(buffer, offset, cells)
  BY <1>4, <1>5, <1>6 DEF BelowEmpty
<1>9. attrs \in Attributes
  BY <1>5, NoAttributesType
<1>10. low = 1 => cursor.x <= MaxBlanks
  BY <1>7, BlanksAssumption
<1>11. offset \in Nat /\ offset + cursor.y + 1 <= Len(buffer) /\ cursor.y < cells.lines
  BY <1>4, <1>5, <1>6, <1>7
<1>12. {undefined, shrunk, switched} \subseteq BOOLEAN
  BY <1>5
<1> QED BY <1>4, <1>6, <1>7, <1>8, <1>9, <1>10, <1>11, <1>12 DEF PageSound

LEMMA NextSound ==
  ASSUME NEW low \in {0, 1}, low = 1 => NarrowPages, PageSound(low), [Next]_vars
  PROVE  PageSound(low)'
<1>1. ASSUME NEW text \in Texts, NEW insert \in BOOLEAN, NEW wrap \in BOOLEAN,
             AddText(text, insert, wrap)
      PROVE  PageSound(low)'
  BY <1>1, AddTextSound
<1>2. ASSUME NEW first \in Columns, NEW num \in Columns, EraseInLine(first, num)
      PROVE  PageSound(low)'
  BY <1>2, EraseInLineSound
<1>3. ASSUME NEW first \in Columns, NEW num \in Columns \ {0}, DeleteText(first, num)
      PROVE  PageSound(low)'
  BY <1>3, DeleteTextSound
<1>4. CASE EraseToEndOfPage
  BY <1>4, EraseToEndOfPageSound
<1>5. CASE EraseToCursor
  BY <1>5, EraseToCursorSound
<1>6. CASE ErasePage
  BY <1>6, ErasePageSound
<1>7. CASE EraseBuffer
  BY <1>7, EraseBufferSound
<1>8. CASE EraseScrollback
  BY <1>8, EraseScrollbackSound
<1>9. CASE SetBuffer
  BY <1>9, SetBufferSound
<1>10. attrs \in Attributes /\ undefined \in BOOLEAN
  BY DEF PageSound
<1>11. CASE UseMissingLine
  <2>1. /\ UNCHANGED <<buffer, offset, cursor, cells, shrunk, switched>>
        /\ attrs' \in Attributes /\ undefined' \in BOOLEAN
    BY <1>10, <1>11 DEF UseMissingLine
  <2> QED BY <2>1, OthersSound
<1>12. ASSUME NEW column \in Columns, SetCursorX(column) PROVE PageSound(low)'
  BY <1>12, SetCursorXSound
<1>13. ASSUME NEW row \in 0 .. cells.lines, SetCursorY(row) PROVE PageSound(low)'
  <2>1. row \in Nat
    BY SizesAssumption DEF PageSound
  <2> QED BY <2>1, <1>13, SetCursorYSound
<1>14. ASSUME NEW attr \in Pens, SetAttrs(attr) PROVE PageSound(low)'
  <2>1. /\ UNCHANGED <<buffer, offset, cursor, cells, shrunk, switched>>
        /\ attrs' \in Attributes /\ undefined' \in BOOLEAN
    BY <1>10, <1>14, PensAssumption DEF SetAttrs
  <2> QED BY <2>1, OthersSound
<1>15. ASSUME NEW s \in Sizes, Resize(s) PROVE PageSound(low)'
  BY <1>15, ResizeSound
<1>16. CASE UNCHANGED vars
  <2>1. /\ UNCHANGED <<buffer, offset, cursor, cells, shrunk, switched>>
        /\ attrs' \in Attributes /\ undefined' \in BOOLEAN
    BY <1>10, <1>16 DEF vars
  <2> QED BY <2>1, OthersSound
<1> QED BY <1>1, <1>2, <1>3, <1>4, <1>5, <1>6, <1>7, <1>8, <1>9, <1>11, <1>12, <1>13,
           <1>14, <1>15, <1>16 DEF Next

LEMMA AlwaysSound == Spec => []PageSound(0)
<1>1. Init => PageSound(0)
  BY InitSound
<1>2. PageSound(0) /\ [Next]_vars => PageSound(0)'
  BY NextSound
<1> QED BY <1>1, <1>2, PTL DEF Spec

(* After any calls, in any order and for pages of any size, the buffer has *)
(* the line of the cursor, so that current_line() is inside the vector:    *)
(* scrolling, erasing and resizing keep offset, cursor and lines together, *)
(* but for set_buffer() with lines scrolled off.                           *)
THEOREM CursorStaysOnLine == Spec => []CursorOnLine
<1>1. PageSound(0) => CursorOnLine
  <2> SUFFICES ASSUME PageSound(0), ~switched PROVE LineExists
    BY DEF CursorOnLine
  <2>1. /\ buffer \in Seq(LinesOf(0)) /\ offset \in Nat /\ cursor \in [x : Nat, y : Nat]
        /\ offset + cursor.y + 1 <= Len(buffer)
    BY DEF PageSound
  <2>2. DOMAIN buffer = 1 .. Len(buffer) /\ Len(buffer) \in Nat
    BY <2>1
  <2> QED BY <2>1, <2>2 DEF LineExists, CurrentLine
<1> QED BY <1>1, AlwaysSound, PTL

(* Lines below the page are empty ones, so that what scrolls into the page *)
(* is: new_line() adds a line at the end of the buffer even when the       *)
(* cursor is further up.                                                   *)
THEOREM NothingBelowPage == Spec => []BelowPageEmpty
<1>1. PageSound(0) => BelowPageEmpty
  BY DEF PageSound, BelowPageEmpty, BelowEmpty
<1> QED BY <1>1, AlwaysSound, PTL

(* The state is well-typed, and no operation on a line leaves an empty run *)
(* of blanks or one that is longer than what a byte holds, as long as the  *)
(* page is narrower than that: content_skip() writes the length of the run *)
(* that fills up a line in one byte, so that 256 would be 0.               *)
THEOREM TypeCorrect ==
  ASSUME NarrowPages
  PROVE  Spec => []TypeOK
<1>1. Init => PageSound(1)
  BY InitSound
<1>2. PageSound(1) /\ [Next]_vars => PageSound(1)'
  BY NextSound
<1>3. PageSound(1) => TypeOK
  <2>1. LinesOf(1) = Lines
    BY DEF LinesOf, TokensOf, Lines, Tokens
  <2> QED BY <2>1 DEF PageSound, TypeOK
<1> QED BY <1>1, <1>2, <1>3, PTL DEF Spec

-----------------------------------------------------------------------------
(* TextTerminal implements Screen.  From the tokens upwards: what a        *)
(* sequence of tokens shows in each column, what each operation on a line  *)
(* changes of that, which row of Screen the line is then, what the loop of *)
(* add_text() leaves, and each call.                                       *)
-----------------------------------------------------------------------------
(* Rows.                                                                   *)

PlainEffect == Effective(NoAttributes)

CellSet == [char : Characters \cup {Blank}, attr : Effects]

BlankIn(effect) == [char |-> Blank, attr |-> effect]

(* What a row of these cells shows in a column, from 0.                    *)
Column(shown, rest, c) == IF c < Len(shown) THEN shown[c + 1] ELSE BlankIn(rest)

LEMMA GreatestOf ==
  ASSUME NEW A \in SUBSET Nat, NEW n \in Nat, \A m \in A : m <= n, A # {}
  PROVE  \E k \in A : \A m \in A : m <= k
<1> DEFINE Above == {k \in Nat : \A m \in A : m <= k}
<1>1. PICK k \in Above : \A m \in Above : k <= m
  <2>1. Above \in SUBSET Nat /\ n \in Above
    OBVIOUS
  <2> HIDE DEF Above
  <2> QED BY <2>1, LeastOf
<1>2. \A m \in A : m <= k
  BY <1>1
<1>3. k \in A
  <2> SUFFICES ASSUME k \notin A PROVE FALSE
    OBVIOUS
  <2>1. \A m \in A : m <= k - 1
    BY <1>1
  <2>2. k # 0
    <3>1. PICK m \in A : m <= k - 1
      BY <2>1
    <3> QED BY <3>1
  <2>3. k - 1 \in Above
    BY <1>1, <2>1, <2>2
  <2> QED BY <1>1, <2>3
<1> QED BY <1>2, <1>3

(* A row is cut off behind the last cell that differs from the rest.       *)
LEMMA RowCut ==
  ASSUME NEW C, NEW shown \in Seq(C), NEW rest, NEW below
  PROVE  \E n \in 0 .. Len(shown) :
           /\ Rows!Row(shown, rest, below)
                = [cells |-> SubSeq(shown, 1, n), rest |-> rest, pageBlank |-> below]
           /\ \A i \in n + 1 .. Len(shown) : shown[i] = BlankIn(rest)
           /\ n = 0 \/ shown[n] # BlankIn(rest)
<1> DEFINE Significant == {i \in DOMAIN shown : shown[i] # BlankIn(rest)}
           last == CHOOSE i \in Significant : \A j \in Significant : j <= i
           n == IF Significant = {} THEN 0 ELSE last
<1>1. Rows!Row(shown, rest, below)
        = [cells |-> SubSeq(shown, 1, n), rest |-> rest, pageBlank |-> below]
  BY DEF Rows!Row, Rows!BlankCell, Rows!Cell, BlankIn
<1>2. Len(shown) \in Nat /\ DOMAIN shown = 1 .. Len(shown)
  OBVIOUS
<1>3. CASE Significant = {}
  <2>1. n = 0
    BY <1>3
  <2>2. \A i \in 1 .. Len(shown) : shown[i] = BlankIn(rest)
    BY <1>2, <1>3
  <2> HIDE DEF n
  <2>3. n \in 0 .. Len(shown)
    BY <1>2, <2>1
  <2>4. \A i \in n + 1 .. Len(shown) : shown[i] = BlankIn(rest)
    BY <1>2, <2>1, <2>2
  <2> QED BY <1>1, <2>1, <2>3, <2>4
<1>4. CASE Significant # {}
  <2>1. \E k \in Significant : \A m \in Significant : m <= k
    <3>1. Significant \in SUBSET Nat /\ \A m \in Significant : m <= Len(shown)
      BY <1>2
    <3> HIDE DEF Significant
    <3> QED BY <3>1, <1>2, <1>4, GreatestOf
  <2>2. last \in Significant /\ \A j \in Significant : j <= last
    <3> HIDE DEF Significant
    <3> QED BY <2>1
  <2>3. n = last
    BY <1>4
  <2> HIDE DEF last, n
  <2>4. n \in 0 .. Len(shown) /\ shown[n] # BlankIn(rest)
    BY <2>2, <2>3, <1>2
  <2>5. ASSUME NEW i \in n + 1 .. Len(shown) PROVE shown[i] = BlankIn(rest)
    BY <2>2, <2>3, <2>4, <1>2
  <2> QED BY <1>1, <2>4, <2>5
<1> QED BY <1>3, <1>4

LEMMA RowShows ==
  ASSUME NEW C, NEW shown \in Seq(C), NEW rest, NEW below
  PROVE  LET row == Rows!Row(shown, rest, below)
         IN /\ row.rest = rest /\ row.pageBlank = below
            /\ row.cells \in Seq(C)
            /\ \A c \in Nat : Shown!CellAt(row, c) = Column(shown, rest, c)
<1> DEFINE row == Rows!Row(shown, rest, below)
<1>1. PICK n \in 0 .. Len(shown) :
           /\ row = [cells |-> SubSeq(shown, 1, n), rest |-> rest, pageBlank |-> below]
           /\ \A i \in n + 1 .. Len(shown) : shown[i] = BlankIn(rest)
  BY RowCut
<1> HIDE DEF row
<1>2. /\ row.rest = rest /\ row.pageBlank = below /\ row.cells = SubSeq(shown, 1, n)
      /\ row.cells \in Seq(C)
      /\ Len(row.cells) = n
      /\ \A i \in 1 .. n : row.cells[i] = shown[i]
  BY <1>1
<1>3. ASSUME NEW c \in Nat PROVE Shown!CellAt(row, c) = Column(shown, rest, c)
  <2>1. Shown!CellAt(row, c) = IF c < n THEN shown[c + 1] ELSE BlankIn(rest)
    BY <1>2 DEF Shown!CellAt, Shown!BlankCell, Shown!Cell, BlankIn
  <2>2. c < Len(shown) /\ ~(c < n) => shown[c + 1] = BlankIn(rest)
    BY <1>1
  <2> QED BY <2>1, <2>2 DEF Column
<1> QED BY <1>2, <1>3 DEF row

(* What shows the same is the same row.                                    *)
LEMMA SameRow ==
  ASSUME NEW C, NEW D, NEW shown \in Seq(C), NEW other \in Seq(D), NEW rest, NEW below,
         \A c \in Nat : Column(shown, rest, c) = Column(other, rest, c)
  PROVE  Rows!Row(shown, rest, below) = Rows!Row(other, rest, below)
<1>1. PICK n \in 0 .. Len(shown) :
           /\ Rows!Row(shown, rest, below)
                = [cells |-> SubSeq(shown, 1, n), rest |-> rest, pageBlank |-> below]
           /\ \A i \in n + 1 .. Len(shown) : shown[i] = BlankIn(rest)
           /\ n = 0 \/ shown[n] # BlankIn(rest)
  BY RowCut
<1>2. PICK m \in 0 .. Len(other) :
           /\ Rows!Row(other, rest, below)
                = [cells |-> SubSeq(other, 1, m), rest |-> rest, pageBlank |-> below]
           /\ \A i \in m + 1 .. Len(other) : other[i] = BlankIn(rest)
           /\ m = 0 \/ other[m] # BlankIn(rest)
  BY RowCut
<1>3. Len(shown) \in Nat /\ Len(other) \in Nat
  OBVIOUS
<1>4. ASSUME NEW i \in Nat \ {0}
      PROVE  (IF i <= Len(shown) THEN shown[i] ELSE BlankIn(rest))
               = (IF i <= Len(other) THEN other[i] ELSE BlankIn(rest))
  <2>1. i - 1 \in Nat /\ i - 1 + 1 = i
    OBVIOUS
  <2>2. Column(shown, rest, i - 1) = Column(other, rest, i - 1)
    BY <2>1
  <2>3. (i - 1 < Len(shown) <=> i <= Len(shown)) /\ (i - 1 < Len(other) <=> i <= Len(other))
    BY <1>3
  <2> QED BY <2>1, <2>2, <2>3 DEF Column
<1>5. n = m
  <2>1. CASE n < m
    <3>1. other[m] = BlankIn(rest)
      BY <2>1, <1>1, <1>2, <1>3, <1>4
    <3> QED BY <3>1, <2>1, <1>2, <1>1
  <2>2. CASE m < n
    <3>1. shown[n] = BlankIn(rest)
      BY <2>2, <1>1, <1>2, <1>3, <1>4
    <3> QED BY <3>1, <2>2, <1>2, <1>1
  <2> QED BY <2>1, <2>2
<1>6. \A i \in 1 .. n : shown[i] = other[i]
  BY <1>3, <1>4, <1>5
<1>7. SubSeq(shown, 1, n) = SubSeq(other, 1, n)
  <2>1. SubSeq(shown, 1, n) = [i \in 1 .. n |-> shown[i]]
    BY <1>3
  <2>2. SubSeq(other, 1, n) = [i \in 1 .. n |-> other[i]]
    BY <1>3, <1>5
  <2> QED BY <2>1, <2>2, <1>6
<1> QED BY <1>1, <1>2, <1>5, <1>7

LEMMA ShownIsRow ==
  ASSUME NEW shown, NEW rest, NEW below
  PROVE  Shown!Row(shown, rest, below) = Rows!Row(shown, rest, below)
BY DEF Shown!Row, Rows!Row, Shown!BlankCell, Shown!Cell, Rows!BlankCell, Rows!Cell

(* Rows are given by what is in each column.                               *)
RowWith(f, length, rest, below) ==
  Shown!Row([i \in 1 .. length |-> f[i - 1]], rest, below)

LEMMA RowFrom ==
  ASSUME NEW C, NEW shown \in Seq(C), NEW rest, NEW below, NEW length \in Nat, NEW f,
         \A c \in Nat : c >= length => f[c] = BlankIn(rest),
         \A c \in Nat : Column(shown, rest, c) = f[c]
  PROVE  RowWith(f, length, rest, below) = Rows!Row(shown, rest, below)
<1> DEFINE row == [i \in 1 .. length |-> f[i - 1]]
           D == {f[i - 1] : i \in 1 .. length}
<1>1. row \in Seq(D) /\ Len(row) = length
  <2>1. row \in [1 .. length -> D]
    OBVIOUS
  <2> HIDE DEF row, D
  <2> QED BY <2>1
<1>2. ASSUME NEW c \in Nat PROVE Column(shown, rest, c) = Column(row, rest, c)
  <2>1. c < length => row[c + 1] = f[c]
    <3>1. c + 1 - 1 = c
      OBVIOUS
    <3>2. c < length => c + 1 \in 1 .. length
      OBVIOUS
    <3> QED BY <3>1, <3>2
  <2> HIDE DEF row
  <2>2. Column(row, rest, c) = f[c]
    BY <1>1, <2>1 DEF Column
  <2> QED BY <2>2
<1> HIDE DEF row, D
<1>3. Rows!Row(shown, rest, below) = Rows!Row(row, rest, below)
  BY <1>1, <1>2, SameRow
<1> QED BY <1>3, ShownIsRow DEF row, RowWith

LEMMA ReplacedIs ==
  ASSUME NEW C, NEW row, row.cells \in Seq(C), NEW column \in Nat, NEW cell,
         NEW D, NEW shown \in Seq(D),
         \A c \in Nat : Column(shown, row.rest, c)
                          = IF c = column THEN cell ELSE Shown!CellAt(row, c)
  PROVE  Shown!Replaced(row, column, cell) = Rows!Row(shown, row.rest, row.pageBlank)
<1> DEFINE f == [c \in Nat |-> IF c = column THEN cell ELSE Shown!CellAt(row, c)]
           length == Shown!Upper(Len(row.cells), column + 1)
<1>1. length \in Nat /\ length >= Len(row.cells) /\ length >= column + 1
  BY DEF Shown!Upper
<1>2. \A c \in Nat : c >= length => f[c] = BlankIn(row.rest)
  BY <1>1 DEF Shown!CellAt, Shown!BlankCell, Shown!Cell, BlankIn
<1>3. \A c \in Nat : Column(shown, row.rest, c) = f[c]
  OBVIOUS
<1>4. Shown!Replaced(row, column, cell)
        = RowWith(f, length, row.rest, row.pageBlank)
  <2>1. \A i \in 1 .. length : i - 1 \in Nat
    OBVIOUS
  <2> QED BY <2>1 DEF Shown!Replaced, Shown!RowOf, RowWith
<1> HIDE DEF f, length
<1> QED BY <1>1, <1>2, <1>3, <1>4, RowFrom

LEMMA InsertedIs ==
  ASSUME NEW C, NEW row, row.cells \in Seq(C), NEW column \in Nat, NEW cell,
         NEW D, NEW shown \in Seq(D),
         \A c \in Nat : Column(shown, row.rest, c)
                          = IF c < column THEN Shown!CellAt(row, c)
                            ELSE IF c = column THEN cell
                            ELSE Shown!CellAt(row, c - 1)
  PROVE  Shown!Inserted(row, column, cell) = Rows!Row(shown, row.rest, row.pageBlank)
<1> DEFINE f == [c \in Nat |-> IF c < column THEN Shown!CellAt(row, c)
                               ELSE IF c = column THEN cell
                               ELSE Shown!CellAt(row, c - 1)]
           length == Shown!Upper(Len(row.cells), column) + 1
<1>1. length \in Nat /\ length >= Len(row.cells) + 1 /\ length >= column + 1
  BY DEF Shown!Upper
<1>2. \A c \in Nat : c >= length => f[c] = BlankIn(row.rest)
  BY <1>1 DEF Shown!CellAt, Shown!BlankCell, Shown!Cell, BlankIn
<1>3. \A c \in Nat : Column(shown, row.rest, c) = f[c]
  OBVIOUS
<1>4. Shown!Inserted(row, column, cell)
        = RowWith(f, length, row.rest, row.pageBlank)
  <2>1. \A i \in 1 .. length : i - 1 \in Nat
    OBVIOUS
  <2> QED BY <2>1 DEF Shown!Inserted, Shown!RowOf, RowWith
<1> HIDE DEF f, length
<1> QED BY <1>1, <1>2, <1>3, <1>4, RowFrom

LEMMA DeletedIs ==
  ASSUME NEW C, NEW row, row.cells \in Seq(C), NEW first \in Nat, NEW num \in Nat,
         NEW D, NEW shown \in Seq(D),
         \A c \in Nat : Column(shown, row.rest, c)
                          = Shown!CellAt(row, IF c < first THEN c ELSE c + num)
  PROVE  Shown!Deleted(row, first, num) = Rows!Row(shown, row.rest, row.pageBlank)
<1> DEFINE f == [c \in Nat |-> Shown!CellAt(row, IF c < first THEN c ELSE c + num)]
           length == Len(row.cells)
<1>1. length \in Nat
  OBVIOUS
<1>2. \A c \in Nat : c >= length => f[c] = BlankIn(row.rest)
  BY <1>1 DEF Shown!CellAt, Shown!BlankCell, Shown!Cell, BlankIn
<1>3. \A c \in Nat : Column(shown, row.rest, c) = f[c]
  OBVIOUS
<1>4. Shown!Deleted(row, first, num)
        = RowWith(f, length, row.rest, row.pageBlank)
  <2>1. \A i \in 1 .. length : i - 1 \in Nat
    OBVIOUS
  <2> QED BY <2>1 DEF Shown!Deleted, Shown!RowOf, RowWith
<1> HIDE DEF f, length
<1>5. RowWith(f, length, row.rest, row.pageBlank) = Rows!Row(shown, row.rest, row.pageBlank)
  <2> HIDE DEF length
  <2> QED BY <1>1, <1>2, <1>3, RowFrom
<1> QED BY <1>4, <1>5

LEMMA ErasedIs ==
  ASSUME NEW C, NEW row, row.cells \in Seq(C), NEW first \in Nat, NEW num \in Nat,
         NEW effect, NEW D, NEW shown \in Seq(D),
         \A c \in Nat : Column(shown, row.rest, c)
                          = IF c >= first /\ c < first + num THEN BlankIn(effect)
                            ELSE Shown!CellAt(row, c)
  PROVE  Shown!Erased(row, first, num, effect) = Rows!Row(shown, row.rest, row.pageBlank)
<1> DEFINE f == [c \in Nat |-> IF c >= first /\ c < first + num THEN Shown!BlankCell(effect)
                               ELSE Shown!CellAt(row, c)]
           length == Shown!Upper(Len(row.cells), first + num)
<1>1. length \in Nat /\ length >= Len(row.cells) /\ length >= first + num
  BY DEF Shown!Upper
<1>2. \A c \in Nat : c >= length => f[c] = BlankIn(row.rest)
  BY <1>1 DEF Shown!CellAt, Shown!BlankCell, Shown!Cell, BlankIn
<1>3. \A c \in Nat : Column(shown, row.rest, c) = f[c]
  BY DEF Shown!BlankCell, Shown!Cell, BlankIn
<1>4. Shown!Erased(row, first, num, effect)
        = RowWith(f, length, row.rest, row.pageBlank)
  <2>1. \A i \in 1 .. length : i - 1 \in Nat
    OBVIOUS
  <2> QED BY <2>1 DEF Shown!Erased, Shown!RowOf, RowWith
<1> HIDE DEF f, length
<1> QED BY <1>1, <1>2, <1>3, <1>4, RowFrom

LEMMA ErasedRestIs ==
  ASSUME NEW C, NEW row, row.cells \in Seq(C), NEW first \in Nat, NEW effect,
         NEW D, NEW shown \in Seq(D),
         \A c \in Nat : Column(shown, effect, c)
                          = IF c < first THEN Shown!CellAt(row, c) ELSE BlankIn(effect)
  PROVE  Shown!ErasedRest(row, first, effect) = Rows!Row(shown, effect, row.pageBlank)
<1> DEFINE f == [c \in Nat |-> IF c < first THEN Shown!CellAt(row, c) ELSE BlankIn(effect)]
<1>1. \A c \in Nat : c >= first => f[c] = BlankIn(effect)
  OBVIOUS
<1>2. \A c \in Nat : Column(shown, effect, c) = f[c]
  OBVIOUS
<1>3. Shown!ErasedRest(row, first, effect)
        = RowWith(f, first, effect, row.pageBlank)
  <2>1. \A i \in 1 .. first : i - 1 \in Nat /\ i - 1 < first
    OBVIOUS
  <2>2. [i \in 1 .. first |-> Shown!CellAt(row, i - 1)] = [i \in 1 .. first |-> f[i - 1]]
    BY <2>1
  <2> HIDE DEF f
  <2> QED BY <2>2 DEF Shown!ErasedRest, RowWith
<1> HIDE DEF f
<1>4. RowWith(f, first, effect, row.pageBlank) = Rows!Row(shown, effect, row.pageBlank)
  <2> DEFINE below == row.pageBlank
  <2> HIDE DEF below
  <2>1. RowWith(f, first, effect, below) = Rows!Row(shown, effect, below)
    BY <1>1, <1>2, RowFrom
  <2> QED BY <2>1 DEF below
<1> QED BY <1>3, <1>4

LEMMA ClearedIs ==
  ASSUME NEW row, NEW effect, NEW D, NEW shown \in Seq(D),
         \A c \in Nat : Column(shown, effect, c) = BlankIn(effect)
  PROVE  Shown!Cleared(row, effect) = Rows!Row(shown, effect, row.pageBlank)
<1> DEFINE f == [c \in Nat |-> BlankIn(effect)]
           none == 0
<1>0. none \in Nat
  OBVIOUS
<1>1. \A c \in Nat : c >= none => f[c] = BlankIn(effect)
  OBVIOUS
<1>2. \A c \in Nat : Column(shown, effect, c) = f[c]
  OBVIOUS
<1>3. Shown!Cleared(row, effect) = RowWith(f, none, effect, row.pageBlank)
  <2>1. <<>> = [i \in 1 .. none |-> f[i - 1]]
    OBVIOUS
  <2> HIDE DEF f
  <2> QED BY <2>1 DEF Shown!Cleared, RowWith
<1> HIDE DEF f, none
<1>4. RowWith(f, none, effect, row.pageBlank) = Rows!Row(shown, effect, row.pageBlank)
  BY <1>0, <1>1, <1>2, RowFrom
<1> QED BY <1>3, <1>4

-----------------------------------------------------------------------------
(* What tokens show: how many cells, which, and the attributes after them. *)

Width(tokens) == CellsBefore(tokens)[Len(tokens)]

End(tokens, attr) == AttrsBefore(tokens, attr)[Len(tokens)]

Picture(tokens, attr) == Render(tokens, attr).cells

LEMMA Upwards ==
  ASSUME NEW N \in Nat, NEW A, 0 \in A, \A n \in 1 .. N : n - 1 \in A => n \in A
  PROVE  \A n \in 0 .. N : n \in A
<1> DEFINE f == [n \in 0 .. N |-> n]
<1>1. f[0] \in A
  OBVIOUS
<1>2. \A n \in 1 .. N : f[n - 1] \in A => f[n] \in A
  OBVIOUS
<1>3. \A n \in 0 .. N : f[n] = n
  OBVIOUS
<1> HIDE DEF f
<1>4. \A n \in 0 .. N : f[n] \in A
  BY <1>1, <1>2, StaysIn
<1> QED BY <1>3, <1>4

LEMMA DrawnType ==
  ASSUME NEW token \in TokensOf(1), NEW attr \in Attributes
  PROVE  /\ Drawn(token, attr) \in Seq(CellSet)
         /\ Len(Drawn(token, attr)) = CellsOf(token)
<1>1. CellsOf(token) \in Nat
  BY TokenKinds
<1>2. Effective(attr) \in Effects
  BY ValuesAssumption DEF Effective, Effects, Attributes
<1>3. CellsOf(token) > 0 => (IF token.kind = "char" THEN token.char ELSE Blank) \in Characters \cup {Blank}
  BY TokenKinds
<1>4. Drawn(token, attr) \in [1 .. CellsOf(token) -> CellSet]
  BY <1>1, <1>2, <1>3 DEF Drawn, CellSet
<1> QED BY <1>1, <1>4

(* The recursion of Render().                                              *)
Draws(d, tokens, attr) ==
  /\ d[0] = <<>>
  /\ \A n \in 1 .. Len(tokens) :
        d[n] = d[n - 1] \o Drawn(tokens[n], AttrsBefore(tokens, attr)[n - 1])

LEMMA CellsDrawn ==
  ASSUME NEW tokens \in Seq(TokensOf(1)), NEW attr \in Attributes
  PROVE  /\ Picture(tokens, attr) \in Seq(CellSet)
         /\ \A d : Draws(d, tokens, attr) => d[Len(tokens)] = Picture(tokens, attr)
         /\ \E d : /\ Draws(d, tokens, attr)
                  /\ \A n \in 0 .. Len(tokens) : d[n] \in Seq(CellSet)
<1> DEFINE N == Len(tokens)
           before == AttrsBefore(tokens, attr)
           S == Seq(CellSet)
           Is(f) == f = [n \in 0 .. N |->
                           IF n = 0 THEN <<>>
                           ELSE f[n - 1] \o Drawn(tokens[n], before[n - 1])]
           step == [n \in 1 .. N |-> [p \in S |-> p \o Drawn(tokens[n], before[n - 1])]]
           f == CHOOSE f : Is(f)
<1>1. N \in Nat
  OBVIOUS
<1>2. ASSUME NEW n \in 1 .. N PROVE Drawn(tokens[n], before[n - 1]) \in S
  <2>1. tokens[n] \in TokensOf(1)
    OBVIOUS
  <2>2. before[n - 1] \in Attributes
    <3>1. n - 1 \in 0 .. Len(tokens)
      OBVIOUS
    <3> QED BY <3>1, AttrsDecoded
  <2> HIDE DEF before
  <2> QED BY <2>1, <2>2, DrawnType
<1> HIDE DEF N, before
<1>3. step \in [1 .. N -> [S -> S]]
  <2>1. ASSUME NEW n \in 1 .. N, NEW p \in S PROVE p \o Drawn(tokens[n], before[n - 1]) \in S
    <3> DEFINE q == Drawn(tokens[n], before[n - 1])
    <3>1. q \in Seq(CellSet)
      BY <1>2
    <3> HIDE DEF q
    <3>2. p \o q \in Seq(CellSet)
      BY <3>1
    <3> QED BY <3>2 DEF q
  <2> HIDE DEF S
  <2> QED BY <2>1
<1>4. <<>> \in S
  OBVIOUS
<1> HIDE DEF S
<1>5. \E g : Is(g)
  <2> HIDE DEF step
  <2>1. PICK g \in [0 .. N -> S] : Builds(g, N, <<>>, step)
    <3> DEFINE none == <<>>
    <3>1. none \in S
      BY <1>4
    <3> HIDE DEF none
    <3>2. \E g \in [0 .. N -> S] : Builds(g, N, none, step)
      BY <3>1, <1>1, <1>3, Recursion
    <3> QED BY <3>2 DEF none
  <2>2. ASSUME NEW n \in 1 .. N
        PROVE  g[n] = g[n - 1] \o Drawn(tokens[n], before[n - 1])
    <3>1. g[n - 1] \in S
      BY <1>1
    <3>2. step[n][g[n - 1]] = g[n - 1] \o Drawn(tokens[n], before[n - 1])
      BY <3>1 DEF step
    <3> QED BY <2>1, <3>2 DEF Builds
  <2>3. ASSUME NEW n \in 0 .. N
        PROVE  g[n] = IF n = 0 THEN <<>>
                      ELSE g[n - 1] \o Drawn(tokens[n], before[n - 1])
    <3>1. CASE n = 0
      BY <2>1, <3>1 DEF Builds
    <3>2. CASE n # 0
      <4>1. n \in 1 .. N
        BY <3>2, <1>1
      <4> QED BY <4>1, <2>2, <3>2
    <3> QED BY <3>1, <3>2
  <2>4. Is(g)
    BY <2>3
  <2> QED BY <2>4
<1>6. Is(f)
  <2> HIDE DEF Is
  <2> QED BY <1>5
<1>7. f[N] = Picture(tokens, attr)
  BY DEF Picture, Render, N, before
<1> HIDE DEF f
<1>8. f[0] = <<>>
  BY <1>6, <1>1
<1>9. ASSUME NEW n \in 1 .. N PROVE f[n] = f[n - 1] \o Drawn(tokens[n], before[n - 1])
  <2>1. n \in 0 .. N /\ n # 0
    BY <1>1
  <2> QED BY <2>1, <1>6
<1>10. \A n \in 0 .. N : f[n] \in S
  <2>1. f[0] \in S
    BY <1>8, <1>4
  <2>2. \A n \in 1 .. N : f[n - 1] \in S => f[n] \in S
    <3> SUFFICES ASSUME NEW n \in 1 .. N, f[n - 1] \in S PROVE f[n] \in S
      OBVIOUS
    <3> DEFINE p == f[n - 1]
               q == Drawn(tokens[n], before[n - 1])
    <3>1. p \in Seq(CellSet) /\ q \in Seq(CellSet)
      BY <1>2 DEF S
    <3>2. f[n] = p \o q
      BY <1>9
    <3> HIDE DEF p, q
    <3> QED BY <3>1, <3>2 DEF S
  <2> QED BY <1>1, <2>1, <2>2, StaysIn
<1>11. ASSUME NEW d, Draws(d, tokens, attr) PROVE d[N] = f[N]
  <2>1. /\ d[0] = <<>>
        /\ \A n \in 1 .. N : d[n] = d[n - 1] \o Drawn(tokens[n], before[n - 1])
    BY <1>11 DEF Draws, N, before
  <2> DEFINE A == {n \in 0 .. N : d[n] = f[n]}
  <2>2. 0 \in A
    BY <1>1, <1>8, <2>1
  <2>3. ASSUME NEW n \in 1 .. N, n - 1 \in A PROVE n \in A
    <3>1. d[n] = d[n - 1] \o Drawn(tokens[n], before[n - 1])
      BY <2>1
    <3>2. d[n - 1] = f[n - 1]
      BY <2>3
    <3>3. d[n] = f[n]
      BY <3>1, <3>2, <1>9
    <3>4. n \in 0 .. N
      BY <1>1
    <3> QED BY <3>3, <3>4
  <2>4. \A n \in 0 .. N : n \in A
    <3> HIDE DEF A
    <3> QED BY <2>2, <2>3, <1>1, Upwards
  <2>5. N \in A
    BY <2>4, <1>1
  <2> QED BY <2>5
<1>12. Draws(f, tokens, attr)
  BY <1>8, <1>9 DEF Draws, N, before
<1>13. f[N] \in S
  BY <1>1, <1>10
<1> QED BY <1>7, <1>10, <1>11, <1>12, <1>13 DEF N, S

(* The recursions of CellsBefore() and AttrsBefore() have one solution.    *)
Counts(f, tokens) ==
  f[0] = 0 /\ \A n \in 1 .. Len(tokens) : f[n] = f[n - 1] + CellsOf(tokens[n])

LEMMA CountsOnce ==
  ASSUME NEW tokens \in Seq(TokensOf(1)), NEW f, Counts(f, tokens)
  PROVE  \A n \in 0 .. Len(tokens) : f[n] = CellsBefore(tokens)[n]
<1> DEFINE N == Len(tokens)
           g == CellsBefore(tokens)
           A == {n \in 0 .. N : f[n] = g[n]}
<1>1. N \in Nat /\ g[0] = 0 /\ \A n \in 1 .. N : g[n] = g[n - 1] + CellsOf(tokens[n])
  BY CellsCounted
<1>2. f[0] = 0 /\ \A n \in 1 .. N : f[n] = f[n - 1] + CellsOf(tokens[n])
  BY DEF Counts
<1> HIDE DEF N, g
<1>3. 0 \in A
  BY <1>1, <1>2
<1>4. ASSUME NEW n \in 1 .. N, n - 1 \in A PROVE n \in A
  <2>1. f[n - 1] = g[n - 1]
    BY <1>4
  <2>2. f[n] = g[n]
    BY <2>1, <1>1, <1>2
  <2>3. n \in 0 .. N
    BY <1>1
  <2> QED BY <2>2, <2>3
<1>5. \A n \in 0 .. N : n \in A
  <2> HIDE DEF A
  <2> QED BY <1>1, <1>3, <1>4, Upwards
<1> QED BY <1>5 DEF N, g

After(token, attr) == IF token.kind = "attr" THEN Decoded(attr, token.attr) ELSE attr

Reads(f, tokens, attr) ==
  f[0] = attr /\ \A n \in 1 .. Len(tokens) : f[n] = After(tokens[n], f[n - 1])

LEMMA AttrsRead ==
  ASSUME NEW tokens \in Seq(TokensOf(1)), NEW attr \in Attributes
  PROVE  Reads(AttrsBefore(tokens, attr), tokens, attr)
BY AttrsDecoded DEF Reads, After

LEMMA ReadsOnce ==
  ASSUME NEW tokens \in Seq(TokensOf(1)), NEW attr \in Attributes,
         NEW f, Reads(f, tokens, attr)
  PROVE  \A n \in 0 .. Len(tokens) : f[n] = AttrsBefore(tokens, attr)[n]
<1> DEFINE N == Len(tokens)
           g == AttrsBefore(tokens, attr)
           A == {n \in 0 .. N : f[n] = g[n]}
<1>1. N \in Nat /\ g[0] = attr /\ \A n \in 1 .. N : g[n] = After(tokens[n], g[n - 1])
  BY AttrsRead DEF Reads
<1>2. f[0] = attr /\ \A n \in 1 .. N : f[n] = After(tokens[n], f[n - 1])
  BY DEF Reads
<1> HIDE DEF N, g
<1>3. 0 \in A
  BY <1>1, <1>2
<1>4. ASSUME NEW n \in 1 .. N, n - 1 \in A PROVE n \in A
  <2>1. f[n - 1] = g[n - 1]
    BY <1>4
  <2>2. f[n] = g[n]
    BY <2>1, <1>1, <1>2
  <2>3. n \in 0 .. N
    BY <1>1
  <2> QED BY <2>2, <2>3
<1>5. \A n \in 0 .. N : n \in A
  <2> HIDE DEF A
  <2> QED BY <1>1, <1>3, <1>4, Upwards
<1> QED BY <1>5 DEF N, g

LEMMA WidthType ==
  ASSUME NEW tokens \in Seq(TokensOf(1))
  PROVE  Width(tokens) \in Nat
BY CellsCounted DEF Width

LEMMA EndIn ==
  ASSUME NEW tokens \in Seq(TokensOf(1)), NEW attr \in Attributes
  PROVE  End(tokens, attr) \in Attributes
BY AttrsDecoded DEF End

(* One part after the other.                                               *)
LEMMA JoinedPrefix ==
  ASSUME NEW s \in Seq(TokensOf(1)), NEW t \in Seq(TokensOf(1)), NEW attr \in Attributes
  PROVE  /\ \A n \in 0 .. Len(s) : CellsBefore(s \o t)[n] = CellsBefore(s)[n]
         /\ \A n \in 0 .. Len(s) : AttrsBefore(s \o t, attr)[n] = AttrsBefore(s, attr)[n]
         /\ \A n \in 0 .. Len(t) : CellsBefore(s \o t)[Len(s) + n] = Width(s) + CellsBefore(t)[n]
         /\ \A n \in 0 .. Len(t) :
               AttrsBefore(s \o t, attr)[Len(s) + n] = AttrsBefore(t, End(s, attr))[n]
<1> DEFINE u == s \o t
           S == Len(s)
           T == Len(t)
           cs == CellsBefore(s)
           ct == CellsBefore(t)
           as == AttrsBefore(s, attr)
           at == AttrsBefore(t, End(s, attr))
           c == [n \in 0 .. S + T |-> IF n <= S THEN cs[n] ELSE cs[S] + ct[n - S]]
           a == [n \in 0 .. S + T |-> IF n <= S THEN as[n] ELSE at[n - S]]
<1>1. /\ u \in Seq(TokensOf(1)) /\ Len(u) = S + T /\ S \in Nat /\ T \in Nat
      /\ \A n \in 1 .. S : u[n] = s[n]
      /\ \A n \in S + 1 .. S + T : u[n] = t[n - S]
  BY ConcatProperties
<1>2. /\ cs[0] = 0 /\ \A n \in 1 .. S : cs[n] = cs[n - 1] + CellsOf(s[n])
      /\ ct[0] = 0 /\ \A n \in 1 .. T : ct[n] = ct[n - 1] + CellsOf(t[n])
      /\ \A n \in 0 .. S : cs[n] \in Nat
      /\ \A n \in 0 .. T : ct[n] \in Nat
      /\ \A n \in 1 .. T : CellsOf(t[n]) \in Nat
  <2>1. cs[0] = 0 /\ \A n \in 1 .. S : cs[n] = cs[n - 1] + CellsOf(s[n])
    BY CellsCounted
  <2>2. ct[0] = 0 /\ \A n \in 1 .. T : ct[n] = ct[n - 1] + CellsOf(t[n])
    BY CellsCounted
  <2>3. (\A n \in 0 .. S : cs[n] \in Nat) /\ (\A n \in 0 .. T : ct[n] \in Nat)
    BY CellsCounted
  <2>4. \A n \in 1 .. T : CellsOf(t[n]) \in Nat
    BY TokenKinds
  <2> HIDE DEF S, T, cs, ct
  <2> QED BY <2>1, <2>2, <2>3, <2>4
<1>3. as[0] = attr /\ \A n \in 1 .. S : as[n] = After(s[n], as[n - 1])
  BY AttrsRead DEF Reads
<1>4. at[0] = as[S] /\ \A n \in 1 .. T : at[n] = After(t[n], at[n - 1])
  <2>1. End(s, attr) \in Attributes /\ End(s, attr) = as[S]
    BY EndIn DEF End
  <2> QED BY <2>1, AttrsRead DEF Reads
<1> HIDE DEF u, S, T, cs, ct, as, at
<1>5. Counts(c, u)
  <2>1. c[0] = 0
    BY <1>1, <1>2
  <2>2. ASSUME NEW n \in 1 .. S + T PROVE c[n] = c[n - 1] + CellsOf(u[n])
    <3>1. CASE n <= S
      <4>1. n \in 1 .. S /\ n - 1 \in 0 .. S + T /\ n \in 0 .. S + T /\ n - 1 <= S
        BY <3>1, <1>1
      <4>2. c[n] = cs[n] /\ c[n - 1] = cs[n - 1]
        BY <3>1, <4>1
      <4> QED BY <4>1, <4>2, <1>1, <1>2
    <3>2. CASE n = S + 1
      <4>1. n \in S + 1 .. S + T /\ n - 1 \in 0 .. S + T /\ n \in 0 .. S + T /\ n - 1 = S
            /\ n - S = 1 /\ 1 \in 1 .. T /\ ~(n <= S)
        BY <3>2, <1>1
      <4>2. c[n] = cs[S] + ct[1] /\ c[n - 1] = cs[S]
        BY <4>1, <1>1
      <4>3. ct[1] = CellsOf(t[1]) /\ CellsOf(t[1]) \in Nat
        BY <1>2, <4>1
      <4>4. u[n] = t[1]
        BY <1>1, <4>1
      <4> QED BY <4>2, <4>3, <4>4
    <3>3. CASE n > S + 1
      <4> DEFINE m == n - S
      <4>1. n \in S + 1 .. S + T /\ n - 1 \in 0 .. S + T /\ n \in 0 .. S + T
            /\ m \in 1 .. T /\ m - 1 \in 0 .. T /\ m \in 0 .. T
            /\ ~(n <= S) /\ ~(n - 1 <= S) /\ n - 1 - S = m - 1
        BY <3>3, <1>1
      <4>2. c[n] = cs[S] + ct[m] /\ c[n - 1] = cs[S] + ct[m - 1]
        BY <4>1
      <4>3. u[n] = t[m]
        BY <1>1, <4>1
      <4> HIDE DEF m
      <4>4. ct[m] = ct[m - 1] + CellsOf(t[m]) /\ CellsOf(t[m]) \in Nat /\ ct[m - 1] \in Nat
        BY <1>2, <4>1
      <4>5. cs[S] \in Nat
        BY <1>1, <1>2
      <4> QED BY <4>2, <4>3, <4>4, <4>5
    <3> QED BY <3>1, <3>2, <3>3, <1>1
  <2> QED BY <2>1, <2>2, <1>1 DEF Counts
<1>6. Reads(a, u, attr)
  <2>1. a[0] = attr
    <3>1. 0 \in 0 .. S + T /\ 0 <= S
      BY <1>1
    <3>2. a[0] = as[0]
      BY <3>1
    <3> QED BY <3>2, <1>3
  <2>2. ASSUME NEW n \in 1 .. S + T PROVE a[n] = After(u[n], a[n - 1])
    <3>1. CASE n <= S
      <4>1. n \in 1 .. S /\ n - 1 \in 0 .. S + T /\ n \in 0 .. S + T /\ n - 1 <= S
        BY <3>1, <1>1
      <4>2. a[n] = as[n] /\ a[n - 1] = as[n - 1]
        BY <3>1, <4>1
      <4> QED BY <4>1, <4>2, <1>1, <1>3
    <3>2. CASE n = S + 1
      <4>1. n \in S + 1 .. S + T /\ n - 1 \in 0 .. S + T /\ n \in 0 .. S + T /\ n - 1 = S
            /\ n - S = 1 /\ 1 \in 1 .. T /\ ~(n <= S) /\ S <= S
        BY <3>2, <1>1
      <4>2. a[n] = at[1] /\ a[n - 1] = as[S]
        BY <4>1
      <4>3. at[1] = After(t[1], at[0])
        <5>1. at[1] = After(t[1], at[1 - 1])
          BY <1>4, <4>1
        <5>2. 1 - 1 = 0
          OBVIOUS
        <5> QED BY <5>1, <5>2
      <4>4. u[n] = t[1]
        BY <1>1, <4>1
      <4> QED BY <4>2, <4>3, <4>4, <1>4
    <3>3. CASE n > S + 1
      <4> DEFINE m == n - S
      <4>1. n \in S + 1 .. S + T /\ n - 1 \in 0 .. S + T /\ n \in 0 .. S + T
            /\ m \in 1 .. T
            /\ ~(n <= S) /\ ~(n - 1 <= S) /\ n - 1 - S = m - 1
        BY <3>3, <1>1
      <4>2. a[n] = at[m] /\ a[n - 1] = at[m - 1]
        BY <4>1
      <4>3. u[n] = t[m]
        BY <1>1, <4>1
      <4> HIDE DEF m
      <4>4. at[m] = After(t[m], at[m - 1])
        BY <1>4, <4>1
      <4> QED BY <4>2, <4>3, <4>4
    <3>4. n \in Int /\ S \in Int
      BY <1>1
    <3>5. n <= S \/ n = S + 1 \/ n > S + 1
      BY <3>4
    <3> QED BY <3>1, <3>2, <3>3, <3>5
  <2> QED BY <2>1, <2>2, <1>1 DEF Reads
<1>7. \A n \in 0 .. S + T : CellsBefore(u)[n] = c[n]
  <2> HIDE DEF c
  <2> QED BY <1>1, <1>5, CountsOnce
<1>8. \A n \in 0 .. S + T : AttrsBefore(u, attr)[n] = a[n]
  <2> HIDE DEF a
  <2> QED BY <1>1, <1>6, ReadsOnce
<1>9. ASSUME NEW n \in 0 .. S
      PROVE  CellsBefore(u)[n] = cs[n] /\ AttrsBefore(u, attr)[n] = as[n]
  <2>1. n \in 0 .. S + T /\ n <= S
    BY <1>1
  <2> QED BY <2>1, <1>7, <1>8
<1>10. ASSUME NEW n \in 0 .. T
       PROVE  CellsBefore(u)[S + n] = cs[S] + ct[n] /\ AttrsBefore(u, attr)[S + n] = at[n]
  <2>1. S + n \in 0 .. S + T /\ S + n - S = n /\ (S + n <= S <=> n = 0) /\ S + 0 = S
    BY <1>1
  <2>2. CASE n = 0
    <3>1. c[S + n] = cs[S] /\ a[S + n] = as[S]
      BY <2>1, <2>2
    <3>2. cs[S] = cs[S] + ct[0]
      <4>1. cs[S] \in Nat /\ ct[0] = 0
        BY <1>1, <1>2
      <4> QED BY <4>1
    <3> QED BY <2>1, <2>2, <3>1, <3>2, <1>4, <1>7, <1>8
  <2>3. CASE n # 0
    <3>1. c[S + n] = cs[S] + ct[n] /\ a[S + n] = at[n]
      <4> DEFINE k == S + n
      <4>1. k \in 0 .. S + T /\ k - S = n /\ ~(k <= S)
        BY <1>1, <2>1, <2>3
      <4> HIDE DEF k
      <4>2. c[k] = cs[S] + ct[k - S] /\ a[k] = at[k - S]
        BY <4>1
      <4>3. c[k] = cs[S] + ct[n] /\ a[k] = at[n]
        BY <4>1, <4>2
      <4> QED BY <4>3 DEF k
    <3> QED BY <2>1, <3>1, <1>7, <1>8
  <2> QED BY <2>2, <2>3
<1>11. Width(s) = cs[S]
  BY DEF Width, cs, S
<1> QED BY <1>9, <1>10, <1>11 DEF u, S, T, cs, ct, as, at

LEMMA PictureWidth ==
  ASSUME NEW tokens \in Seq(TokensOf(1)), NEW attr \in Attributes
  PROVE  Picture(tokens, attr) \in Seq(CellSet) /\ Len(Picture(tokens, attr)) = Width(tokens)
<1> DEFINE N == Len(tokens)
           before == AttrsBefore(tokens, attr)
           f == CellsBefore(tokens)
<1>1. PICK d : /\ Draws(d, tokens, attr)
               /\ \A n \in 0 .. N : d[n] \in Seq(CellSet)
  BY CellsDrawn
<1>2. d[N] = Picture(tokens, attr) /\ Picture(tokens, attr) \in Seq(CellSet)
  BY <1>1, CellsDrawn
<1>3. /\ d[0] = <<>>
      /\ \A n \in 1 .. N : d[n] = d[n - 1] \o Drawn(tokens[n], before[n - 1])
  BY <1>1 DEF Draws
<1>4. N \in Nat /\ f[0] = 0 /\ \A n \in 1 .. N : f[n] = f[n - 1] + CellsOf(tokens[n])
  BY CellsCounted
<1>5. ASSUME NEW n \in 1 .. N
      PROVE  /\ Drawn(tokens[n], before[n - 1]) \in Seq(CellSet)
             /\ Len(Drawn(tokens[n], before[n - 1])) = CellsOf(tokens[n])
  <2>1. tokens[n] \in TokensOf(1)
    OBVIOUS
  <2>2. before[n - 1] \in Attributes
    <3>1. n - 1 \in 0 .. Len(tokens)
      OBVIOUS
    <3> QED BY <3>1, AttrsDecoded
  <2> HIDE DEF before
  <2> QED BY <2>1, <2>2, DrawnType
<1> DEFINE A == {n \in 0 .. N : Len(d[n]) = f[n]}
<1>6. Width(tokens) = f[N]
  BY DEF Width
<1> HIDE DEF N, before, f
<1>7. 0 \in A
  BY <1>3, <1>4
<1>8. ASSUME NEW n \in 1 .. N, n - 1 \in A PROVE n \in A
  <2> DEFINE p == d[n - 1]
             q == Drawn(tokens[n], before[n - 1])
  <2>1. n \in 0 .. N /\ n - 1 \in 0 .. N
    BY <1>4
  <2>2. /\ p \in Seq(CellSet) /\ q \in Seq(CellSet)
        /\ Len(p) = f[n - 1] /\ Len(q) = CellsOf(tokens[n])
    BY <1>1, <1>5, <1>8, <2>1
  <2>3. d[n] = p \o q /\ f[n] = f[n - 1] + CellsOf(tokens[n])
    BY <1>3, <1>4
  <2> HIDE DEF p, q
  <2>4. Len(p \o q) = Len(p) + Len(q)
    BY <2>2
  <2>5. Len(d[n]) = f[n]
    BY <2>2, <2>3, <2>4
  <2> QED BY <2>1, <2>5
<1>9. \A n \in 0 .. N : n \in A
  <2> HIDE DEF A
  <2> QED BY <1>4, <1>7, <1>8, Upwards
<1>10. Len(d[N]) = f[N]
  BY <1>4, <1>9
<1> QED BY <1>2, <1>6, <1>10

LEMMA PictureJoined ==
  ASSUME NEW s \in Seq(TokensOf(1)), NEW t \in Seq(TokensOf(1)), NEW attr \in Attributes
  PROVE  Picture(s \o t, attr) = Picture(s, attr) \o Picture(t, End(s, attr))
<1> DEFINE u == s \o t
           S == Len(s)
           T == Len(t)
           as == AttrsBefore(s, attr)
           at == AttrsBefore(t, End(s, attr))
           au == AttrsBefore(u, attr)
<1>1. /\ u \in Seq(TokensOf(1)) /\ Len(u) = S + T /\ S \in Nat /\ T \in Nat
      /\ \A n \in 1 .. S : u[n] = s[n]
      /\ \A n \in S + 1 .. S + T : u[n] = t[n - S]
  BY ConcatProperties
<1>2. End(s, attr) \in Attributes
  BY EndIn
<1>3. PICK ds : /\ Draws(ds, s, attr)
                /\ \A n \in 0 .. S : ds[n] \in Seq(CellSet)
  BY CellsDrawn
<1>4. PICK dt : /\ Draws(dt, t, End(s, attr))
                /\ \A n \in 0 .. T : dt[n] \in Seq(CellSet)
  BY <1>2, CellsDrawn
<1>5. ds[S] = Picture(s, attr) /\ dt[T] = Picture(t, End(s, attr))
  BY <1>2, <1>3, <1>4, CellsDrawn
<1>6. ds[0] = <<>> /\ \A n \in 1 .. S : ds[n] = ds[n - 1] \o Drawn(s[n], as[n - 1])
  BY <1>3 DEF Draws
<1>7. dt[0] = <<>> /\ \A n \in 1 .. T : dt[n] = dt[n - 1] \o Drawn(t[n], at[n - 1])
  BY <1>4 DEF Draws
<1>8. (\A n \in 0 .. S : au[n] = as[n]) /\ (\A n \in 0 .. T : au[S + n] = at[n])
  BY JoinedPrefix
<1>9. ASSUME NEW n \in 1 .. T PROVE Drawn(t[n], at[n - 1]) \in Seq(CellSet)
  <2>1. t[n] \in TokensOf(1)
    OBVIOUS
  <2>2. at[n - 1] \in Attributes
    <3>1. n - 1 \in 0 .. Len(t)
      OBVIOUS
    <3> QED BY <3>1, <1>2, AttrsDecoded
  <2> HIDE DEF at
  <2> QED BY <2>1, <2>2, DrawnType
<1> DEFINE d == [n \in 0 .. S + T |-> IF n <= S THEN ds[n] ELSE ds[S] \o dt[n - S]]
<1>10. \A e : Draws(e, u, attr) => e[S + T] = Picture(u, attr)
  <2> HIDE DEF u, S, T
  <2> QED BY <1>1, CellsDrawn
<1>11. \A e : e[0] = <<>> /\ (\A n \in 1 .. S + T : e[n] = e[n - 1] \o Drawn(u[n], au[n - 1]))
              => Draws(e, u, attr)
  BY <1>1 DEF Draws
<1>12. ds[S] \in Seq(CellSet)
  BY <1>1, <1>3
<1> HIDE DEF u, S, T, as, at, au
<1>13. d[0] = <<>>
  <2>1. 0 \in 0 .. S + T /\ 0 <= S
    BY <1>1
  <2> QED BY <2>1, <1>6
<1>14. ASSUME NEW n \in 1 .. S + T PROVE d[n] = d[n - 1] \o Drawn(u[n], au[n - 1])
  <2>1. CASE n <= S
    <3>1. n \in 1 .. S /\ n - 1 \in 0 .. S + T /\ n \in 0 .. S + T /\ n - 1 <= S /\ n - 1 \in 0 .. S
      BY <2>1, <1>1
    <3>2. d[n] = ds[n] /\ d[n - 1] = ds[n - 1]
      BY <2>1, <3>1
    <3>3. u[n] = s[n] /\ au[n - 1] = as[n - 1]
      BY <3>1, <1>1, <1>8
    <3> QED BY <3>1, <3>2, <3>3, <1>6
  <2>2. CASE n > S
    <3> DEFINE m == n - S
               q == Drawn(t[m], at[m - 1])
    <3>1. n \in S + 1 .. S + T /\ n - 1 \in 0 .. S + T /\ n \in 0 .. S + T
          /\ m \in 1 .. T /\ m - 1 \in 0 .. T /\ ~(n <= S) /\ n - 1 = S + (m - 1)
      BY <2>2, <1>1
    <3>2. d[n] = ds[S] \o dt[m]
      BY <3>1
    <3>3. u[n] = t[m] /\ au[n - 1] = at[m - 1]
      BY <3>1, <1>1, <1>8
    <3>4. d[n - 1] = ds[S] \o dt[m - 1]
      <4>1. CASE n - 1 <= S
        <5>1. m - 1 = 0 /\ n - 1 = S
          BY <4>1, <3>1, <1>1
        <5>2. d[n - 1] = ds[S]
          BY <5>1, <3>1, <4>1
        <5>3. dt[m - 1] = <<>>
          BY <5>1, <1>7
        <5>4. ds[S] \o <<>> = ds[S]
          BY <1>12
        <5> QED BY <5>2, <5>3, <5>4
      <4>2. CASE ~(n - 1 <= S)
        <5>1. n - 1 - S = m - 1
          BY <3>1, <1>1
        <5> QED BY <4>2, <5>1, <3>1
      <4> QED BY <4>1, <4>2
    <3>5. dt[m] = dt[m - 1] \o q
      BY <3>1, <1>7
    <3>6. q \in Seq(CellSet) /\ dt[m - 1] \in Seq(CellSet)
      BY <3>1, <1>4, <1>9 DEF T
    <3> HIDE DEF q, m
    <3>7. ds[S] \o (dt[m - 1] \o q) = (ds[S] \o dt[m - 1]) \o q
      <4> DEFINE a == ds[S]
                 b == dt[m - 1]
      <4>1. a \in Seq(CellSet) /\ b \in Seq(CellSet)
        BY <3>6, <1>12
      <4> HIDE DEF a, b, CellSet
      <4>2. (a \o b) \o q = a \o (b \o q)
        BY <4>1, <3>6, ConcatAssociative
      <4> QED BY <4>2 DEF a, b
    <3> QED BY <3>2, <3>3, <3>4, <3>5, <3>7 DEF q
  <2>3. n <= S \/ n > S
    BY <1>1
  <2> QED BY <2>1, <2>2, <2>3
<1>15. Draws(d, u, attr)
  <2> HIDE DEF d
  <2> QED BY <1>11, <1>13, <1>14
<1>16. d[S + T] = ds[S] \o dt[T]
  <2>1. CASE T = 0
    <3>1. S + T = S /\ S \in 0 .. S + T /\ S <= S
      BY <2>1, <1>1
    <3>2. d[S + T] = ds[S]
      BY <3>1
    <3>3. dt[T] = <<>>
      BY <2>1, <1>7
    <3>4. ds[S] \o <<>> = ds[S]
      BY <1>12
    <3> QED BY <3>2, <3>3, <3>4
  <2>2. CASE T # 0
    <3> DEFINE k == S + T
    <3>1. k \in 0 .. S + T /\ ~(k <= S) /\ k - S = T
      BY <2>2, <1>1
    <3> HIDE DEF k
    <3>2. d[k] = ds[S] \o dt[k - S]
      BY <3>1
    <3> QED BY <3>1, <3>2 DEF k
  <2> QED BY <2>1, <2>2
<1>17. d[S + T] = Picture(u, attr)
  <2> HIDE DEF d
  <2> QED BY <1>10, <1>15
<1> QED BY <1>5, <1>16, <1>17 DEF u

-----------------------------------------------------------------------------
(* What is seen in a column.  Behind the tokens are blanks with the        *)
(* attributes after them.                                                  *)

Look(tokens, attr, c) == Column(Picture(tokens, attr), Effective(End(tokens, attr)), c)

LEMMA Joined ==
  ASSUME NEW s \in Seq(TokensOf(1)), NEW t \in Seq(TokensOf(1)), NEW attr \in Attributes
  PROVE  /\ s \o t \in Seq(TokensOf(1))
         /\ Width(s \o t) = Width(s) + Width(t)
         /\ End(s \o t, attr) = End(t, End(s, attr))
         /\ \A c \in Nat : Look(s \o t, attr, c)
                             = IF c < Width(s) THEN Look(s, attr, c)
                               ELSE Look(t, End(s, attr), c - Width(s))
<1> DEFINE u == s \o t
           e == End(s, attr)
           p == Picture(s, attr)
           q == Picture(t, e)
<1>1. u \in Seq(TokensOf(1)) /\ Len(u) = Len(s) + Len(t) /\ Len(s) \in Nat /\ Len(t) \in Nat
  BY ConcatProperties
<1>2. e \in Attributes
  BY EndIn
<1>3. Len(t) \in 0 .. Len(t)
  BY <1>1
<1>4. Width(u) = Width(s) + Width(t)
  BY <1>1, <1>3, JoinedPrefix DEF Width
<1>5. End(u, attr) = End(t, e)
  BY <1>1, <1>3, JoinedPrefix DEF End
<1>6. Picture(u, attr) = p \o q
  BY PictureJoined
<1> HIDE DEF e
<1>7. p \in Seq(CellSet) /\ Len(p) = Width(s) /\ q \in Seq(CellSet) /\ Len(q) = Width(t)
  BY <1>2, PictureWidth
<1>8. Width(s) \in Nat /\ Width(t) \in Nat
  BY WidthType
<1> HIDE DEF u, p, q
<1>9. /\ Len(p \o q) = Width(s) + Width(t)
      /\ \A i \in 1 .. Width(s) + Width(t) :
            (p \o q)[i] = IF i <= Width(s) THEN p[i] ELSE q[i - Width(s)]
  <2> DEFINE S == CellSet
  <2> HIDE DEF S
  <2>1. p \in Seq(S) /\ q \in Seq(S)
    BY <1>7 DEF S
  <2>2. /\ Len(p \o q) = Len(p) + Len(q)
        /\ \A i \in 1 .. Len(p) + Len(q) :
              (p \o q)[i] = IF i <= Len(p) THEN p[i] ELSE q[i - Len(p)]
    BY <2>1, ConcatProperties
  <2>3. Len(p) = Width(s) /\ Len(q) = Width(t)
    BY <1>7
  <2> QED BY <2>2, <2>3
<1>10. ASSUME NEW c \in Nat
       PROVE  Look(u, attr, c) = IF c < Width(s) THEN Look(s, attr, c)
                                 ELSE Look(t, e, c - Width(s))
  <2>1. Look(u, attr, c) = IF c < Width(s) + Width(t) THEN (p \o q)[c + 1]
                           ELSE BlankIn(Effective(End(t, e)))
    BY <1>5, <1>6, <1>9 DEF Look, Column
  <2>2. CASE c < Width(s)
    <3>1. c + 1 \in 1 .. Width(s) + Width(t) /\ c + 1 <= Width(s) /\ c < Width(s) + Width(t)
      BY <2>2, <1>8
    <3>2. (p \o q)[c + 1] = p[c + 1]
      BY <3>1, <1>9
    <3>3. Look(s, attr, c) = p[c + 1]
      BY <2>2, <1>7 DEF Look, Column, p
    <3> QED BY <2>1, <2>2, <3>1, <3>2, <3>3
  <2>3. CASE ~(c < Width(s)) /\ c < Width(s) + Width(t)
    <3> DEFINE k == c - Width(s)
    <3>1. c + 1 \in 1 .. Width(s) + Width(t) /\ ~(c + 1 <= Width(s)) /\ k < Width(t)
          /\ c + 1 - Width(s) = k + 1
      BY <2>3, <1>8
    <3>2. (p \o q)[c + 1] = q[k + 1]
      <4> DEFINE j == c + 1
      <4>1. j \in 1 .. Width(s) + Width(t) /\ ~(j <= Width(s)) /\ j - Width(s) = k + 1
        BY <2>3, <1>8
      <4> HIDE DEF j, k
      <4>2. (p \o q)[j] = q[j - Width(s)]
        BY <4>1, <1>9
      <4> QED BY <4>1, <4>2 DEF j
    <3> HIDE DEF k
    <3>3. Look(t, e, k) = q[k + 1]
      BY <3>1, <1>7 DEF Look, Column, q
    <3> QED BY <2>1, <2>3, <3>2, <3>3 DEF k
  <2>4. CASE ~(c < Width(s)) /\ ~(c < Width(s) + Width(t))
    <3> DEFINE k == c - Width(s)
    <3>1. ~(k < Width(t))
      BY <2>4, <1>8
    <3> HIDE DEF k
    <3>2. Look(t, e, k) = BlankIn(Effective(End(t, e)))
      BY <3>1, <1>7 DEF Look, Column, q
    <3> QED BY <2>1, <2>4, <3>2 DEF k
  <2> QED BY <2>2, <2>3, <2>4
<1> QED BY <1>1, <1>4, <1>5, <1>10 DEF u, e

LEMMA LookBeyond ==
  ASSUME NEW tokens \in Seq(TokensOf(1)), NEW attr \in Attributes, NEW c \in Nat,
         c >= Width(tokens)
  PROVE  Look(tokens, attr, c) = BlankIn(Effective(End(tokens, attr)))
<1>1. Len(Picture(tokens, attr)) = Width(tokens) /\ Width(tokens) \in Nat
  BY PictureWidth, WidthType
<1> QED BY <1>1 DEF Look, Column

LEMMA Nothing ==
  ASSUME NEW attr \in Attributes
  PROVE  /\ <<>> \in Seq(TokensOf(1)) /\ Width(<<>>) = 0 /\ End(<<>>, attr) = attr
         /\ \A c \in Nat : Look(<<>>, attr, c) = BlankIn(Effective(attr))
<1> DEFINE none == <<>>
<1>1. none \in Seq(TokensOf(1)) /\ Len(none) = 0
  OBVIOUS
<1> HIDE DEF none
<1>2. Width(none) = 0
  BY <1>1, CellsCounted DEF Width
<1>3. End(none, attr) = attr
  BY <1>1, AttrsDecoded DEF End
<1>4. \A c \in Nat : Look(none, attr, c) = BlankIn(Effective(attr))
  <2> SUFFICES ASSUME NEW c \in Nat PROVE Look(none, attr, c) = BlankIn(Effective(attr))
    OBVIOUS
  <2>1. c >= Width(none)
    BY <1>2
  <2>2. Look(none, attr, c) = BlankIn(Effective(End(none, attr)))
    BY <1>1, <2>1, LookBeyond
  <2> QED BY <2>2, <1>3
<1> QED BY <1>1, <1>2, <1>3, <1>4 DEF none

LEMMA OneToken ==
  ASSUME NEW token \in TokensOf(1), NEW attr \in Attributes
  PROVE  /\ <<token>> \in Seq(TokensOf(1))
         /\ Width(<<token>>) = CellsOf(token)
         /\ End(<<token>>, attr) = After(token, attr)
         /\ Picture(<<token>>, attr) = Drawn(token, attr)
<1> DEFINE one == <<token>>
<1>1. one \in Seq(TokensOf(1)) /\ Len(one) = 1 /\ one[1] = token
  OBVIOUS
<1> HIDE DEF one
<1>2. /\ CellsBefore(one)[0] = 0
      /\ \A n \in 1 .. 1 : CellsBefore(one)[n] = CellsBefore(one)[n - 1] + CellsOf(one[n])
      /\ CellsOf(token) \in Nat
  BY <1>1, CellsCounted, TokenKinds
<1>3. CellsBefore(one)[1] = CellsOf(token)
  <2>1. CellsBefore(one)[1] = CellsBefore(one)[1 - 1] + CellsOf(one[1])
    BY <1>2
  <2>2. 1 - 1 = 0
    OBVIOUS
  <2> QED BY <2>1, <2>2, <1>1, <1>2
<1>4. /\ AttrsBefore(one, attr)[0] = attr
      /\ \A n \in 1 .. 1 : AttrsBefore(one, attr)[n] = After(one[n], AttrsBefore(one, attr)[n - 1])
  BY <1>1, AttrsRead DEF Reads
<1>5. AttrsBefore(one, attr)[1] = After(token, attr)
  <2>1. AttrsBefore(one, attr)[1] = After(one[1], AttrsBefore(one, attr)[1 - 1])
    BY <1>4
  <2>2. 1 - 1 = 0
    OBVIOUS
  <2> QED BY <2>1, <2>2, <1>1, <1>4
<1>6. PICK d : Draws(d, one, attr)
  BY <1>1, CellsDrawn
<1>7. d[1] = Picture(one, attr)
  BY <1>1, <1>6, CellsDrawn
<1>8. d[1] = Drawn(token, attr)
  <2>1. d[0] = <<>>
    BY <1>6 DEF Draws
  <2>2. d[1] = d[1 - 1] \o Drawn(one[1], AttrsBefore(one, attr)[1 - 1])
    <3>1. 1 \in 1 .. Len(one)
      BY <1>1
    <3> QED BY <3>1, <1>6 DEF Draws
  <2>3. 1 - 1 = 0
    OBVIOUS
  <2>4. d[1] = <<>> \o Drawn(token, attr)
    BY <2>1, <2>2, <2>3, <1>1, <1>4
  <2> DEFINE drawn == Drawn(token, attr)
  <2>5. drawn \in Seq(CellSet)
    BY DrawnType
  <2> HIDE DEF drawn
  <2>6. <<>> \o drawn = drawn
    BY <2>5
  <2> QED BY <2>4, <2>6 DEF drawn
<1> QED BY <1>1, <1>3, <1>5, <1>7, <1>8 DEF Width, End, one

LEMMA OneRun ==
  ASSUME NEW n \in 1 .. MaxBlanks, NEW attr \in Attributes
  PROVE  /\ <<Blanks(n)>> \in Seq(TokensOf(1))
         /\ Width(<<Blanks(n)>>) = n
         /\ End(<<Blanks(n)>>, attr) = attr
         /\ \A c \in Nat : Look(<<Blanks(n)>>, attr, c) = BlankIn(Effective(attr))
<1> DEFINE token == Blanks(n)
           one == <<token>>
<1>1. token \in TokensOf(1)
  BY DEF TokensOf
<1>2. token.kind = "blanks" /\ CellsOf(token) = n /\ n \in Nat /\ After(token, attr) = attr
  BY BlanksAssumption DEF Blanks, CellsOf, After
<1>3. \A i \in 1 .. n : Drawn(token, attr)[i] = BlankIn(Effective(attr))
  BY <1>2 DEF Drawn, BlankIn
<1> HIDE DEF token
<1>4. /\ one \in Seq(TokensOf(1)) /\ Width(one) = n /\ End(one, attr) = attr
      /\ Picture(one, attr) = Drawn(token, attr)
  BY <1>1, <1>2, OneToken
<1>5. Len(Picture(one, attr)) = n
  BY <1>4, PictureWidth
<1>6. ASSUME NEW c \in Nat PROVE Look(one, attr, c) = BlankIn(Effective(attr))
  <2>1. c < n => c + 1 \in 1 .. n
    BY <1>2
  <2> QED BY <2>1, <1>3, <1>4, <1>5 DEF Look, Column
<1> QED BY <1>4, <1>6 DEF one, token

(* What is read is added to the attributes.                                *)
LEMMA EncodedRead ==
  ASSUME NEW read \in Attributes, NEW attr \in Attributes
  PROVE  /\ Encoded(read) \in Seq(TokensOf(1))
         /\ Width(Encoded(read)) = 0
         /\ End(Encoded(read), attr) = Decoded(attr, read)
<1>1. CASE read = NoAttributes
  <2>1. Encoded(read) = <<>>
    BY <1>1 DEF Encoded
  <2>2. Decoded(attr, read) = attr
    BY <1>1 DEF Decoded, NoAttributes, Attributes
  <2> QED BY <2>1, <2>2, Nothing
<1>2. CASE read # NoAttributes
  <2> DEFINE token == Attr(read)
  <2>1. Encoded(read) = <<token>>
    BY <1>2 DEF Encoded
  <2>2. token \in TokensOf(1)
    BY <1>2 DEF TokensOf
  <2>3. CellsOf(token) = 0 /\ After(token, attr) = Decoded(attr, read)
    BY DEF Attr, CellsOf, After
  <2> HIDE DEF token
  <2> QED BY <2>1, <2>2, <2>3, OneToken
<1> QED BY <1>1, <1>2

LEMMA FunctionIsSeq ==
  ASSUME NEW n \in Nat, NEW D, NEW f \in [1 .. n -> D]
  PROVE  f \in Seq(D) /\ Len(f) = n
OBVIOUS

LEMMA Extended ==
  ASSUME NEW n \in Nat \ {0}, NEW D, NEW g \in [1 .. n -> D]
  PROVE  [i \in 1 .. n - 1 |-> g[i]] \o [i \in 1 .. 1 |-> g[n]] = [i \in 1 .. n |-> g[i]]
<1> DEFINE p == [i \in 1 .. n - 1 |-> g[i]]
           q == [i \in 1 .. 1 |-> g[n]]
<1>1. p \in [1 .. n - 1 -> D] /\ q \in [1 .. 1 -> D] /\ n - 1 \in Nat
  OBVIOUS
<1>2. (\A i \in 1 .. n - 1 : p[i] = g[i]) /\ q[1] = g[n]
  OBVIOUS
<1> HIDE DEF p, q
<1>3. p \in Seq(D) /\ Len(p) = n - 1 /\ q \in Seq(D) /\ Len(q) = 1
  <2>1. p \in Seq(D) /\ Len(p) = n - 1
    BY <1>1, FunctionIsSeq
  <2>2. 1 \in Nat
    OBVIOUS
  <2>3. q \in Seq(D) /\ Len(q) = 1
    BY <1>1, <2>2, FunctionIsSeq
  <2> QED BY <2>1, <2>3
<1>4. /\ p \o q \in Seq(D) /\ Len(p \o q) = n - 1 + 1
      /\ \A i \in 1 .. n - 1 + 1 : (p \o q)[i] = IF i <= n - 1 THEN p[i] ELSE q[i - (n - 1)]
  <2>1. /\ p \o q \in Seq(D) /\ Len(p \o q) = Len(p) + Len(q)
        /\ \A i \in 1 .. Len(p) + Len(q) :
              (p \o q)[i] = IF i <= Len(p) THEN p[i] ELSE q[i - Len(p)]
    BY <1>3, ConcatProperties
  <2> QED BY <2>1, <1>3
<1>5. n - 1 + 1 = n
  OBVIOUS
<1>6. ASSUME NEW i \in 1 .. n PROVE (p \o q)[i] = g[i]
  <2>1. CASE i <= n - 1
    BY <2>1, <1>4, <1>5, <1>2
  <2>2. CASE ~(i <= n - 1)
    <3>1. i = n /\ i - (n - 1) = 1
      BY <2>2
    <3> QED BY <2>2, <3>1, <1>2, <1>4, <1>5
  <2> QED BY <2>1, <2>2
<1> DEFINE r == p \o q
<1>7. r \in Seq(D) /\ Len(r) = n
  BY <1>4, <1>5
<1> HIDE DEF r
<1>8. DOMAIN r = 1 .. n /\ r = [i \in DOMAIN r |-> r[i]]
  BY <1>7
<1>9. r = [i \in 1 .. n |-> g[i]]
  BY <1>6, <1>8 DEF r
<1> QED BY <1>9 DEF r, p, q

LEMMA CharsLook ==
  ASSUME Wide = {}, NEW text \in Seq(Characters), NEW attr \in Attributes
  PROVE  /\ Chars(text) \in Seq(TokensOf(1))
         /\ Width(Chars(text)) = Len(text)
         /\ End(Chars(text), attr) = attr
         /\ \A c \in Nat : c < Len(text) =>
               Look(Chars(text), attr, c) = [char |-> text[c + 1], attr |-> Effective(attr)]
<1> DEFINE tokens == Chars(text)
           N == Len(text)
           CellFor(i) == [char |-> text[i], attr |-> Effective(attr)]
           f == [n \in 0 .. N |-> n]
           a == [n \in 0 .. N |-> attr]
           d == [n \in 0 .. N |-> [i \in 1 .. n |-> CellFor(i)]]
<1>1. /\ tokens \in Seq(TokensOf(1)) /\ Len(tokens) = N /\ N \in Nat
      /\ \A n \in 1 .. N : tokens[n] = Char(text[n])
  BY CharsType DEF Chars
<1>2. ASSUME NEW n \in 1 .. N
      PROVE  /\ CellsOf(tokens[n]) = 1
             /\ tokens[n].kind = "char" /\ tokens[n].char = text[n]
  <2>1. CharWidth(text[n]) = 1
    BY DEF CharWidth
  <2>2. tokens[n] = Char(text[n])
    BY <1>1
  <2> HIDE DEF tokens
  <2> QED BY <2>1, <2>2 DEF Char, CellsOf
<1> HIDE DEF tokens, N
<1>3. Counts(f, tokens)
  <2>1. f[0] = 0
    BY <1>1
  <2>2. \A n \in 1 .. N : f[n] = f[n - 1] + CellsOf(tokens[n])
    BY <1>1, <1>2
  <2> QED BY <2>1, <2>2, <1>1 DEF Counts
<1>4. Reads(a, tokens, attr)
  <2>1. a[0] = attr
    BY <1>1
  <2>2. \A n \in 1 .. N : a[n] = After(tokens[n], a[n - 1])
    BY <1>1, <1>2 DEF After
  <2> QED BY <2>1, <2>2, <1>1 DEF Reads
<1>5. Width(tokens) = N
  <2>1. f[N] = N
    BY <1>1
  <2> HIDE DEF f
  <2>2. \A n \in 0 .. N : f[n] = CellsBefore(tokens)[n]
    BY <1>1, <1>3, CountsOnce
  <2> QED BY <1>1, <2>1, <2>2 DEF Width
<1>6. \A n \in 0 .. N : AttrsBefore(tokens, attr)[n] = attr
  <2>1. \A n \in 0 .. N : a[n] = attr
    OBVIOUS
  <2> HIDE DEF a
  <2>2. \A n \in 0 .. N : a[n] = AttrsBefore(tokens, attr)[n]
    BY <1>1, <1>4, ReadsOnce
  <2> QED BY <2>1, <2>2
<1>7. Draws(d, tokens, attr)
  <2>1. d[0] = <<>>
    BY <1>1
  <2>2. ASSUME NEW n \in 1 .. N
        PROVE  d[n] = d[n - 1] \o Drawn(tokens[n], AttrsBefore(tokens, attr)[n - 1])
    <3> DEFINE p == [i \in 1 .. n - 1 |-> CellFor(i)]
               q == [i \in 1 .. 1 |-> CellFor(n)]
               D == {CellFor(i) : i \in 1 .. N}
    <3>1. n \in 0 .. N /\ n - 1 \in 0 .. N /\ n \in Nat /\ n - 1 \in Nat
      BY <1>1
    <3>2. Drawn(tokens[n], AttrsBefore(tokens, attr)[n - 1]) = q
      BY <3>1, <1>2, <1>6 DEF Drawn
    <3>3. d[n] = [i \in 1 .. n |-> CellFor(i)] /\ d[n - 1] = p
      BY <3>1
    <3>6. p \o q = [i \in 1 .. n |-> CellFor(i)]
      <4> DEFINE g == [i \in 1 .. n |-> CellFor(i)]
      <4>1. g \in [1 .. n -> D] /\ n \in Nat \ {0}
        BY <3>1, <1>1
      <4>2. p = [i \in 1 .. n - 1 |-> g[i]] /\ q = [i \in 1 .. 1 |-> g[n]]
        BY <3>1
      <4>3. [i \in 1 .. n |-> g[i]] = g
        OBVIOUS
      <4> HIDE DEF g, p, q, D
      <4>4. p \o q = [i \in 1 .. n |-> g[i]]
        BY <4>1, <4>2, Extended
      <4> QED BY <4>3, <4>4 DEF g
    <3> QED BY <3>2, <3>3, <3>6
  <2> HIDE DEF d
  <2> QED BY <2>1, <2>2, <1>1 DEF Draws
<1>8. Picture(tokens, attr) = [i \in 1 .. N |-> CellFor(i)]
  <2>1. d[N] = [i \in 1 .. N |-> CellFor(i)]
    BY <1>1
  <2> HIDE DEF d, CellFor
  <2> QED BY <1>1, <1>7, <2>1, CellsDrawn
<1>9. ASSUME NEW c \in Nat, c < N PROVE Look(tokens, attr, c) = CellFor(c + 1)
  <2>1. Len(Picture(tokens, attr)) = N
    BY <1>1, <1>5, PictureWidth
  <2>2. c + 1 \in 1 .. N
    BY <1>1, <1>9
  <2> HIDE DEF CellFor
  <2>3. Look(tokens, attr, c) = Picture(tokens, attr)[c + 1]
    BY <2>1, <1>9 DEF Look, Column
  <2>4. Picture(tokens, attr)[c + 1] = CellFor(c + 1)
    BY <1>8, <2>2
  <2> QED BY <2>3, <2>4
<1>10. End(tokens, attr) = attr
  BY <1>1, <1>6 DEF End
<1> QED BY <1>1, <1>5, <1>9, <1>10 DEF tokens, N

(* Runs of blanks show nothing else, however many there are.               *)
Runs == {Blanks(n) : n \in 1 .. MaxBlanks}

LEMMA RunsLook ==
  ASSUME NEW tokens \in Seq(Runs), NEW attr \in Attributes
  PROVE  /\ tokens \in Seq(TokensOf(1))
         /\ End(tokens, attr) = attr
         /\ \A c \in Nat : Look(tokens, attr, c) = BlankIn(Effective(attr))
<1> DEFINE N == Len(tokens)
           D == {BlankIn(Effective(attr))}
           a == [n \in 0 .. N |-> attr]
<1>1. Runs \subseteq TokensOf(1)
  BY DEF Runs, TokensOf
<1>2. tokens \in Seq(TokensOf(1)) /\ N \in Nat
  BY <1>1
<1>3. ASSUME NEW n \in 1 .. N
      PROVE  tokens[n].kind = "blanks" /\ tokens[n].num \in Nat /\ CellsOf(tokens[n]) = tokens[n].num
  <2>1. tokens[n] \in Runs
    OBVIOUS
  <2>2. PICK m \in 1 .. MaxBlanks : tokens[n] = Blanks(m)
    BY <2>1 DEF Runs
  <2>3. m \in Nat
    BY BlanksAssumption
  <2> QED BY <2>2, <2>3 DEF Blanks, CellsOf
<1> HIDE DEF N
<1>4. Reads(a, tokens, attr)
  <2>1. a[0] = attr
    BY <1>2
  <2>2. \A n \in 1 .. N : a[n] = After(tokens[n], a[n - 1])
    BY <1>2, <1>3 DEF After
  <2> QED BY <2>1, <2>2 DEF Reads, N
<1>5. \A n \in 0 .. N : AttrsBefore(tokens, attr)[n] = attr
  <2>1. \A n \in 0 .. N : a[n] = attr
    OBVIOUS
  <2> HIDE DEF a
  <2>2. \A n \in 0 .. N : a[n] = AttrsBefore(tokens, attr)[n]
    BY <1>2, <1>4, ReadsOnce DEF N
  <2> QED BY <2>1, <2>2
<1>6. End(tokens, attr) = attr
  BY <1>2, <1>5 DEF End, N
<1>7. PICK d : Draws(d, tokens, attr)
  BY <1>2, CellsDrawn
<1>8. d[N] = Picture(tokens, attr)
  BY <1>2, <1>7, CellsDrawn DEF N
<1>9. \A n \in 0 .. N : d[n] \in Seq(D)
  <2> DEFINE S == Seq(D)
  <2>1. d[0] \in S
    BY <1>7 DEF Draws
  <2>2. ASSUME NEW n \in 1 .. N, d[n - 1] \in S PROVE d[n] \in S
    <3> DEFINE q == Drawn(tokens[n], attr)
               p == d[n - 1]
    <3>1. q \in Seq(D)
      <4>1. q \in [1 .. tokens[n].num -> D]
        BY <1>3 DEF Drawn, BlankIn
      <4> HIDE DEF q
      <4> QED BY <4>1, <1>3, FunctionIsSeq
    <3>2. d[n] = p \o q
      <4>1. n - 1 \in 0 .. N
        BY <1>2
      <4>2. d[n] = p \o Drawn(tokens[n], AttrsBefore(tokens, attr)[n - 1])
        BY <1>7 DEF Draws, N
      <4> QED BY <4>1, <4>2, <1>5
    <3> HIDE DEF p, q, D
    <3>3. p \o q \in Seq(D)
      BY <3>1, <2>2, ConcatProperties DEF p
    <3> QED BY <3>2, <3>3
  <2> HIDE DEF S
  <2>3. \A n \in 0 .. N : d[n] \in S
    BY <1>2, <2>1, <2>2, StaysIn
  <2> QED BY <2>3 DEF S
<1>10. Picture(tokens, attr) \in Seq(D)
  BY <1>2, <1>8, <1>9
<1>11. ASSUME NEW c \in Nat PROVE Look(tokens, attr, c) = BlankIn(Effective(attr))
  <2> DEFINE p == Picture(tokens, attr)
  <2>1. c < Len(p) => p[c + 1] = BlankIn(Effective(attr))
    <3>1. p \in Seq(D)
      BY <1>10
    <3> HIDE DEF p
    <3>2. c < Len(p) => c + 1 \in 1 .. Len(p)
      BY <3>1
    <3>3. c < Len(p) => p[c + 1] \in D
      BY <3>1, <3>2
    <3> QED BY <3>3
  <2> QED BY <2>1, <1>6 DEF Look, Column
<1> QED BY <1>2, <1>6, <1>11

LEMMA BlanksForLook ==
  ASSUME NEW num \in Nat, NEW attr \in Attributes
  PROVE  /\ BlanksFor(num) \in Seq(TokensOf(1))
         /\ Width(BlanksFor(num)) = num
         /\ End(BlanksFor(num), attr) = attr
         /\ \A c \in Nat : Look(BlanksFor(num), attr, c) = BlankIn(Effective(attr))
<1> DEFINE N == (num + MaxBlanks - 1) \div MaxBlanks
           Rest(i) == num - (i - 1) * MaxBlanks
           Run(i) == IF Rest(i) < MaxBlanks THEN Rest(i) ELSE MaxBlanks
           tokens == BlanksFor(num)
           f == [n \in 0 .. N |-> IF n * MaxBlanks < num THEN n * MaxBlanks ELSE num]
<1>1. MaxBlanks \in Nat /\ MaxBlanks > 0
  BY BlanksAssumption
<1>2. N \in Nat /\ N * MaxBlanks >= num /\ (N = 0 \/ (N - 1) * MaxBlanks < num)
  <2>1. /\ N \in Nat
        /\ num + MaxBlanks - 1 >= MaxBlanks * N
        /\ num + MaxBlanks - 1 < MaxBlanks * N + MaxBlanks
    BY <1>1, Z3
  <2> DEFINE k == N * MaxBlanks
  <2>2. k \in Int /\ MaxBlanks * N = k /\ (N - 1) * MaxBlanks = k - MaxBlanks
    BY <2>1, <1>1, Z3
  <2> HIDE DEF N
  <2>3. k >= num /\ k - MaxBlanks < num
    BY <2>1, <2>2, <1>1
  <2> QED BY <2>1, <2>2, <2>3
<1>3. tokens = [i \in 1 .. N |-> Blanks(Run(i))]
  BY DEF BlanksFor
<1> HIDE DEF N, tokens
<1>4. ASSUME NEW i \in 1 .. N
      PROVE  /\ (i - 1) * MaxBlanks \in Nat /\ (i - 1) * MaxBlanks < num
             /\ i * MaxBlanks = (i - 1) * MaxBlanks + MaxBlanks
             /\ Run(i) \in 1 .. MaxBlanks
  <2> DEFINE k == (i - 1) * MaxBlanks
  <2>1. k \in Nat /\ i * MaxBlanks = k + MaxBlanks
    BY <1>1, Z3
  <2>2. k <= (N - 1) * MaxBlanks
    BY <1>1, <1>2, Z3
  <2>3. (N - 1) * MaxBlanks < num /\ (N - 1) * MaxBlanks \in Int
    BY <1>1, <1>2
  <2> HIDE DEF k
  <2>4. k < num
    BY <2>1, <2>2, <2>3
  <2>5. (IF num - k < MaxBlanks THEN num - k ELSE MaxBlanks) \in 1 .. MaxBlanks
    BY <2>1, <2>4, <1>1
  <2> QED BY <2>1, <2>4, <2>5 DEF k
<1>5. tokens \in Seq(Runs) /\ Len(tokens) = N
  <2>1. tokens \in [1 .. N -> Runs]
    BY <1>3, <1>4 DEF Runs
  <2> QED BY <2>1, <1>2, FunctionIsSeq
<1>6. /\ tokens \in Seq(TokensOf(1)) /\ End(tokens, attr) = attr
      /\ \A c \in Nat : Look(tokens, attr, c) = BlankIn(Effective(attr))
  BY <1>5, RunsLook
<1>7. \A n \in 1 .. N : CellsOf(tokens[n]) = Run(n)
  BY <1>3 DEF Blanks, CellsOf
<1>8. Counts(f, tokens)
  <2>1. f[0] = 0
    BY <1>1, <1>2
  <2>2. ASSUME NEW n \in 1 .. N PROVE f[n] = f[n - 1] + CellsOf(tokens[n])
    <3> DEFINE k == (n - 1) * MaxBlanks
    <3>1. k \in Nat /\ k < num /\ n * MaxBlanks = k + MaxBlanks
      BY <1>4
    <3>2. n \in 0 .. N /\ n - 1 \in 0 .. N
      BY <1>2
    <3>3. f[n] = (IF k + MaxBlanks < num THEN k + MaxBlanks ELSE num) /\ f[n - 1] = k
      BY <3>1, <3>2
    <3>4. CellsOf(tokens[n]) = IF num - k < MaxBlanks THEN num - k ELSE MaxBlanks
      BY <1>7
    <3> HIDE DEF k, f
    <3> QED BY <3>1, <3>3, <3>4, <1>1
  <2> HIDE DEF f
  <2> QED BY <2>1, <2>2, <1>5 DEF Counts
<1>9. Width(tokens) = num
  <2>1. f[N] = num
    <3>1. N \in 0 .. N /\ ~(N * MaxBlanks < num)
      BY <1>1, <1>2
    <3> QED BY <3>1
  <2> HIDE DEF f
  <2>2. \A n \in 0 .. N : f[n] = CellsBefore(tokens)[n]
    BY <1>5, <1>6, <1>8, CountsOnce
  <2> QED BY <1>2, <1>5, <2>1, <2>2 DEF Width
<1> QED BY <1>6, <1>9 DEF tokens

(* Attributes that have the same effect are as good as each other.         *)
LEMMA DecodedEffect ==
  ASSUME NEW attr \in Attributes, NEW other \in Attributes, NEW read \in Attributes,
         Effective(attr) = Effective(other)
  PROVE  Effective(Decoded(attr, read)) = Effective(Decoded(other, read))
<1>1. ASSUME NEW f \in Flags
      PROVE  (IF attr[f] = Unset THEN Default ELSE attr[f])
               = (IF other[f] = Unset THEN Default ELSE other[f])
  <2>1. Effective(attr)[f] = Effective(other)[f]
    OBVIOUS
  <2> QED BY <2>1 DEF Effective
<1>2. ASSUME NEW f \in Flags
      PROVE  (IF Decoded(attr, read)[f] = Unset THEN Default ELSE Decoded(attr, read)[f])
               = (IF Decoded(other, read)[f] = Unset THEN Default ELSE Decoded(other, read)[f])
  <2>1. Decoded(attr, read)[f] = IF read[f] = Unset THEN attr[f] ELSE read[f]
    BY DEF Decoded
  <2>2. Decoded(other, read)[f] = IF read[f] = Unset THEN other[f] ELSE read[f]
    BY DEF Decoded
  <2> QED BY <2>1, <2>2, <1>1
<1> QED BY <1>2 DEF Effective

LEMMA SameEffect ==
  ASSUME NEW tokens \in Seq(TokensOf(1)), NEW attr \in Attributes, NEW other \in Attributes,
         Effective(attr) = Effective(other)
  PROVE  /\ Effective(End(tokens, attr)) = Effective(End(tokens, other))
         /\ \A c \in Nat : Look(tokens, attr, c) = Look(tokens, other, c)
<1> DEFINE N == Len(tokens)
           a == AttrsBefore(tokens, attr)
           b == AttrsBefore(tokens, other)
           A == {n \in 0 .. N : Effective(a[n]) = Effective(b[n])}
<1>1. /\ N \in Nat
      /\ a[0] = attr /\ \A n \in 1 .. N : a[n] = After(tokens[n], a[n - 1])
      /\ b[0] = other /\ \A n \in 1 .. N : b[n] = After(tokens[n], b[n - 1])
  BY AttrsRead DEF Reads
<1>2. (\A n \in 0 .. N : a[n] \in Attributes) /\ (\A n \in 0 .. N : b[n] \in Attributes)
  BY AttrsDecoded
<1>3. \A n \in 1 .. N : tokens[n] \in TokensOf(1)
  OBVIOUS
<1>4. End(tokens, attr) = a[N] /\ End(tokens, other) = b[N]
  BY DEF End
<1>5. PICK d : Draws(d, tokens, attr)
  BY CellsDrawn
<1>6. d[N] = Picture(tokens, attr)
  BY <1>5, CellsDrawn
<1>7. d[0] = <<>> /\ \A n \in 1 .. N : d[n] = d[n - 1] \o Drawn(tokens[n], a[n - 1])
  BY <1>5 DEF Draws
<1>8. \A e : e[0] = <<>> /\ (\A n \in 1 .. N : e[n] = e[n - 1] \o Drawn(tokens[n], b[n - 1]))
             => Draws(e, tokens, other)
  BY DEF Draws
<1> HIDE DEF N, a, b
<1>9. 0 \in A
  BY <1>1
<1>10. ASSUME NEW n \in 1 .. N, n - 1 \in A PROVE n \in A
  <2>1. n \in 0 .. N /\ n - 1 \in 0 .. N
    BY <1>1
  <2>2. a[n - 1] \in Attributes /\ b[n - 1] \in Attributes /\ Effective(a[n - 1]) = Effective(b[n - 1])
    BY <1>10, <1>2, <2>1
  <2>3. a[n] = After(tokens[n], a[n - 1]) /\ b[n] = After(tokens[n], b[n - 1])
    BY <1>1
  <2>4. tokens[n].kind = "attr" => tokens[n].attr \in Attributes
    BY <1>3, TokenKinds
  <2>5. CASE tokens[n].kind = "attr"
    <3>1. Effective(Decoded(a[n - 1], tokens[n].attr)) = Effective(Decoded(b[n - 1], tokens[n].attr))
      BY <2>2, <2>4, <2>5, DecodedEffect
    <3> QED BY <3>1, <2>1, <2>3, <2>5 DEF After
  <2>6. CASE tokens[n].kind # "attr"
    BY <2>1, <2>2, <2>3, <2>6 DEF After
  <2> QED BY <2>5, <2>6
<1>11. \A n \in 0 .. N : n \in A
  <2> HIDE DEF A
  <2> QED BY <1>1, <1>9, <1>10, Upwards
<1>12. Draws(d, tokens, other)
  <2>1. ASSUME NEW n \in 1 .. N PROVE Drawn(tokens[n], a[n - 1]) = Drawn(tokens[n], b[n - 1])
    <3>1. n - 1 \in 0 .. N
      BY <1>1
    <3>2. Effective(a[n - 1]) = Effective(b[n - 1])
      BY <3>1, <1>11
    <3> QED BY <3>2 DEF Drawn
  <2>2. \A n \in 1 .. N : d[n] = d[n - 1] \o Drawn(tokens[n], b[n - 1])
    BY <1>7, <2>1
  <2> QED BY <1>7, <1>8, <2>2
<1>13. Picture(tokens, attr) = Picture(tokens, other)
  BY <1>6, <1>12, CellsDrawn DEF N
<1>14. Effective(End(tokens, attr)) = Effective(End(tokens, other))
  BY <1>1, <1>4, <1>11
<1> QED BY <1>13, <1>14 DEF Look

(* Reading only adds.                                                      *)
LEMMA FlagsKept ==
  ASSUME NEW tokens \in Seq(TokensOf(1)), NEW attr \in Attributes
  PROVE  \A f \in Flags : attr[f] # Unset => End(tokens, attr)[f] # Unset
<1> SUFFICES ASSUME NEW f \in Flags, attr[f] # Unset
             PROVE  End(tokens, attr)[f] # Unset
  OBVIOUS
<1> DEFINE N == Len(tokens)
           a == AttrsBefore(tokens, attr)
           A == {n \in 0 .. N : a[n][f] # Unset}
<1>1. /\ N \in Nat
      /\ a[0] = attr /\ \A n \in 1 .. N : a[n] = After(tokens[n], a[n - 1])
  BY AttrsRead DEF Reads
<1>2. End(tokens, attr) = a[N]
  BY DEF End
<1> HIDE DEF N, a
<1>3. 0 \in A
  BY <1>1
<1>4. ASSUME NEW n \in 1 .. N, n - 1 \in A PROVE n \in A
  <2>1. n \in 0 .. N /\ a[n - 1][f] # Unset /\ a[n] = After(tokens[n], a[n - 1])
    BY <1>1, <1>4
  <2>2. Decoded(a[n - 1], tokens[n].attr)[f]
          = IF tokens[n].attr[f] = Unset THEN a[n - 1][f] ELSE tokens[n].attr[f]
    BY DEF Decoded
  <2> QED BY <2>1, <2>2 DEF After
<1>5. \A n \in 0 .. N : n \in A
  <2> HIDE DEF A
  <2> QED BY <1>1, <1>3, <1>4, Upwards
<1> QED BY <1>1, <1>2, <1>5

-----------------------------------------------------------------------------
(* Places in a line.                                                       *)

LEMMA PassedLook ==
  ASSUME NEW place, place.after \in Seq(TokensOf(1)), place.attr \in Attributes,
         NEW n \in 0 .. Len(place.after)
  PROVE  LET s == SubSeq(place.after, 1, n)
             t == SubSeq(place.after, n + 1, Len(place.after))
         IN /\ s \in Seq(TokensOf(1)) /\ t \in Seq(TokensOf(1)) /\ s \o t = place.after
            /\ Len(t) = Len(place.after) - n
            /\ Width(s) = CellsBefore(place.after)[n]
            /\ Passed(place, n).before = place.before \o s
            /\ Passed(place, n).attr = End(s, place.attr)
            /\ Passed(place, n).after = t
<1> DEFINE T == TokensOf(1)
           tokens == place.after
           s == SubSeq(tokens, 1, n)
           t == SubSeq(tokens, n + 1, Len(tokens))
<1>1. tokens \in Seq(T) /\ Len(tokens) \in Nat
  OBVIOUS
<1> HIDE DEF T
<1>2. s \in Seq(T) /\ Len(s) = n /\ t \in Seq(T) /\ Len(t) = Len(tokens) - n
  BY <1>1
<1>3. s \o t = tokens
  <2> DEFINE L == Len(tokens)
  <2>1. 1 \in 1 .. L + 1 /\ n \in 1 - 1 .. L /\ L \in n .. L
    BY <1>1
  <2>2. SubSeq(tokens, 1, n) \o SubSeq(tokens, n + 1, L) = SubSeq(tokens, 1, L)
    BY <1>1, <2>1, ConcatAdjacentSubSeq
  <2>3. SubSeq(tokens, 1, L) = tokens
    BY <1>1
  <2> QED BY <2>2, <2>3
<1> HIDE DEF s, t
<1>4. n \in 0 .. Len(s)
  BY <1>1, <1>2
<1>5. CellsBefore(s \o t)[n] = CellsBefore(s)[n] /\ AttrsBefore(s \o t, place.attr)[n] = AttrsBefore(s, place.attr)[n]
  BY <1>2, <1>4, JoinedPrefix DEF T
<1>6. Width(s) = CellsBefore(tokens)[n] /\ End(s, place.attr) = AttrsBefore(tokens, place.attr)[n]
  BY <1>2, <1>3, <1>5 DEF Width, End
<1>7. /\ Passed(place, n).before = place.before \o s
      /\ Passed(place, n).attr = AttrsBefore(tokens, place.attr)[n]
      /\ Passed(place, n).after = t
  BY DEF Passed, Place, s, t
<1> QED BY <1>2, <1>3, <1>6, <1>7 DEF T, s, t

(* What is the same from here on: the cells, the attributes at the end,    *)
(* and the flags that are set.                                             *)
SameFrom(place, num, later) ==
  /\ later.after \in Seq(TokensOf(1)) /\ later.attr \in Attributes
  /\ \A c \in Nat : Look(later.after, later.attr, c) = Look(place.after, place.attr, c + num)
  /\ End(later.after, later.attr) = End(place.after, place.attr)
  /\ \A f \in Flags : place.attr[f] # Unset => later.attr[f] # Unset

LEMMA PassAttributesLook ==
  ASSUME NEW place, place.after \in Seq(TokensOf(1)), place.attr \in Attributes
  PROVE  SameFrom(place, 0, PassAttributes(place))
<1> DEFINE tokens == place.after
           others == {i \in DOMAIN tokens : tokens[i].kind # "attr"}
           n == NumberBefore(others, Len(tokens))
           s == SubSeq(tokens, 1, n)
           t == SubSeq(tokens, n + 1, Len(tokens))
           q == PassAttributes(place)
           A == {i \in 0 .. n : CellsBefore(tokens)[i] = 0}
<1>1. Len(tokens) \in Nat /\ DOMAIN tokens = 1 .. Len(tokens)
  OBVIOUS
<1>2. /\ n \in 0 .. Len(tokens)
      /\ \A i \in 1 .. n : i \notin others
  <2> HIDE DEF others
  <2> QED BY <1>1, NumberFound
<1>3. q = Passed(place, n)
  BY DEF PassAttributes
<1>4. ASSUME NEW i \in 1 .. n PROVE CellsOf(tokens[i]) = 0
  <2>1. i \in DOMAIN tokens /\ i \notin others
    BY <1>1, <1>2
  <2>2. tokens[i].kind = "attr" /\ tokens[i] \in TokensOf(1)
    BY <2>1
  <2> QED BY <2>2, TokenKinds
<1> HIDE DEF n
<1>5. CellsBefore(tokens)[n] = 0
  <2>1. 0 \in A
    BY <1>2, CellsCounted
  <2>2. ASSUME NEW i \in 1 .. n, i - 1 \in A PROVE i \in A
    <3>1. i \in 0 .. n /\ i \in 1 .. Len(tokens)
      BY <1>1, <1>2
    <3>2. CellsBefore(tokens)[i] = CellsBefore(tokens)[i - 1] + CellsOf(tokens[i])
      BY <3>1, CellsCounted
    <3> QED BY <3>1, <3>2, <2>2, <1>4
  <2>3. n \in Nat
    BY <1>2
  <2>4. \A i \in 0 .. n : i \in A
    <3> HIDE DEF A
    <3> QED BY <2>1, <2>2, <2>3, Upwards
  <2> QED BY <2>3, <2>4
<1>6. /\ s \in Seq(TokensOf(1)) /\ t \in Seq(TokensOf(1)) /\ s \o t = tokens
      /\ Width(s) = CellsBefore(tokens)[n]
      /\ Passed(place, n).attr = End(s, place.attr)
      /\ Passed(place, n).after = t
  BY <1>2, PassedLook
<1> HIDE DEF s, t, q
<1>7. q.after = t /\ q.attr = End(s, place.attr) /\ Width(s) = 0
  BY <1>3, <1>5, <1>6
<1>8. q.attr \in Attributes
  BY <1>6, <1>7, EndIn
<1>9. End(tokens, place.attr) = End(t, q.attr)
  <2>1. End(s \o t, place.attr) = End(t, End(s, place.attr))
    BY <1>6, Joined
  <2> QED BY <2>1, <1>6, <1>7
<1>10. ASSUME NEW c \in Nat PROVE Look(t, q.attr, c) = Look(tokens, place.attr, c + 0)
  <2>1. ~(c < 0) /\ c - 0 = c /\ c + 0 = c
    OBVIOUS
  <2>2. Look(s \o t, place.attr, c)
          = IF c < Width(s) THEN Look(s, place.attr, c)
            ELSE Look(t, End(s, place.attr), c - Width(s))
    BY <1>6, Joined
  <2> QED BY <2>1, <2>2, <1>6, <1>7
<1>11. \A f \in Flags : place.attr[f] # Unset => q.attr[f] # Unset
  BY <1>6, <1>7, FlagsKept
<1> QED BY <1>6, <1>7, <1>8, <1>9, <1>10, <1>11 DEF SameFrom, q

(* The place that is `num' cells further.  What is kept of the tokens that *)
(* were skipped is only right where blanks that fill up a line fit in a    *)
(* byte.                                                                   *)
Skips(place, num, later) ==
  \E s \in Seq(TokensOf(1)) :
    /\ later.before = place.before \o s
    /\ Width(s) = num
    /\ later.attr = End(s, place.attr)
    /\ \A c \in Nat : c < num => Look(s, place.attr, c) = Look(place.after, place.attr, c)


(* A run of blanks is known by its length. *)
LEMMA RunOfBlanks ==
  ASSUME NEW token \in TokensOf(1), token.kind = "blanks"
  PROVE  token.num \in 1 .. MaxBlanks /\ token = Blanks(token.num)
BY DEF TokensOf, Attr, Blanks, Char

LEMMA HeadAndTail ==
  ASSUME NEW D, NEW a \in Seq(D), a # <<>>
  PROVE  a[1] \in D /\ Tail(a) \in Seq(D) /\ a = <<a[1]>> \o Tail(a)
OBVIOUS
LEMMA ContentSkipLook ==
  ASSUME Wide = {}, NEW place \in PlacesOf(1), NEW num \in Nat
  PROVE  /\ SameFrom(place, num, ContentSkip(num, place))
         /\ num <= MaxBlanks => Skips(place, num, ContentSkip(num, place))
<1> DEFINE T == TokensOf(1)
           tokens == place.after
           attr == place.attr
           Left(n) == num - CellsBefore(tokens)[n]
           stops == {i \in DOMAIN tokens :
                       \/ Left(i - 1) <= 0
                       \/ tokens[i].kind = "blanks" /\ ~Within(tokens[i].num, Left(i - 1))}
           n == NumberBefore(stops, Len(tokens))
           there == Passed(place, n)
           left == Left(n)
           s == SubSeq(tokens, 1, n)
           t == SubSeq(tokens, n + 1, Len(tokens))
           skipped == ContentSkip(num, place)
<1>1. /\ tokens \in Seq(T) /\ Len(tokens) \in Nat /\ DOMAIN tokens = 1 .. Len(tokens)
      /\ attr \in Attributes /\ place.before \in Seq(T)
  BY DEF PlacesOf
<1>2. /\ n \in 0 .. Len(tokens)
      /\ \A i \in 1 .. n : i \notin stops
      /\ n = Len(tokens) \/ n + 1 \in stops
  <2> HIDE DEF stops
  <2> QED BY <1>1, NumberFound
<1>3. /\ s \in Seq(T) /\ t \in Seq(T) /\ s \o t = tokens /\ Len(t) = Len(tokens) - n
      /\ Width(s) = CellsBefore(tokens)[n]
      /\ there.before = place.before \o s
      /\ there.attr = End(s, attr)
      /\ there.after = t
  BY <1>1, <1>2, PassedLook
<1>4. CellsBefore(tokens) \in [0 .. Len(tokens) -> Nat]
  BY <1>1, CellsCounted
<1>5. \A i \in 1 .. Len(tokens) :
        CellsBefore(tokens)[i] = CellsBefore(tokens)[i - 1] + CellsOf(tokens[i])
  BY <1>1, CellsCounted
<1>6. left \in Int /\ left <= num /\ left = num - Width(s) /\ Width(s) \in Nat
  <2> HIDE DEF n
  <2>1. CellsBefore(tokens)[n] \in Nat
    BY <1>2, <1>4
  <2>2. left = num - CellsBefore(tokens)[n]
    OBVIOUS
  <2>3. Width(s) = CellsBefore(tokens)[n]
    BY <1>3
  <2> HIDE DEF left, s
  <2> QED BY <2>1, <2>2, <2>3
(* Nothing is passed that has more cells than are left. *)
<1>7. left >= 0
  <2> HIDE DEF n
  <2>1. CASE n = 0
    <3>1. CellsBefore(tokens)[0] = 0
      BY <1>1, CellsCounted
    <3> QED BY <2>1, <3>1
  <2>2. CASE n # 0
    <3> DEFINE before == CellsBefore(tokens)[n - 1]
    <3>1. n \in 1 .. n /\ n \in 1 .. Len(tokens) /\ n - 1 \in 0 .. Len(tokens)
      BY <2>2, <1>1, <1>2
    <3>2. /\ ~(num - before <= 0)
          /\ ~(tokens[n].kind = "blanks" /\ ~Within(tokens[n].num, num - before))
      <4>1. n \notin stops /\ n \in DOMAIN tokens
        BY <3>1, <1>1, <1>2
      <4> QED BY <4>1
    <3>3. before \in Nat /\ CellsBefore(tokens)[n] = before + CellsOf(tokens[n])
      BY <3>1, <1>4, <1>5
    <3>4. tokens[n] \in T
      BY <3>1, <1>1
    <3>5. CellsOf(tokens[n]) <= num - before
      <4>1. CASE tokens[n].kind = "attr"
        BY <4>1, <3>2, <3>3, <3>4, TokenKinds
      <4>2. CASE tokens[n].kind = "blanks"
        <5>1. CellsOf(tokens[n]) = tokens[n].num
          BY <4>2, <3>4, TokenKinds
        <5> QED BY <4>2, <5>1, <3>2 DEF Within
      <4>3. CASE tokens[n].kind = "char"
        <5>1. CellsOf(tokens[n]) = 1
          BY <4>3 DEF CellsOf, CharWidth
        <5> QED BY <5>1, <3>2, <3>3
      <4> QED BY <4>1, <4>2, <4>3, <3>4, TokenKinds
    <3>6. CellsOf(tokens[n]) \in Nat
      BY <3>4, TokenKinds
    <3> HIDE DEF before
    <3> QED BY <3>3, <3>5, <3>6
  <2> QED BY <2>1, <2>2
<1>8. skipped =
         CASE left <= 0 -> there
           [] left > 0 /\ n = Len(tokens) ->
                [there EXCEPT !.before = Append(@, Blanks(left % (MaxBlanks + 1)))]
           [] OTHER ->
                Place(Append(there.before, Blanks(left)), there.attr,
                      <<Blanks(tokens[n + 1].num - left)>> \o Tail(there.after))
  BY DEF ContentSkip
<1>9. n + 1 \in stops =>
         /\ n + 1 \in DOMAIN tokens
         /\ \/ left <= 0
            \/ tokens[n + 1].kind = "blanks" /\ ~Within(tokens[n + 1].num, left)
  <2> HIDE DEF n
  <2>1. n \in Int /\ n + 1 - 1 = n
    BY <1>2
  <2>2. ASSUME NEW i \in stops
        PROVE  /\ i \in DOMAIN tokens
               /\ \/ Left(i - 1) <= 0
                  \/ tokens[i].kind = "blanks" /\ ~Within(tokens[i].num, Left(i - 1))
    OBVIOUS
  <2> HIDE DEF stops, Left
  <2> QED BY <2>1, <2>2 DEF left
<1>10. skipped.after \in Seq(T) /\ skipped.attr \in Attributes
  BY ContentSkipType
<1>11. there \in PlacesOf(1)
  BY <1>2, PassedType
<1>12. /\ Width(s) \in Nat /\ End(s, attr) \in Attributes
       /\ End(tokens, attr) = End(t, End(s, attr))
       /\ \A c \in Nat : Look(tokens, attr, c)
                           = IF c < Width(s) THEN Look(s, attr, c)
                             ELSE Look(t, End(s, attr), c - Width(s))
       /\ \A f \in Flags : attr[f] # Unset => End(s, attr)[f] # Unset
  <2>1. End(s, attr) \in Attributes
    BY <1>1, <1>3, EndIn
  <2>2. /\ End(s \o t, attr) = End(t, End(s, attr))
        /\ \A c \in Nat : Look(s \o t, attr, c)
                            = IF c < Width(s) THEN Look(s, attr, c)
                              ELSE Look(t, End(s, attr), c - Width(s))
    BY <1>1, <1>3, Joined
  <2>3. \A f \in Flags : attr[f] # Unset => End(s, attr)[f] # Unset
    BY <1>1, <1>3, FlagsKept
  <2> QED BY <2>1, <2>2, <2>3, <1>3, <1>6
<1>13. SUFFICES /\ \A c \in Nat : Look(skipped.after, skipped.attr, c) = Look(tokens, attr, c + num)
                /\ End(skipped.after, skipped.attr) = End(tokens, attr)
                /\ skipped.attr = End(s, attr)
                /\ num <= MaxBlanks => Skips(place, num, skipped)
  BY <1>10, <1>12 DEF SameFrom
<1>14. MaxBlanks \in Nat \ {0}
  BY BlanksAssumption
<1> HIDE DEF n, stops, there, left, skipped, s, t, T, attr, tokens
<1>15. CASE left <= 0
  <2>1. skipped = there /\ Width(s) = num
    BY <1>15, <1>6, <1>7, <1>8
  <2>2. ASSUME NEW c \in Nat PROVE Look(t, End(s, attr), c) = Look(tokens, attr, c + num)
    <3> DEFINE k == c + num
    <3>1. k \in Nat /\ ~(k < Width(s)) /\ k - Width(s) = c
      BY <2>1
    <3> HIDE DEF k
    <3>2. Look(tokens, attr, k) = Look(t, End(s, attr), c)
      BY <3>1, <1>12
    <3> QED BY <3>2 DEF k
  <2>3. Skips(place, num, skipped)
    <3>1. \A c \in Nat : c < num => Look(s, attr, c) = Look(tokens, attr, c)
      BY <2>1, <1>12
    <3> QED BY <3>1, <2>1, <1>3 DEF Skips, T, attr, tokens
  <2> QED BY <2>1, <2>2, <2>3, <1>3, <1>12
(* When blanks are added to what was passed: *)
<1>16. ASSUME left \in 1 .. MaxBlanks,
              skipped.before = Append(place.before \o s, Blanks(left)),
              skipped.attr = End(s, attr),
              \A c \in Nat : c < left => Look(t, End(s, attr), c) = BlankIn(Effective(End(s, attr)))
       PROVE  Skips(place, num, skipped)
  <2> DEFINE E == End(s, attr)
             run == <<Blanks(left)>>
             filled == s \o run
  <2>1. /\ run \in Seq(T) /\ Width(run) = left /\ End(run, E) = E
        /\ \A c \in Nat : Look(run, E, c) = BlankIn(Effective(E))
    BY <1>16, <1>12, OneRun DEF T
  <2>2. Blanks(left) \in T
    BY <1>16 DEF T, TokensOf
  <2>3. skipped.before = place.before \o filled
    <3> DEFINE e == Blanks(left)
    <3>1. e \in T
      BY <2>2
    <3> HIDE DEF e
    <3> DEFINE a == place.before
    <3>2. a \in Seq(T)
      BY <1>1
    <3>3. s \in Seq(T)
      BY <1>3
    <3> HIDE DEF a
    <3>4. Append(a \o s, e) = a \o (s \o <<e>>)
      BY <3>1, <3>2, <3>3
    <3> QED BY <3>4, <1>16 DEF e, a
  <2> HIDE DEF run, E
  <2>4. s \in Seq(TokensOf(1)) /\ run \in Seq(TokensOf(1)) /\ attr \in Attributes
    BY <1>1, <1>3, <2>1 DEF T
  <2>5. /\ filled \in Seq(TokensOf(1))
        /\ Width(filled) = Width(s) + Width(run)
        /\ End(filled, attr) = End(run, End(s, attr))
        /\ \A c \in Nat : Look(filled, attr, c)
                            = IF c < Width(s) THEN Look(s, attr, c)
                              ELSE Look(run, End(s, attr), c - Width(s))
    BY <2>4, Joined
  <2> HIDE DEF filled
  <2>6. Width(filled) = num
    BY <2>5, <2>1, <1>6
  <2>7. skipped.attr = End(filled, attr)
    BY <2>5, <2>1, <1>16 DEF E
  <2>8. ASSUME NEW c \in Nat, c < num PROVE Look(filled, attr, c) = Look(tokens, attr, c)
    <3>1. CASE c < Width(s)
      BY <3>1, <2>5, <1>12
    <3>2. CASE ~(c < Width(s))
      <4> DEFINE d == c - Width(s)
      <4>1. d \in Nat /\ d < left
        BY <3>2, <2>8, <1>6
      <4> HIDE DEF d
      <4>2. Look(run, E, d) = Look(t, E, d)
        BY <4>1, <2>1, <1>16 DEF E
      <4>3. Look(filled, attr, c) = Look(run, E, d)
        BY <3>2, <2>5 DEF E, d
      <4>4. Look(tokens, attr, c) = Look(t, E, d)
        BY <3>2, <1>12 DEF E, d
      <4> QED BY <4>2, <4>3, <4>4
    <3> QED BY <3>1, <3>2
  <2> QED BY <2>3, <2>5, <2>6, <2>7, <2>8 DEF Skips, T, attr, tokens
<1>17. CASE left > 0 /\ n = Len(tokens)
  <2> DEFINE E == End(s, attr)
  <2>1. skipped = [there EXCEPT !.before = Append(there.before, Blanks(left % (MaxBlanks + 1)))]
    BY <1>17, <1>6, <1>8
  <2>2. /\ skipped.after = t /\ skipped.attr = E
        /\ skipped.before = Append(place.before \o s, Blanks(left % (MaxBlanks + 1)))
    BY <2>1, <1>3, <1>11 DEF PlacesOf
  <2>3. t = <<>>
    BY <1>17, <1>3
  <2>4. \A c \in Nat : Look(t, E, c) = BlankIn(Effective(E))
    BY <2>3, <1>12, Nothing
  <2>5. ASSUME NEW c \in Nat PROVE Look(t, E, c) = Look(tokens, attr, c + num)
    <3> DEFINE k == c + num
    <3>1. k \in Nat /\ ~(k < Width(s)) /\ k - Width(s) = c + left /\ c + left \in Nat
      BY <1>17, <1>6
    <3> HIDE DEF k, E
    <3>2. Look(tokens, attr, k) = Look(t, E, c + left)
      BY <3>1, <1>12 DEF E
    <3> QED BY <3>1, <3>2, <2>4 DEF k
  <2>6. num <= MaxBlanks => Skips(place, num, skipped)
    <3>1. num <= MaxBlanks => left % (MaxBlanks + 1) = left /\ left \in 1 .. MaxBlanks
      BY <1>17, <1>6, <1>14
    <3> QED BY <3>1, <2>2, <2>4, <1>16
  <2> QED BY <2>2, <2>5, <2>6, <1>12
<1>18. CASE left > 0 /\ n # Len(tokens)
  <2> DEFINE E == End(s, attr)
             next == tokens[n + 1]
             k == next.num
             u == Tail(t)
             last == k - left
  <2>1. n + 1 \in DOMAIN tokens /\ next.kind = "blanks" /\ ~Within(next.num, left)
    BY <1>2, <1>9, <1>18, <1>6
  <2>2. next \in T
    BY <2>1, <1>1
  <2>3. k \in 1 .. MaxBlanks /\ next = Blanks(k)
    BY <2>1, <2>2, RunOfBlanks DEF T
  <2>4. left < k
    BY <2>1, <2>3, <1>6 DEF Within
  <2>5. left \in 1 .. MaxBlanks /\ last \in 1 .. MaxBlanks
    <3> HIDE DEF k
    <3> QED BY <2>3, <2>4, <1>6, <1>18, <1>14
  <2>6. t # <<>> /\ t[1] = next
    <3> DEFINE all == Len(tokens)
    <3>1. n \in 0 .. all
      BY <1>2
    <3>2. n # all
      BY <1>18
    <3>3. all \in Nat /\ tokens \in Seq(T) /\ Len(tokens) = all
      BY <1>1
    <3> HIDE DEF all, next
    <3>4. n \in Nat /\ n < all /\ n + 1 \in 1 .. all
      BY <3>1, <3>2, <3>3
    <3>5. t = SubSeq(tokens, n + 1, all)
      BY DEF t, all
    <3>6. t # <<>> /\ t[1] = tokens[n + 1]
      BY <3>3, <3>4, <3>5
    <3> QED BY <3>6 DEF next
  <2>7. u \in Seq(T) /\ t = <<Blanks(k)>> \o u
    BY <2>3, <2>6, <1>3, HeadAndTail
  <2>8. /\ skipped.before = Append(place.before \o s, Blanks(left))
        /\ skipped.attr = E
        /\ skipped.after = <<Blanks(last)>> \o u
    <3>1. skipped = Place(Append(there.before, Blanks(left)), there.attr,
                          <<Blanks(tokens[n + 1].num - left)>> \o Tail(there.after))
      BY <1>18, <1>6, <1>8
    <3> QED BY <3>1, <1>3 DEF Place
  <2>9. E \in Attributes
    BY <1>12
  <2> HIDE DEF E, next, k, u, last
  <2>10. /\ <<Blanks(k)>> \in Seq(TokensOf(1)) /\ Width(<<Blanks(k)>>) = k
         /\ End(<<Blanks(k)>>, E) = E
         /\ \A c \in Nat : Look(<<Blanks(k)>>, E, c) = BlankIn(Effective(E))
    BY <2>3, <2>9, OneRun
  <2>11. /\ <<Blanks(last)>> \in Seq(TokensOf(1)) /\ Width(<<Blanks(last)>>) = last
         /\ End(<<Blanks(last)>>, E) = E
         /\ \A c \in Nat : Look(<<Blanks(last)>>, E, c) = BlankIn(Effective(E))
    BY <2>5, <2>9, OneRun
  <2>12. u \in Seq(TokensOf(1))
    BY <2>7 DEF T
  <2>13. /\ End(t, E) = End(u, E)
         /\ \A c \in Nat : Look(t, E, c) = IF c < k THEN BlankIn(Effective(E))
                                           ELSE Look(u, E, c - k)
    <3>1. /\ End(<<Blanks(k)>> \o u, E) = End(u, End(<<Blanks(k)>>, E))
          /\ \A c \in Nat : Look(<<Blanks(k)>> \o u, E, c)
                              = IF c < Width(<<Blanks(k)>>) THEN Look(<<Blanks(k)>>, E, c)
                                ELSE Look(u, End(<<Blanks(k)>>, E), c - Width(<<Blanks(k)>>))
      BY <2>9, <2>10, <2>12, Joined
    <3> QED BY <3>1, <2>7, <2>10
  <2>14. /\ End(skipped.after, E) = End(u, E)
         /\ \A c \in Nat : Look(skipped.after, E, c) = IF c < last THEN BlankIn(Effective(E))
                                                       ELSE Look(u, E, c - last)
    <3>1. /\ End(<<Blanks(last)>> \o u, E) = End(u, End(<<Blanks(last)>>, E))
          /\ \A c \in Nat : Look(<<Blanks(last)>> \o u, E, c)
                              = IF c < Width(<<Blanks(last)>>) THEN Look(<<Blanks(last)>>, E, c)
                                ELSE Look(u, End(<<Blanks(last)>>, E), c - Width(<<Blanks(last)>>))
      BY <2>9, <2>11, <2>12, Joined
    <3> QED BY <3>1, <2>8, <2>11
  <2>15. ASSUME NEW c \in Nat PROVE Look(skipped.after, E, c) = Look(tokens, attr, c + num)
    <3> DEFINE m == c + num
               d == c + left
    <3>1. m \in Nat /\ ~(m < Width(s)) /\ m - Width(s) = d /\ d \in Nat
      BY <1>18, <1>6
    <3>2. last = k - left /\ k \in Nat /\ left \in Nat /\ last \in Nat
      BY <2>3, <2>5 DEF last
    <3>3. (d < k <=> c < last) /\ d - k = c - last
      BY <3>2
    <3> HIDE DEF m, d
    <3>4. Look(tokens, attr, m) = Look(t, E, d)
      BY <3>1, <1>12 DEF E
    <3> QED BY <3>1, <3>3, <3>4, <2>13, <2>14 DEF m
  <2>16. Skips(place, num, skipped)
    <3>1. ASSUME NEW c \in Nat, c < left PROVE Look(t, E, c) = BlankIn(Effective(E))
      <4>1. c < k
        BY <3>1, <2>3, <2>4, <2>5
      <4> QED BY <4>1, <2>13
    <3> QED BY <3>1, <2>5, <2>8, <1>16 DEF E
  <2>17. End(skipped.after, skipped.attr) = End(tokens, attr)
    BY <2>8, <2>13, <2>14, <1>12 DEF E
  <2> QED BY <2>8, <2>15, <2>16, <2>17 DEF E
<1> QED BY <1>15, <1>17, <1>18, <1>6

LEMMA SameFromTwice ==
  ASSUME NEW p, NEW q, NEW r, NEW n \in Nat, NEW m \in Nat,
         SameFrom(p, n, q), SameFrom(q, m, r)
  PROVE  SameFrom(p, n + m, r)
<1>1. /\ r.after \in Seq(TokensOf(1)) /\ r.attr \in Attributes
      /\ End(r.after, r.attr) = End(p.after, p.attr)
      /\ \A f \in Flags : p.attr[f] # Unset => r.attr[f] # Unset
  BY DEF SameFrom
<1>2. ASSUME NEW c \in Nat
      PROVE  Look(r.after, r.attr, c) = Look(p.after, p.attr, c + (n + m))
  <2> DEFINE d == c + m
  <2>1. d \in Nat /\ d + n = c + (n + m)
    OBVIOUS
  <2>2. Look(r.after, r.attr, c) = Look(q.after, q.attr, d)
    BY DEF SameFrom
  <2> HIDE DEF d
  <2>3. Look(q.after, q.attr, d) = Look(p.after, p.attr, d + n)
    BY <2>1 DEF SameFrom
  <2> QED BY <2>1, <2>2, <2>3
<1> QED BY <1>1, <1>2 DEF SameFrom

(* Behind `num' cells and the attributes that are there, too, is what was  *)
(* there.                                                                  *)
LEMMA EndLook ==
  ASSUME Wide = {}, NEW place \in PlacesOf(1), NEW num \in Nat
  PROVE  SameFrom(place, num, PassAttributes(ContentSkip(num, place)))
<1> DEFINE there == ContentSkip(num, place)
           later == PassAttributes(there)
<1>1. SameFrom(place, num, there)
  BY ContentSkipLook
<1>2. there.after \in Seq(TokensOf(1)) /\ there.attr \in Attributes
  BY <1>1 DEF SameFrom
<1> HIDE DEF there
<1>3. SameFrom(there, 0, later)
  BY <1>2, PassAttributesLook
<1> HIDE DEF later
<1>4. SameFrom(place, num + 0, later)
  BY <1>1, <1>3, SameFromTwice
<1>5. num + 0 = num
  OBVIOUS
<1> QED BY <1>4, <1>5 DEF there, later

(* A line from its beginning *)
Whole(line) == Place(<<>>, NoAttributes, line.content)

LineLook(line, c) == Look(line.content, NoAttributes, c)

RestOf(line) == Effective(End(line.content, NoAttributes))

LEMMA WholeIn ==
  ASSUME NEW line \in LinesOf(1)
  PROVE  /\ Whole(line) \in PlacesOf(1)
         /\ Whole(line).before = <<>> /\ Whole(line).attr = NoAttributes
         /\ Whole(line).after = line.content
BY NoAttributesType DEF LinesOf, Whole, Place, PlacesOf

LEMMA FindLook ==
  ASSUME Wide = {}, NEW line \in LinesOf(1), NEW pos \in Nat, pos <= MaxBlanks
  PROVE  LET start == Find(line, pos)
         IN /\ start \in PlacesOf(1)
            /\ SameFrom(Whole(line), pos, start)
            /\ Width(start.before) = pos
            /\ End(start.before, NoAttributes) = start.attr
            /\ \A c \in Nat : c < pos => Look(start.before, NoAttributes, c) = LineLook(line, c)
<1> DEFINE start == Find(line, pos)
           whole == Whole(line)
<1>1. /\ whole \in PlacesOf(1)
      /\ whole.before = <<>> /\ whole.attr = NoAttributes /\ whole.after = line.content
  BY WholeIn
<1>2. start = ContentSkip(pos, whole)
  BY DEF Find, Whole
<1>3. start \in PlacesOf(1)
  BY FindType
<1> HIDE DEF whole, start
<1>4. SameFrom(whole, pos, start) /\ Skips(whole, pos, start)
  BY <1>1, <1>2, ContentSkipLook
<1>5. PICK s \in Seq(TokensOf(1)) :
        /\ start.before = whole.before \o s
        /\ Width(s) = pos
        /\ start.attr = End(s, whole.attr)
        /\ \A c \in Nat : c < pos => Look(s, whole.attr, c) = Look(whole.after, whole.attr, c)
  BY <1>4 DEF Skips
<1>6. start.before = s
  BY <1>1, <1>5
<1> QED BY <1>1, <1>3, <1>4, <1>5, <1>6 DEF LineLook, whole, start

(* `new' shows `line' with the cells of `tokens' at `pos' instead of `num' *)
(* cells.                                                                  *)
ShowsAt(new, line, pos, num, tokens, attr) ==
  /\ RestOf(new) = RestOf(line)
  /\ new.blank = line.blank /\ new.page = line.page
  /\ \A c \in Nat : c < pos => LineLook(new, c) = LineLook(line, c)
  /\ \A c \in Nat : c >= pos /\ c < pos + Width(tokens) =>
        LineLook(new, c) = Look(tokens, attr, c - pos)
  /\ \A c \in Nat : c >= pos + Width(tokens) =>
        LineLook(new, c) = LineLook(line, c - Width(tokens) + num)

(* What a splice shows: the cells before, those of the tokens, those that  *)
(* were behind.                                                            *)
LEMMA SplicedLook ==
  ASSUME Wide = {}, NEW line \in LinesOf(1), NEW pos \in Nat, pos <= MaxBlanks,
         NEW num \in Nat, NEW end, SameFrom(Whole(line), pos + num, end),
         NEW tokens \in Seq(TokensOf(1)),
         Effective(End(tokens, Find(line, pos).attr)) = Effective(end.attr)
  PROVE  LET start == Find(line, pos)
         IN ShowsAt(Spliced(line, start, tokens, end), line, pos, num, tokens, start.attr)
<1> DEFINE start == Find(line, pos)
           new == Spliced(line, start, tokens, end)
           a == start.before
           b == end.after
           w == Width(tokens)
           last == pos + w
           content == a \o tokens \o b
           E == End(tokens, start.attr)
<1>1. /\ start \in PlacesOf(1)
      /\ Width(a) = pos
      /\ End(a, NoAttributes) = start.attr
      /\ \A c \in Nat : c < pos => Look(a, NoAttributes, c) = LineLook(line, c)
  BY FindLook
<1>2. a \in Seq(TokensOf(1)) /\ start.attr \in Attributes
  BY <1>1 DEF PlacesOf
<1>3. b \in Seq(TokensOf(1)) /\ end.attr \in Attributes
  BY DEF SameFrom
<1>4. w \in Nat /\ E \in Attributes /\ NoAttributes \in Attributes
  BY <1>2, WidthType, EndIn, NoAttributesType
<1>5. new.content = content /\ new.blank = line.blank /\ new.page = line.page
  BY DEF Spliced, LinesOf
<1>6. /\ RestOf(line) = Effective(End(b, end.attr))
      /\ \A c \in Nat : Look(b, end.attr, c) = LineLook(line, c + (pos + num))
  <2>1. Whole(line).after = line.content /\ Whole(line).attr = NoAttributes
    BY WholeIn
  <2> QED BY <2>1 DEF SameFrom, RestOf, LineLook
<1>7. Effective(E) = Effective(end.attr)
  OBVIOUS
<1> HIDE DEF start, new, a, b, w, E
<1>8. /\ a \o tokens \in Seq(TokensOf(1))
      /\ Width(a \o tokens) = last
      /\ End(a \o tokens, NoAttributes) = E
      /\ \A c \in Nat : Look(a \o tokens, NoAttributes, c)
                          = IF c < pos THEN Look(a, NoAttributes, c)
                            ELSE Look(tokens, start.attr, c - pos)
  <2>1. /\ a \o tokens \in Seq(TokensOf(1))
        /\ Width(a \o tokens) = Width(a) + Width(tokens)
        /\ End(a \o tokens, NoAttributes) = End(tokens, End(a, NoAttributes))
        /\ \A c \in Nat : Look(a \o tokens, NoAttributes, c)
                            = IF c < Width(a) THEN Look(a, NoAttributes, c)
                              ELSE Look(tokens, End(a, NoAttributes), c - Width(a))
    BY <1>2, <1>4, Joined
  <2> QED BY <2>1, <1>1 DEF w, E
<1> DEFINE front == a \o tokens
<1>9. content = front \o b
  OBVIOUS
<1> HIDE DEF content, front
<1>10. /\ End(content, NoAttributes) = End(b, E)
       /\ \A c \in Nat : Look(content, NoAttributes, c)
                           = IF c < last THEN Look(front, NoAttributes, c)
                             ELSE Look(b, E, c - last)
  <2>1. front \in Seq(TokensOf(1)) /\ Width(front) = last /\ End(front, NoAttributes) = E
    BY <1>8 DEF front
  <2>2. /\ End(front \o b, NoAttributes) = End(b, End(front, NoAttributes))
        /\ \A c \in Nat : Look(front \o b, NoAttributes, c)
                            = IF c < Width(front) THEN Look(front, NoAttributes, c)
                              ELSE Look(b, End(front, NoAttributes), c - Width(front))
    BY <2>1, <1>3, <1>4, Joined
  <2> QED BY <2>1, <2>2, <1>9
<1>11. /\ Effective(End(b, E)) = Effective(End(b, end.attr))
       /\ \A c \in Nat : Look(b, E, c) = Look(b, end.attr, c)
  BY <1>3, <1>4, <1>7, SameEffect
<1>12. RestOf(new) = RestOf(line)
  BY <1>5, <1>6, <1>10, <1>11 DEF RestOf
<1>13. ASSUME NEW c \in Nat PROVE LineLook(new, c) = Look(content, NoAttributes, c)
  BY <1>5 DEF LineLook
<1>14. ASSUME NEW c \in Nat, c < pos PROVE LineLook(new, c) = LineLook(line, c)
  <2>1. c < last
    BY <1>14, <1>4
  <2>2. LineLook(new, c) = Look(front, NoAttributes, c)
    BY <2>1, <1>10, <1>13
  <2>3. Look(front, NoAttributes, c) = Look(a, NoAttributes, c)
    BY <1>14, <1>8 DEF front
  <2> QED BY <2>2, <2>3, <1>14, <1>1
<1>15. ASSUME NEW c \in Nat, c >= pos, c < last
       PROVE  LineLook(new, c) = Look(tokens, start.attr, c - pos)
  <2>1. LineLook(new, c) = Look(front, NoAttributes, c)
    BY <1>15, <1>10, <1>13
  <2>2. ~(c < pos)
    BY <1>15
  <2>3. Look(front, NoAttributes, c) = Look(tokens, start.attr, c - pos)
    BY <2>2, <1>8 DEF front
  <2> QED BY <2>1, <2>3
<1>16. ASSUME NEW c \in Nat, c >= last
       PROVE  LineLook(new, c) = LineLook(line, c - w + num)
  <2> DEFINE d == c - last
  <2>1. last \in Nat /\ ~(c < last)
    BY <1>16, <1>4
  <2>2. d \in Nat /\ d + (pos + num) = c - w + num
    BY <2>1, <1>4
  <2>3. LineLook(new, c) = Look(b, E, d)
    BY <2>1, <1>10, <1>13
  <2> HIDE DEF d
  <2>4. Look(b, E, d) = Look(b, end.attr, d)
    BY <2>2, <1>11
  <2>5. Look(b, end.attr, d) = LineLook(line, d + (pos + num))
    BY <2>2, <1>6
  <2> QED BY <2>2, <2>3, <2>4, <2>5
<1> QED BY <1>5, <1>12, <1>14, <1>15, <1>16 DEF start, new, w, ShowsAt

(* A body of cells between two changes of the attributes: it is shown in   *)
(* its own, and what follows is shown as before.                           *)
Body(body, attr, start, end) ==
  LET change == PrecededBy(attr, start)
  IN Encoded(change) \o body \o Encoded(PrecededBy(end, change))

LEMMA BodyLook ==
  ASSUME NEW attr \in Attributes, NEW start \in Attributes, NEW end \in Attributes,
         \A f \in Flags : start[f] # Unset => end[f] # Unset,
         NEW body \in Seq(TokensOf(1)), \A read \in Attributes : End(body, read) = read
  PROVE  /\ Body(body, attr, start, end) \in Seq(TokensOf(1))
         /\ Width(Body(body, attr, start, end)) = Width(body)
         /\ Effective(End(Body(body, attr, start, end), start)) = Effective(end)
         /\ \A c \in Nat : c < Width(body) =>
               Look(Body(body, attr, start, end), start, c) = Look(body, attr, c)
<1> DEFINE change == PrecededBy(attr, start)
           restore == PrecededBy(end, change)
           first == Encoded(change)
           last == Encoded(restore)
           before == Decoded(start, change)
           front == first \o body
           all == front \o last
<1>1. change \in Attributes /\ restore \in Attributes /\ before \in Attributes
  BY PrecededByType, DecodedType
<1>2. Effective(before) = Effective(attr)
  BY ChangeTakesEffect
<1>3. Effective(Decoded(before, restore)) = Effective(end)
  BY RestoresWhatFollows
<1>4. Body(body, attr, start, end) = all
  BY DEF Body
<1> HIDE DEF change, restore, before
<1>5. first \in Seq(TokensOf(1)) /\ Width(first) = 0 /\ End(first, start) = before
  BY <1>1, EncodedRead DEF before
<1>6. last \in Seq(TokensOf(1)) /\ Width(last) = 0 /\ End(last, before) = Decoded(before, restore)
  BY <1>1, EncodedRead
<1> HIDE DEF first, last
<1>7. Width(body) \in Nat
  BY WidthType
<1>8. /\ front \in Seq(TokensOf(1))
      /\ Width(front) = Width(first) + Width(body)
      /\ End(front, start) = End(body, End(first, start))
      /\ \A c \in Nat : Look(front, start, c)
                          = IF c < Width(first) THEN Look(first, start, c)
                            ELSE Look(body, End(first, start), c - Width(first))
  BY <1>5, Joined
<1> HIDE DEF front
<1>9. Width(front) = Width(body) /\ End(front, start) = before
  BY <1>1, <1>5, <1>7, <1>8
<1>10. /\ all \in Seq(TokensOf(1))
       /\ Width(all) = Width(front) + Width(last)
       /\ End(all, start) = End(last, End(front, start))
       /\ \A c \in Nat : Look(all, start, c)
                           = IF c < Width(front) THEN Look(front, start, c)
                             ELSE Look(last, End(front, start), c - Width(front))
  BY <1>6, <1>8, Joined
<1> HIDE DEF all
<1>11. Width(all) = Width(body)
  BY <1>6, <1>7, <1>9, <1>10
<1>12. Effective(End(all, start)) = Effective(end)
  BY <1>3, <1>6, <1>9, <1>10
<1>13. ASSUME NEW c \in Nat, c < Width(body)
       PROVE  Look(all, start, c) = Look(body, attr, c)
  <2>1. Look(all, start, c) = Look(front, start, c)
    BY <1>13, <1>9, <1>10
  <2>2. ~(c < Width(first)) /\ c - Width(first) = c
    BY <1>5
  <2>3. Look(front, start, c) = Look(body, before, c)
    BY <2>2, <1>5, <1>8
  <2>4. Look(body, before, c) = Look(body, attr, c)
    BY <1>1, <1>2, SameEffect
  <2> QED BY <2>1, <2>3, <2>4
<1> QED BY <1>4, <1>10, <1>11, <1>12, <1>13

(* Where something was put at `pos' for `num' cells, and how it is shown.  *)
LEMMA PutLook ==
  ASSUME Wide = {}, NEW line \in LinesOf(1), NEW pos \in Nat, pos <= MaxBlanks,
         NEW num \in Nat, NEW end, SameFrom(Find(line, pos), num, end),
         NEW attr \in Attributes, NEW body \in Seq(TokensOf(1)),
         \A read \in Attributes : End(body, read) = read
  PROVE  LET start == Find(line, pos)
             new == Spliced(line, start, Body(body, attr, start.attr, end.attr), end)
         IN /\ RestOf(new) = RestOf(line)
            /\ new.blank = line.blank /\ new.page = line.page
            /\ \A c \in Nat : c < pos => LineLook(new, c) = LineLook(line, c)
            /\ \A c \in Nat : c >= pos /\ c < pos + Width(body) =>
                  LineLook(new, c) = Look(body, attr, c - pos)
            /\ \A c \in Nat : c >= pos + Width(body) =>
                  LineLook(new, c) = LineLook(line, c - Width(body) + num)
<1> DEFINE start == Find(line, pos)
           tokens == Body(body, attr, start.attr, end.attr)
           new == Spliced(line, start, tokens, end)
           last == pos + Width(tokens)
<1>1. start \in PlacesOf(1) /\ SameFrom(Whole(line), pos, start)
  BY FindLook
<1>2. start.attr \in Attributes
  BY <1>1 DEF PlacesOf
<1>3. /\ end.attr \in Attributes
      /\ \A f \in Flags : start.attr[f] # Unset => end.attr[f] # Unset
  BY DEF SameFrom
<1>4. SameFrom(Whole(line), pos + num, end)
  <2>1. SameFrom(start, num, end)
    OBVIOUS
  <2> HIDE DEF start
  <2> QED BY <1>1, <2>1, SameFromTwice
<1>5. /\ tokens \in Seq(TokensOf(1))
      /\ Width(tokens) = Width(body)
      /\ Effective(End(tokens, start.attr)) = Effective(end.attr)
      /\ \A c \in Nat : c < Width(body) => Look(tokens, start.attr, c) = Look(body, attr, c)
  <2> HIDE DEF start
  <2> DEFINE begin == start.attr
             stop == end.attr
  <2>1. begin \in Attributes /\ stop \in Attributes
    BY <1>2, <1>3
  <2>2. \A f \in Flags : begin[f] # Unset => stop[f] # Unset
    BY <1>3
  <2> HIDE DEF begin, stop
  <2>3. /\ Body(body, attr, begin, stop) \in Seq(TokensOf(1))
        /\ Width(Body(body, attr, begin, stop)) = Width(body)
        /\ Effective(End(Body(body, attr, begin, stop), begin)) = Effective(stop)
        /\ \A c \in Nat : c < Width(body) =>
              Look(Body(body, attr, begin, stop), begin, c) = Look(body, attr, c)
    BY <2>1, <2>2, BodyLook
  <2> QED BY <2>3 DEF begin, stop
<1> HIDE DEF tokens
<1>6. /\ RestOf(new) = RestOf(line)
      /\ new.blank = line.blank /\ new.page = line.page
      /\ \A c \in Nat : c < pos => LineLook(new, c) = LineLook(line, c)
      /\ \A c \in Nat : c >= pos /\ c < last =>
            LineLook(new, c) = Look(tokens, start.attr, c - pos)
      /\ \A c \in Nat : c >= last =>
            LineLook(new, c) = LineLook(line, c - Width(tokens) + num)
  <2>1. Effective(End(tokens, Find(line, pos).attr)) = Effective(end.attr)
    BY <1>5
  <2>2. ShowsAt(Spliced(line, Find(line, pos), tokens, end), line, pos, num, tokens,
                Find(line, pos).attr)
    BY <1>4, <1>5, <2>1, SplicedLook
  <2> QED BY <2>2 DEF ShowsAt
<1> HIDE DEF start, new
<1>7. ASSUME NEW c \in Nat, c >= pos, c < pos + Width(body)
      PROVE  LineLook(new, c) = Look(body, attr, c - pos)
  <2> DEFINE d == c - pos
  <2>1. d \in Nat /\ d < Width(body)
    BY <1>7, WidthType
  <2>2. LineLook(new, c) = Look(tokens, start.attr, d)
    BY <1>5, <1>6, <1>7
  <2> HIDE DEF d
  <2>3. LineLook(new, c) = Look(body, attr, d)
    BY <2>1, <2>2, <1>5
  <2> QED BY <2>3 DEF d
<1>8. ASSUME NEW c \in Nat, c >= pos + Width(body)
      PROVE  LineLook(new, c) = LineLook(line, c - Width(body) + num)
  BY <1>5, <1>6, <1>8
<1> QED BY <1>6, <1>7, <1>8 DEF start, tokens, new

(* The rest of a line that is not blanked is shown in the default          *)
(* attributes; the attributes at its end have the same effect.             *)
Settled(line) == line.blank \/ RestOf(line) = PlainEffect

Beneath(insert, num, c) == IF insert THEN c - num ELSE c

(* add_text() *)
LEMMA TextLook ==
  ASSUME Wide = {}, NEW line \in LinesOf(1), NEW pos \in Nat, pos <= MaxBlanks,
         NEW text \in Seq(Characters), NEW attr \in Attributes, NEW insert \in BOOLEAN
  PROVE  LET new == LineAddText(line, pos, text, attr, insert)
         IN /\ RestOf(new) = RestOf(line)
            /\ new.blank = line.blank /\ new.page = line.page
            /\ \A c \in Nat : c < pos => LineLook(new, c) = LineLook(line, c)
            /\ \A c \in Nat : c >= pos /\ c < pos + Len(text) =>
                  LineLook(new, c) = [char |-> text[c - pos + 1], attr |-> Effective(attr)]
            /\ \A c \in Nat : c >= pos + Len(text) =>
                  LineLook(new, c) = LineLook(line, Beneath(insert, Len(text), c))
<1> DEFINE start == Find(line, pos)
           here == PassAttributes(start)
           skip == PassAttributes(ContentSkip(TextWidth(text), here))
           end == IF insert THEN here ELSE skip
           num == IF insert THEN 0 ELSE Len(text)
           body == Chars(text)
           new == LineAddText(line, pos, text, attr, insert)
<1>1. start \in PlacesOf(1)
  BY FindLook
<1>2. /\ body \in Seq(TokensOf(1)) /\ Width(body) = Len(text)
      /\ \A read \in Attributes : End(body, read) = read
  BY CharsLook
<1>3. \A c \in Nat : c < Len(text) =>
         Look(body, attr, c) = [char |-> text[c + 1], attr |-> Effective(attr)]
  BY CharsLook
<1>4. TextWidth(text) = Len(text)
  <2>1. Len(Chars(text)) = Len(text)
    BY CharsType
  <2> QED BY <1>2, <2>1 DEF TextWidth, Width
<1>5. new = Spliced(line, start, Body(body, attr, start.attr, end.attr), end)
  BY DEF LineAddText, Body
<1>6. here \in PlacesOf(1) /\ SameFrom(start, 0, here)
  <2>1. start.after \in Seq(TokensOf(1)) /\ start.attr \in Attributes
    BY <1>1 DEF PlacesOf
  <2> HIDE DEF start
  <2> QED BY <1>1, <2>1, PassAttributesLook, PassAttributesType
<1>7. num \in Nat /\ SameFrom(start, num, end)
  <2>1. CASE insert
    BY <2>1, <1>6
  <2>2. CASE ~insert
    <3> DEFINE n == Len(text)
    <3>1. n \in Nat
      OBVIOUS
    <3>2. skip = PassAttributes(ContentSkip(n, here))
      BY <1>4
    <3> HIDE DEF n, here
    <3>3. SameFrom(here, n, PassAttributes(ContentSkip(n, here)))
      BY <1>6, <3>1, EndLook
    <3> HIDE DEF start, skip
    <3>4. SameFrom(here, n, skip)
      BY <3>2, <3>3
    <3>5. SameFrom(start, 0 + n, skip)
      BY <1>6, <3>1, <3>4, SameFromTwice
    <3>6. 0 + n = num /\ end = skip
      BY <2>2, <3>1 DEF n
    <3> QED BY <3>1, <3>5, <3>6
  <2> QED BY <2>1, <2>2
<1> HIDE DEF end, num, body, new
<1>8. /\ RestOf(new) = RestOf(line)
      /\ new.blank = line.blank /\ new.page = line.page
      /\ \A c \in Nat : c < pos => LineLook(new, c) = LineLook(line, c)
      /\ \A c \in Nat : c >= pos /\ c < pos + Width(body) =>
            LineLook(new, c) = Look(body, attr, c - pos)
      /\ \A c \in Nat : c >= pos + Width(body) =>
            LineLook(new, c) = LineLook(line, c - Width(body) + num)
  <2> DEFINE put == Spliced(line, Find(line, pos),
                            Body(body, attr, Find(line, pos).attr, end.attr), end)
  <2>1. SameFrom(Find(line, pos), num, end)
    BY <1>7
  <2>2. /\ RestOf(put) = RestOf(line)
        /\ put.blank = line.blank /\ put.page = line.page
        /\ \A c \in Nat : c < pos => LineLook(put, c) = LineLook(line, c)
        /\ \A c \in Nat : c >= pos /\ c < pos + Width(body) =>
              LineLook(put, c) = Look(body, attr, c - pos)
        /\ \A c \in Nat : c >= pos + Width(body) =>
              LineLook(put, c) = LineLook(line, c - Width(body) + num)
    <3>1. body \in Seq(TokensOf(1))
      BY <1>2
    <3>2. \A read \in Attributes : End(body, read) = read
      BY <1>2
    <3>3. num \in Nat
      BY <1>7
    <3> QED BY <2>1, <3>1, <3>2, <3>3, PutLook
  <2>3. new = put
    BY <1>5
  <2> HIDE DEF put
  <2> QED BY <2>2, <2>3
<1>9. ASSUME NEW c \in Nat, c >= pos, c < pos + Len(text)
      PROVE  LineLook(new, c) = [char |-> text[c - pos + 1], attr |-> Effective(attr)]
  <2> DEFINE d == c - pos
  <2>1. d \in Nat /\ d < Len(text)
    BY <1>9
  <2>2. LineLook(new, c) = Look(body, attr, d)
    BY <1>2, <1>8, <1>9
  <2> HIDE DEF d
  <2> QED BY <2>1, <2>2, <1>3 DEF d
<1>10. ASSUME NEW c \in Nat, c >= pos + Len(text)
       PROVE  LineLook(new, c) = LineLook(line, Beneath(insert, Len(text), c))
  <2> DEFINE n == Len(text)
  <2>1. n \in Nat
    OBVIOUS
  <2>2. num = IF insert THEN 0 ELSE n
    BY DEF num
  <2> HIDE DEF n
  <2>3. c - n + num = IF insert THEN c - n ELSE c
    BY <2>1, <2>2
  <2>4. LineLook(new, c) = LineLook(line, c - n + num)
    BY <1>2, <1>8, <1>10 DEF n
  <2> QED BY <2>3, <2>4 DEF Beneath, n
<1> QED BY <1>8, <1>9, <1>10 DEF new

(* delete_text() *)
LEMMA DeleteLook ==
  ASSUME Wide = {}, NEW line \in LinesOf(1), NEW first \in Nat, first <= MaxBlanks,
         NEW num \in Nat
  PROVE  LET new == LineDeleteText(line, first, num)
         IN /\ RestOf(new) = RestOf(line)
            /\ new.blank = line.blank /\ new.page = line.page
            /\ \A c \in Nat : c < first => LineLook(new, c) = LineLook(line, c)
            /\ \A c \in Nat : c >= first => LineLook(new, c) = LineLook(line, c + num)
<1> DEFINE start == Find(line, first)
           end == PassAttributes(ContentSkip(num, start))
           restore == PrecededBy(end.attr, start.attr)
           tokens == Encoded(restore)
           put == Spliced(line, start, tokens, end)
           new == LineDeleteText(line, first, num)
<1>1. CASE num = 0
  <2>1. new = line
    BY <1>1 DEF LineDeleteText
  <2>2. \A c \in Nat : c + num = c
    BY <1>1
  <2> QED BY <2>1, <2>2
<1>2. CASE num # 0
  <2>1. start \in PlacesOf(1) /\ SameFrom(Whole(line), first, start)
    BY FindLook
  <2>2. start.attr \in Attributes
    BY <2>1 DEF PlacesOf
  <2>3. SameFrom(start, num, end)
    <3> HIDE DEF start
    <3> QED BY <2>1, EndLook
  <2>4. end.attr \in Attributes
    BY <2>3 DEF SameFrom
  <2>5. restore \in Attributes
    <3> HIDE DEF start, end
    <3> QED BY <2>2, <2>4, PrecededByType
  <2>6. new = put
    BY <1>2 DEF LineDeleteText
  <2>7. Effective(Decoded(start.attr, restore)) = Effective(end.attr)
    <3> HIDE DEF start, end
    <3> QED BY <2>2, <2>4, ChangeTakesEffect
  <2> HIDE DEF restore, end
  <2>8. SameFrom(Whole(line), first + num, end)
    <3> HIDE DEF start
    <3> QED BY <2>1, <2>3, SameFromTwice
  <2>9. /\ tokens \in Seq(TokensOf(1)) /\ Width(tokens) = 0
        /\ Effective(End(tokens, start.attr)) = Effective(end.attr)
    <3> HIDE DEF start
    <3>1. /\ Encoded(restore) \in Seq(TokensOf(1)) /\ Width(Encoded(restore)) = 0
          /\ End(Encoded(restore), start.attr) = Decoded(start.attr, restore)
      BY <2>2, <2>5, EncodedRead
    <3> QED BY <3>1, <2>7
  <2> HIDE DEF tokens
  <2>10. /\ RestOf(put) = RestOf(line)
         /\ put.blank = line.blank /\ put.page = line.page
         /\ \A c \in Nat : c < first => LineLook(put, c) = LineLook(line, c)
         /\ \A c \in Nat : c >= first + Width(tokens) =>
               LineLook(put, c) = LineLook(line, c - Width(tokens) + num)
    <3>1. tokens \in Seq(TokensOf(1))
      BY <2>9
    <3>2. Effective(End(tokens, Find(line, first).attr)) = Effective(end.attr)
      BY <2>9
    <3>3. ShowsAt(Spliced(line, Find(line, first), tokens, end), line, first, num, tokens,
                  Find(line, first).attr)
      BY <2>8, <3>1, <3>2, SplicedLook
    <3> QED BY <3>3 DEF ShowsAt
  <2> HIDE DEF put, new
  <2>11. ASSUME NEW c \in Nat, c >= first PROVE LineLook(put, c) = LineLook(line, c + num)
    <3>1. c >= first + Width(tokens) /\ c - Width(tokens) + num = c + num
      BY <2>9, <2>11
    <3> QED BY <3>1, <2>10
  <2> QED BY <2>6, <2>10, <2>11 DEF new
<1> QED BY <1>1, <1>2

(* erase_text() of some cells *)
LEMMA EraseLook ==
  ASSUME Wide = {}, NEW line \in LinesOf(1), NEW first \in Nat, first <= MaxBlanks,
         NEW num \in Nat, NEW attr \in Attributes
  PROVE  LET new == LineEraseCells(line, first, num, attr)
         IN /\ RestOf(new) = RestOf(line)
            /\ new.blank = line.blank /\ new.page = line.page
            /\ \A c \in Nat : c < first => LineLook(new, c) = LineLook(line, c)
            /\ \A c \in Nat : c >= first /\ c < first + num =>
                  LineLook(new, c) = BlankIn(Effective(attr))
            /\ \A c \in Nat : c >= first + num => LineLook(new, c) = LineLook(line, c)
<1> DEFINE start == Find(line, first)
           end == PassAttributes(ContentSkip(num, start))
           body == BlanksFor(num)
           new == LineEraseCells(line, first, num, attr)
           put == Spliced(line, start, Body(body, attr, start.attr, end.attr), end)
<1>1. start \in PlacesOf(1)
  BY FindLook
<1>2. SameFrom(start, num, end)
  <2> HIDE DEF start
  <2> QED BY <1>1, EndLook
<1>3. body \in Seq(TokensOf(1)) /\ Width(body) = num
  BY NoAttributesType, BlanksForLook
<1>4. \A read \in Attributes : End(body, read) = read
  BY BlanksForLook
<1>5. \A c \in Nat : Look(body, attr, c) = BlankIn(Effective(attr))
  BY BlanksForLook
<1>6. new = put
  BY DEF LineEraseCells, Body
<1> HIDE DEF end, body, new
<1>7. /\ RestOf(put) = RestOf(line)
      /\ put.blank = line.blank /\ put.page = line.page
      /\ \A c \in Nat : c < first => LineLook(put, c) = LineLook(line, c)
      /\ \A c \in Nat : c >= first /\ c < first + Width(body) =>
            LineLook(put, c) = Look(body, attr, c - first)
      /\ \A c \in Nat : c >= first + Width(body) =>
            LineLook(put, c) = LineLook(line, c - Width(body) + num)
  <2>1. body \in Seq(TokensOf(1))
    BY <1>3
  <2> QED BY <1>2, <2>1, <1>4, PutLook
<1> HIDE DEF put
<1>8. ASSUME NEW c \in Nat, c >= first, c < first + num
      PROVE  LineLook(put, c) = BlankIn(Effective(attr))
  <2>1. c - first \in Nat
    BY <1>8
  <2>2. LineLook(put, c) = Look(body, attr, c - first)
    BY <1>3, <1>7, <1>8
  <2> QED BY <2>1, <2>2, <1>5
<1>9. ASSUME NEW c \in Nat, c >= first + num
      PROVE  LineLook(put, c) = LineLook(line, c)
  <2>1. c - num + num = c
    OBVIOUS
  <2>2. LineLook(put, c) = LineLook(line, c - num + num)
    BY <1>3, <1>7, <1>9
  <2> QED BY <2>1, <2>2
<1> QED BY <1>6, <1>7, <1>8, <1>9 DEF new

(* erase_text() of the rest *)
LEMMA EraseRestLook ==
  ASSUME Wide = {}, NEW line \in LinesOf(1), NEW first \in Nat, first <= MaxBlanks,
         NEW attr \in Attributes
  PROVE  LET new == LineEraseRest(line, first, attr)
         IN /\ RestOf(new) = Effective(attr)
            /\ new.blank = TRUE /\ new.page = line.page
            /\ \A c \in Nat : c < first => LineLook(new, c) = LineLook(line, c)
            /\ \A c \in Nat : c >= first => LineLook(new, c) = BlankIn(Effective(attr))
<1> DEFINE start == Find(line, first)
           change == PrecededBy(attr, start.attr)
           a == start.before
           b == Encoded(change)
           new == LineEraseRest(line, first, attr)
           content == a \o b
<1>1. /\ start \in PlacesOf(1)
      /\ Width(a) = first
      /\ End(a, NoAttributes) = start.attr
      /\ \A c \in Nat : c < first => Look(a, NoAttributes, c) = LineLook(line, c)
  BY FindLook
<1>2. a \in Seq(TokensOf(1)) /\ start.attr \in Attributes
  BY <1>1 DEF PlacesOf
<1>3. new.content = content /\ new.blank = TRUE /\ new.page = line.page
  BY DEF LineEraseRest, LinesOf
<1> HIDE DEF start, a
<1>4. change \in Attributes
  BY <1>2, PrecededByType
<1>5. Effective(Decoded(start.attr, change)) = Effective(attr)
  BY <1>2, ChangeTakesEffect
<1> HIDE DEF change
<1>6. b \in Seq(TokensOf(1)) /\ Width(b) = 0 /\ End(b, start.attr) = Decoded(start.attr, change)
  BY <1>2, <1>4, EncodedRead
<1> HIDE DEF b
<1>7. NoAttributes \in Attributes
  BY NoAttributesType
<1>8. /\ content \in Seq(TokensOf(1))
      /\ Width(content) = Width(a) + Width(b)
      /\ End(content, NoAttributes) = End(b, End(a, NoAttributes))
      /\ \A c \in Nat : Look(content, NoAttributes, c)
                          = IF c < Width(a) THEN Look(a, NoAttributes, c)
                            ELSE Look(b, End(a, NoAttributes), c - Width(a))
  BY <1>2, <1>6, <1>7, Joined
<1> HIDE DEF content, new
<1>9. Effective(End(content, NoAttributes)) = Effective(attr) /\ Width(content) = first
  BY <1>1, <1>5, <1>6, <1>8
<1>10. ASSUME NEW c \in Nat, c < first PROVE LineLook(new, c) = LineLook(line, c)
  BY <1>1, <1>3, <1>8, <1>10 DEF LineLook
<1>11. ASSUME NEW c \in Nat, c >= first PROVE LineLook(new, c) = BlankIn(Effective(attr))
  <2>1. Look(content, NoAttributes, c) = BlankIn(Effective(End(content, NoAttributes)))
    BY <1>7, <1>8, <1>9, <1>11, LookBeyond
  <2> QED BY <2>1, <1>3, <1>9 DEF LineLook
<1>12. RestOf(new) = Effective(attr)
  BY <1>3, <1>9 DEF RestOf
<1> QED BY <1>3, <1>10, <1>11, <1>12 DEF new

(* clear() *)
LEMMA ClearLook ==
  ASSUME NEW line \in LinesOf(1), NEW attr \in Attributes
  PROVE  LET new == LineClear(line, attr)
         IN /\ RestOf(new) = Effective(attr)
            /\ new.blank = TRUE /\ new.page = line.page
            /\ \A c \in Nat : LineLook(new, c) = BlankIn(Effective(attr))
<1> DEFINE b == Encoded(attr)
           new == LineClear(line, attr)
<1>1. new.content = b /\ new.blank = TRUE /\ new.page = line.page
  BY DEF LineClear, LinesOf
<1>2. /\ b \in Seq(TokensOf(1)) /\ Width(b) = 0
      /\ End(b, NoAttributes) = Decoded(NoAttributes, attr)
  BY NoAttributesType, EncodedRead
<1>3. Effective(Decoded(NoAttributes, attr)) = Effective(attr)
  BY DEF Effective, Decoded, NoAttributes, Attributes
<1> HIDE DEF b, new
<1>4. \A c \in Nat : Look(b, NoAttributes, c) = BlankIn(Effective(End(b, NoAttributes)))
  BY <1>2, NoAttributesType, LookBeyond
<1> QED BY <1>1, <1>2, <1>3, <1>4 DEF RestOf, LineLook, new

-----------------------------------------------------------------------------
(* What TextTerminal shows of a line is a row of Screen, and an operation  *)
(* on the line is one on the row.                                          *)

LEMMA LineShown ==
  ASSUME NEW line \in LinesOf(1), Settled(line)
  PROVE  LET row == ShownRow(line)
             picture == Picture(line.content, NoAttributes)
         IN /\ row = Rows!Row(picture, RestOf(line), line.page)
            /\ picture \in Seq(CellSet)
            /\ \A c \in Nat : Column(picture, RestOf(line), c) = LineLook(line, c)
            /\ row.cells \in Seq(CellSet)
            /\ row.rest = RestOf(line) /\ row.pageBlank = line.page
            /\ \A c \in Nat : Shown!CellAt(row, c) = LineLook(line, c)
<1> DEFINE row == ShownRow(line)
           picture == Picture(line.content, NoAttributes)
           rest == RestOf(line)
<1>1. line.content \in Seq(TokensOf(1)) /\ line.blank \in BOOLEAN
  BY DEF LinesOf
<1>2. picture \in Seq(CellSet)
  BY <1>1, NoAttributesType, PictureWidth
<1>3. /\ Render(line.content, NoAttributes).cells = picture
      /\ Render(line.content, NoAttributes).attr = rest
  BY DEF Render, Picture, RestOf, End
<1>4. (IF line.blank THEN rest ELSE Effective(NoAttributes)) = rest
  BY DEF Settled, PlainEffect
<1>5. row = Rows!Row(picture, rest, line.page)
  BY <1>3, <1>4 DEF ShownRow
<1>6. \A c \in Nat : Column(picture, rest, c) = LineLook(line, c)
  BY DEF LineLook, Look, RestOf
<1> HIDE DEF picture, rest, row
<1>7. LET r == Rows!Row(picture, rest, line.page)
      IN /\ r.rest = rest /\ r.pageBlank = line.page
         /\ r.cells \in Seq(CellSet)
         /\ \A c \in Nat : Shown!CellAt(r, c) = Column(picture, rest, c)
  BY <1>2, RowShows
<1>8. /\ row.rest = rest /\ row.pageBlank = line.page
      /\ row.cells \in Seq(CellSet)
      /\ \A c \in Nat : Shown!CellAt(row, c) = Column(picture, rest, c)
  BY <1>5, <1>7
<1> QED BY <1>2, <1>5, <1>6, <1>8 DEF row, picture, rest

(* A line that shows, in every column, what another shows there or a given *)
(* cell.                                                                   *)
LEMMA ReplacedRow ==
  ASSUME NEW line \in LinesOf(1), Settled(line), NEW new \in LinesOf(1),
         RestOf(new) = RestOf(line), new.blank = line.blank, new.page = line.page,
         NEW column \in Nat, NEW cell,
         \A c \in Nat : LineLook(new, c) = IF c = column THEN cell ELSE LineLook(line, c)
  PROVE  /\ Settled(new)
         /\ ShownRow(new) = Shown!Replaced(ShownRow(line), column, cell)
<1> DEFINE row == ShownRow(line)
           picture == Picture(new.content, NoAttributes)
<1>1. Settled(new)
  BY DEF Settled
<1>2. /\ row.cells \in Seq(CellSet)
      /\ row.rest = RestOf(line) /\ row.pageBlank = line.page
      /\ \A c \in Nat : Shown!CellAt(row, c) = LineLook(line, c)
  BY LineShown
<1>3. /\ ShownRow(new) = Rows!Row(picture, RestOf(new), new.page)
      /\ picture \in Seq(CellSet)
      /\ \A c \in Nat : Column(picture, RestOf(new), c) = LineLook(new, c)
  BY <1>1, LineShown
<1> HIDE DEF row, picture
<1>4. \A c \in Nat : Column(picture, row.rest, c)
                       = IF c = column THEN cell ELSE Shown!CellAt(row, c)
  BY <1>2, <1>3
<1>5. row.cells \in Seq(CellSet) /\ picture \in Seq(CellSet)
  BY <1>2, <1>3
<1>6. Shown!Replaced(row, column, cell) = Rows!Row(picture, row.rest, row.pageBlank)
  BY <1>4, <1>5, ReplacedIs
<1> QED BY <1>1, <1>2, <1>3, <1>6 DEF row

LEMMA InsertedRow ==
  ASSUME NEW line \in LinesOf(1), Settled(line), NEW new \in LinesOf(1),
         RestOf(new) = RestOf(line), new.blank = line.blank, new.page = line.page,
         NEW column \in Nat, NEW cell,
         \A c \in Nat : LineLook(new, c) = IF c < column THEN LineLook(line, c)
                                           ELSE IF c = column THEN cell
                                           ELSE LineLook(line, c - 1)
  PROVE  /\ Settled(new)
         /\ ShownRow(new) = Shown!Inserted(ShownRow(line), column, cell)
<1> DEFINE row == ShownRow(line)
           picture == Picture(new.content, NoAttributes)
<1>1. Settled(new)
  BY DEF Settled
<1>2. /\ row.cells \in Seq(CellSet)
      /\ row.rest = RestOf(line) /\ row.pageBlank = line.page
      /\ \A c \in Nat : Shown!CellAt(row, c) = LineLook(line, c)
  BY LineShown
<1>3. /\ ShownRow(new) = Rows!Row(picture, RestOf(new), new.page)
      /\ picture \in Seq(CellSet)
      /\ \A c \in Nat : Column(picture, RestOf(new), c) = LineLook(new, c)
  BY <1>1, LineShown
<1> HIDE DEF row, picture
<1>4. ASSUME NEW c \in Nat
      PROVE  Column(picture, row.rest, c)
               = IF c < column THEN Shown!CellAt(row, c)
                 ELSE IF c = column THEN cell
                 ELSE Shown!CellAt(row, c - 1)
  <2>1. Column(picture, row.rest, c) = LineLook(new, c)
    BY <1>2, <1>3
  <2>2. CASE c < column
    BY <2>1, <2>2, <1>2
  <2>3. CASE c = column
    BY <2>1, <2>3
  <2>4. CASE c > column
    <3> DEFINE d == c - 1
    <3>1. d \in Nat /\ ~(c < column) /\ c # column
      BY <2>4
    <3>2. LineLook(new, c) = LineLook(line, d)
      BY <3>1
    <3> HIDE DEF d
    <3>3. Shown!CellAt(row, d) = LineLook(line, d)
      BY <3>1, <1>2
    <3> QED BY <3>1, <3>2, <3>3, <2>1 DEF d
  <2> QED BY <2>2, <2>3, <2>4
<1>5. row.cells \in Seq(CellSet) /\ picture \in Seq(CellSet)
  BY <1>2, <1>3
<1>6. Shown!Inserted(row, column, cell) = Rows!Row(picture, row.rest, row.pageBlank)
  BY <1>4, <1>5, InsertedIs
<1> QED BY <1>1, <1>2, <1>3, <1>6 DEF row

LEMMA DeletedRow ==
  ASSUME Wide = {}, NEW line \in LinesOf(1), Settled(line),
         NEW first \in Nat, first <= MaxBlanks, NEW num \in Nat
  PROVE  /\ Settled(LineDeleteText(line, first, num))
         /\ ShownRow(LineDeleteText(line, first, num))
              = Shown!Deleted(ShownRow(line), first, num)
<1> DEFINE new == LineDeleteText(line, first, num)
           row == ShownRow(line)
           picture == Picture(new.content, NoAttributes)
<1>1. new \in LinesOf(1)
  BY LineDeleteTextType
<1>2. /\ RestOf(new) = RestOf(line)
      /\ new.blank = line.blank /\ new.page = line.page
      /\ \A c \in Nat : c < first => LineLook(new, c) = LineLook(line, c)
      /\ \A c \in Nat : c >= first => LineLook(new, c) = LineLook(line, c + num)
  BY DeleteLook
<1> HIDE DEF new
<1>3. Settled(new)
  BY <1>2 DEF Settled
<1>4. /\ row.cells \in Seq(CellSet)
      /\ row.rest = RestOf(line) /\ row.pageBlank = line.page
      /\ \A c \in Nat : Shown!CellAt(row, c) = LineLook(line, c)
  BY LineShown
<1>5. /\ ShownRow(new) = Rows!Row(picture, RestOf(new), new.page)
      /\ picture \in Seq(CellSet)
      /\ \A c \in Nat : Column(picture, RestOf(new), c) = LineLook(new, c)
  BY <1>1, <1>3, LineShown
<1> HIDE DEF row, picture
<1>6. ASSUME NEW c \in Nat
      PROVE  Column(picture, row.rest, c)
               = Shown!CellAt(row, IF c < first THEN c ELSE c + num)
  <2> DEFINE d == IF c < first THEN c ELSE c + num
  <2>1. d \in Nat /\ LineLook(new, c) = LineLook(line, d)
    BY <1>2
  <2> HIDE DEF d
  <2>2. Shown!CellAt(row, d) = LineLook(line, d)
    BY <2>1, <1>4
  <2>3. Column(picture, row.rest, c) = LineLook(new, c)
    BY <1>2, <1>4, <1>5
  <2> QED BY <2>1, <2>2, <2>3 DEF d
<1>7. row.cells \in Seq(CellSet) /\ picture \in Seq(CellSet)
  BY <1>4, <1>5
<1>8. Shown!Deleted(row, first, num) = Rows!Row(picture, row.rest, row.pageBlank)
  BY <1>6, <1>7, DeletedIs
<1> QED BY <1>2, <1>3, <1>4, <1>5, <1>8 DEF row, new

LEMMA ErasedRow ==
  ASSUME Wide = {}, NEW line \in LinesOf(1), Settled(line),
         NEW first \in Nat, first <= MaxBlanks, NEW num \in Nat, num # 0,
         NEW attr \in Attributes
  PROVE  /\ Settled(LineEraseText(line, first, num, attr))
         /\ ShownRow(LineEraseText(line, first, num, attr))
              = Shown!Erased(ShownRow(line), first, num, Effective(attr))
<1> DEFINE new == LineEraseCells(line, first, num, attr)
           row == ShownRow(line)
           picture == Picture(new.content, NoAttributes)
           effect == Effective(attr)
<1>1. new = LineEraseText(line, first, num, attr)
  BY DEF LineEraseText
<1>2. new \in LinesOf(1)
  BY <1>1, LineEraseTextType
<1>3. /\ RestOf(new) = RestOf(line)
      /\ new.blank = line.blank /\ new.page = line.page
      /\ \A c \in Nat : c < first => LineLook(new, c) = LineLook(line, c)
      /\ \A c \in Nat : c >= first /\ c < first + num => LineLook(new, c) = BlankIn(effect)
      /\ \A c \in Nat : c >= first + num => LineLook(new, c) = LineLook(line, c)
  BY EraseLook
<1> HIDE DEF new, effect
<1>4. Settled(new)
  BY <1>3 DEF Settled
<1>5. /\ row.cells \in Seq(CellSet)
      /\ row.rest = RestOf(line) /\ row.pageBlank = line.page
      /\ \A c \in Nat : Shown!CellAt(row, c) = LineLook(line, c)
  BY LineShown
<1>6. /\ ShownRow(new) = Rows!Row(picture, RestOf(new), new.page)
      /\ picture \in Seq(CellSet)
      /\ \A c \in Nat : Column(picture, RestOf(new), c) = LineLook(new, c)
  BY <1>2, <1>4, LineShown
<1> HIDE DEF row, picture
<1>7. ASSUME NEW c \in Nat
      PROVE  Column(picture, row.rest, c)
               = IF c >= first /\ c < first + num THEN BlankIn(effect)
                 ELSE Shown!CellAt(row, c)
  <2>1. Column(picture, row.rest, c) = LineLook(new, c)
    BY <1>3, <1>5, <1>6
  <2>2. LineLook(new, c) = IF c >= first /\ c < first + num THEN BlankIn(effect)
                           ELSE LineLook(line, c)
    BY <1>3
  <2> QED BY <2>1, <2>2, <1>5
<1>8. row.cells \in Seq(CellSet) /\ picture \in Seq(CellSet)
  BY <1>5, <1>6
<1>9. Shown!Erased(row, first, num, effect) = Rows!Row(picture, row.rest, row.pageBlank)
  BY <1>7, <1>8, ErasedIs
<1> QED BY <1>1, <1>3, <1>4, <1>5, <1>6, <1>9 DEF row, effect

LEMMA ErasedRestRow ==
  ASSUME Wide = {}, NEW line \in LinesOf(1), Settled(line),
         NEW first \in Nat, first <= MaxBlanks, NEW attr \in Attributes
  PROVE  /\ Settled(LineEraseText(line, first, 0, attr))
         /\ ShownRow(LineEraseText(line, first, 0, attr))
              = Shown!ErasedRest(ShownRow(line), first, Effective(attr))
<1> DEFINE new == LineEraseRest(line, first, attr)
           row == ShownRow(line)
           picture == Picture(new.content, NoAttributes)
           effect == Effective(attr)
<1>1. new = LineEraseText(line, first, 0, attr)
  BY DEF LineEraseText
<1>2. new \in LinesOf(1)
  BY <1>1, LineEraseTextType
<1>3. /\ RestOf(new) = effect
      /\ new.blank = TRUE /\ new.page = line.page
      /\ \A c \in Nat : c < first => LineLook(new, c) = LineLook(line, c)
      /\ \A c \in Nat : c >= first => LineLook(new, c) = BlankIn(effect)
  BY EraseRestLook
<1> HIDE DEF new, effect
<1>4. Settled(new)
  BY <1>3 DEF Settled
<1>5. /\ row.cells \in Seq(CellSet) /\ row.pageBlank = line.page
      /\ \A c \in Nat : Shown!CellAt(row, c) = LineLook(line, c)
  BY LineShown
<1>6. /\ ShownRow(new) = Rows!Row(picture, RestOf(new), new.page)
      /\ picture \in Seq(CellSet)
      /\ \A c \in Nat : Column(picture, RestOf(new), c) = LineLook(new, c)
  BY <1>2, <1>4, LineShown
<1> HIDE DEF row, picture
<1>7. \A c \in Nat : Column(picture, effect, c)
                       = IF c < first THEN Shown!CellAt(row, c) ELSE BlankIn(effect)
  BY <1>3, <1>5, <1>6
<1>8. row.cells \in Seq(CellSet) /\ picture \in Seq(CellSet)
  BY <1>5, <1>6
<1>9. Shown!ErasedRest(row, first, effect) = Rows!Row(picture, effect, row.pageBlank)
  BY <1>7, <1>8, ErasedRestIs
<1> QED BY <1>1, <1>3, <1>4, <1>5, <1>6, <1>9 DEF row, effect

LEMMA ClearedRow ==
  ASSUME NEW line \in LinesOf(1), Settled(line), NEW attr \in Attributes
  PROVE  /\ Settled(LineClear(line, attr))
         /\ ShownRow(LineClear(line, attr)) = Shown!Cleared(ShownRow(line), Effective(attr))
<1> DEFINE new == LineClear(line, attr)
           row == ShownRow(line)
           picture == Picture(new.content, NoAttributes)
           effect == Effective(attr)
<1>1. new \in LinesOf(1)
  BY LineClearType
<1>2. /\ RestOf(new) = effect
      /\ new.blank = TRUE /\ new.page = line.page
      /\ \A c \in Nat : LineLook(new, c) = BlankIn(effect)
  BY ClearLook
<1> HIDE DEF new, effect
<1>3. Settled(new)
  BY <1>2 DEF Settled
<1>4. row.pageBlank = line.page
  BY LineShown
<1>5. /\ ShownRow(new) = Rows!Row(picture, RestOf(new), new.page)
      /\ picture \in Seq(CellSet)
      /\ \A c \in Nat : Column(picture, RestOf(new), c) = LineLook(new, c)
  BY <1>1, <1>3, LineShown
<1> HIDE DEF row, picture
<1>6. \A c \in Nat : Column(picture, effect, c) = BlankIn(effect)
  BY <1>2, <1>5
<1>7. Shown!Cleared(row, effect) = Rows!Row(picture, effect, row.pageBlank)
  BY <1>5, <1>6, ClearedIs
<1> QED BY <1>2, <1>3, <1>4, <1>5, <1>7 DEF row, new, effect

(* A new line *)
LEMMA NewLineShown ==
  /\ NewLineOfBuffer \in LinesOf(1) /\ Settled(NewLineOfBuffer)
  /\ ShownRow(NewLineOfBuffer) = Shown!EmptyRow
<1> DEFINE line == NewLineOfBuffer
           picture == Picture(<<>>, NoAttributes)
<1>1. line.content = <<>> /\ line.blank = FALSE /\ line.page = FALSE
  BY DEF NewLineOfBuffer, Line
<1>2. End(<<>>, NoAttributes) = NoAttributes /\ <<>> \in Seq(TokensOf(1))
  BY NoAttributesType, Nothing
<1>3. RestOf(line) = PlainEffect
  BY <1>1, <1>2 DEF RestOf, PlainEffect
<1>4. line \in LinesOf(1) /\ Settled(line)
  BY <1>3, NewLineType DEF Settled
<1>5. ShownRow(line) = Rows!Row(picture, PlainEffect, FALSE)
  <2>1. ShownRow(line) = Rows!Row(Picture(line.content, NoAttributes), RestOf(line), line.page)
    BY <1>4, LineShown
  <2> QED BY <2>1, <1>1, <1>3
<1>6. picture = <<>>
  <2>1. picture \in Seq(CellSet) /\ Len(picture) = 0
    BY <1>2, NoAttributesType, PictureWidth, Nothing
  <2> QED BY <2>1
<1>7. Shown!EmptyRow = Shown!Row(<<>>, PlainEffect, FALSE)
  BY DEF Shown!EmptyRow, PlainEffect
<1> QED BY <1>4, <1>5, <1>6, <1>7, ShownIsRow

(* The line with the text of a fragment, which may be empty *)
LineWith(line, pos, text, attr, insert) ==
  IF text = <<>> THEN line ELSE LineAddText(line, pos, text, attr, insert)

LEMMA LineWithLook ==
  ASSUME Wide = {}, NEW line \in LinesOf(1), Settled(line), NEW pos \in Nat, pos <= MaxBlanks,
         NEW text \in Seq(Characters), NEW attr \in Attributes, NEW insert \in BOOLEAN
  PROVE  LET new == LineWith(line, pos, text, attr, insert)
         IN /\ new \in LinesOf(1) /\ Settled(new)
            /\ RestOf(new) = RestOf(line)
            /\ new.blank = line.blank /\ new.page = line.page
            /\ \A c \in Nat : c < pos => LineLook(new, c) = LineLook(line, c)
            /\ \A c \in Nat : c >= pos /\ c < pos + Len(text) =>
                  LineLook(new, c) = [char |-> text[c - pos + 1], attr |-> Effective(attr)]
            /\ \A c \in Nat : c >= pos + Len(text) =>
                  LineLook(new, c) = LineLook(line, Beneath(insert, Len(text), c))
<1> DEFINE new == LineWith(line, pos, text, attr, insert)
<1>1. CASE text = <<>>
  <2>1. new = line /\ Len(text) = 0
    BY <1>1 DEF LineWith
  <2> HIDE DEF new
  <2>2. \A c \in Nat : Beneath(insert, 0, c) = c
    BY DEF Beneath
  <2>3. \A c \in Nat : c >= pos + Len(text) =>
           LineLook(new, c) = LineLook(line, Beneath(insert, Len(text), c))
    BY <2>1, <2>2
  <2>4. \A c \in Nat : ~(c >= pos /\ c < pos + Len(text))
    BY <2>1
  <2> QED BY <2>1, <2>3, <2>4 DEF new
<1>2. CASE text # <<>>
  <2>1. new = LineAddText(line, pos, text, attr, insert)
    BY <1>2 DEF LineWith
  <2>2. new \in LinesOf(1)
    BY <2>1, LineAddTextType
  <2> HIDE DEF new
  <2>3. /\ RestOf(new) = RestOf(line)
        /\ new.blank = line.blank /\ new.page = line.page
        /\ \A c \in Nat : c < pos => LineLook(new, c) = LineLook(line, c)
        /\ \A c \in Nat : c >= pos /\ c < pos + Len(text) =>
              LineLook(new, c) = [char |-> text[c - pos + 1], attr |-> Effective(attr)]
        /\ \A c \in Nat : c >= pos + Len(text) =>
              LineLook(new, c) = LineLook(line, Beneath(insert, Len(text), c))
    BY <2>1, TextLook
  <2>4. Settled(new)
    BY <2>3 DEF Settled
  <2> QED BY <2>2, <2>3, <2>4 DEF new
<1> QED BY <1>1, <1>2

(* A fragment with one character more is that character at its end. *)
LEMMA OneMoreChar ==
  ASSUME Wide = {}, NEW line \in LinesOf(1), Settled(line), NEW pos \in Nat, pos <= MaxBlanks,
         NEW text \in Seq(Characters), NEW char \in Characters,
         NEW attr \in Attributes, NEW insert \in BOOLEAN
  PROVE  ShownRow(LineWith(line, pos, Append(text, char), attr, insert))
           = IF insert
             THEN Shown!Inserted(ShownRow(LineWith(line, pos, text, attr, insert)),
                                 pos + Len(text), Shown!Cell(char, Effective(attr)))
             ELSE Shown!Replaced(ShownRow(LineWith(line, pos, text, attr, insert)),
                                 pos + Len(text), Shown!Cell(char, Effective(attr)))
<1> DEFINE old == LineWith(line, pos, text, attr, insert)
           more == Append(text, char)
           new == LineWith(line, pos, more, attr, insert)
           n == Len(text)
           column == pos + n
           cell == Shown!Cell(char, Effective(attr))
<1>1. n \in Nat /\ more \in Seq(Characters) /\ Len(more) = n + 1
  OBVIOUS
<1>2. \A i \in 1 .. n : more[i] = text[i]
  OBVIOUS
<1>3. more[n + 1] = char
  OBVIOUS
<1>4. /\ old \in LinesOf(1) /\ Settled(old)
      /\ RestOf(old) = RestOf(line)
      /\ old.blank = line.blank /\ old.page = line.page
      /\ \A c \in Nat : c < pos => LineLook(old, c) = LineLook(line, c)
      /\ \A c \in Nat : c >= pos /\ c < pos + n =>
            LineLook(old, c) = [char |-> text[c - pos + 1], attr |-> Effective(attr)]
      /\ \A c \in Nat : c >= pos + n =>
            LineLook(old, c) = LineLook(line, Beneath(insert, n, c))
  BY LineWithLook
<1> HIDE DEF more
<1>5. /\ new \in LinesOf(1)
      /\ RestOf(new) = RestOf(line)
      /\ new.blank = line.blank /\ new.page = line.page
      /\ \A c \in Nat : c < pos => LineLook(new, c) = LineLook(line, c)
      /\ \A c \in Nat : c >= pos /\ c < pos + Len(more) =>
            LineLook(new, c) = [char |-> more[c - pos + 1], attr |-> Effective(attr)]
      /\ \A c \in Nat : c >= pos + Len(more) =>
            LineLook(new, c) = LineLook(line, Beneath(insert, Len(more), c))
  BY <1>1, LineWithLook
<1> HIDE DEF old, new, n
<1>6. cell = [char |-> char, attr |-> Effective(attr)]
  BY DEF Shown!Cell
<1> HIDE DEF cell
<1>7. column \in Nat
  BY <1>1
<1>8. ASSUME NEW c \in Nat, c < column PROVE LineLook(new, c) = LineLook(old, c)
  <2>1. CASE c < pos
    BY <2>1, <1>4, <1>5
  <2>2. CASE c >= pos
    <3> DEFINE i == c - pos + 1
    <3>1. i \in 1 .. n
      BY <2>2, <1>8, <1>1
    <3>2. c < pos + n /\ c < pos + Len(more)
      BY <1>1, <1>8
    <3>3. LineLook(new, c) = [char |-> more[i], attr |-> Effective(attr)]
      BY <2>2, <3>2, <1>5
    <3>4. LineLook(old, c) = [char |-> text[i], attr |-> Effective(attr)]
      BY <2>2, <3>2, <1>4
    <3> HIDE DEF i
    <3> QED BY <3>1, <3>3, <3>4, <1>2
  <2> QED BY <2>1, <2>2
<1>9. LineLook(new, column) = cell
  <2>1. column >= pos /\ column < pos + Len(more) /\ column - pos + 1 = n + 1
    BY <1>1
  <2>2. LineLook(new, column) = [char |-> more[column - pos + 1], attr |-> Effective(attr)]
    BY <2>1, <1>5, <1>7
  <2> QED BY <2>1, <2>2, <1>3, <1>6 DEF n
<1>10. ASSUME NEW c \in Nat, c > column
       PROVE  LineLook(new, c) = IF insert THEN LineLook(old, c - 1) ELSE LineLook(old, c)
  <2>1. c >= pos + Len(more) /\ c >= pos + n
    BY <1>1, <1>10
  <2>2. LineLook(new, c) = LineLook(line, Beneath(insert, n + 1, c))
    BY <2>1, <1>1, <1>5
  <2>3. CASE insert
    <3> DEFINE d == c - 1
    <3>1. d \in Nat /\ d >= pos + n /\ d - n = c - (n + 1)
      BY <1>1, <1>10
    <3> HIDE DEF d
    <3>2. LineLook(old, d) = LineLook(line, Beneath(insert, n, d))
      BY <3>1, <1>4
    <3> QED BY <3>1, <3>2, <2>2, <2>3 DEF Beneath, d
  <2>4. CASE ~insert
    <3>1. LineLook(old, c) = LineLook(line, Beneath(insert, n, c))
      BY <2>1, <1>4
    <3> QED BY <3>1, <2>2, <2>4 DEF Beneath
  <2> QED BY <2>3, <2>4
<1>11. /\ RestOf(new) = RestOf(old)
       /\ new.blank = old.blank /\ new.page = old.page
  BY <1>4, <1>5
<1> HIDE DEF column
<1>12. CASE insert
  <2>1. \A c \in Nat : LineLook(new, c) = IF c < column THEN LineLook(old, c)
                                          ELSE IF c = column THEN cell
                                          ELSE LineLook(old, c - 1)
    <3>1. \A c \in Nat : c < column \/ c = column \/ c > column
      BY <1>7
    <3> QED BY <3>1, <1>7, <1>8, <1>9, <1>10, <1>12
  <2>2. ShownRow(new) = Shown!Inserted(ShownRow(old), column, cell)
    BY <2>1, <1>4, <1>5, <1>7, <1>11, InsertedRow
  <2> QED BY <2>2, <1>12 DEF new, old, more, n, column, cell
<1>13. CASE ~insert
  <2>1. \A c \in Nat : LineLook(new, c) = IF c = column THEN cell ELSE LineLook(old, c)
    <3>1. \A c \in Nat : c < column \/ c = column \/ c > column
      BY <1>7
    <3> QED BY <3>1, <1>7, <1>8, <1>9, <1>10, <1>13
  <2>2. ShownRow(new) = Shown!Replaced(ShownRow(old), column, cell)
    BY <2>1, <1>4, <1>5, <1>7, <1>11, ReplacedRow
  <2> QED BY <2>2, <1>13 DEF new, old, more, n, column, cell
<1> QED BY <1>12, <1>13

-----------------------------------------------------------------------------
(* The loop of add_text(): what is shown when the fragment is added is     *)
(* what Screen has after the characters so far, one by one.                *)

ShownRows(lines) == [i \in DOMAIN lines |-> ShownRow(lines[i])]

AllSettled(lines) == \A i \in DOMAIN lines : Settled(lines[i])

View(s, starts) ==
  [rows |-> ShownRows(s.buffer), top |-> s.offset, x |-> s.x, y |-> s.y, starts |-> starts]

LinesSettled == {lines \in Seq(LinesOf(1)) : AllSettled(lines)}

StatesSettled(fits) == {s \in StatesOf(1, fits) : s.buffer \in LinesSettled}

PendingSettled(fits) == {p \in PendingOf(1, fits) : p.state.buffer \in LinesSettled}

LineAt(s) == s.offset + s.y + 1

LEMMA ShownRowsOf ==
  ASSUME NEW lines \in LinesSettled
  PROVE  /\ DOMAIN lines = 1 .. Len(lines) /\ Len(lines) \in Nat
         /\ lines \in Seq(LinesOf(1))
         /\ \A i \in 1 .. Len(lines) : lines[i] \in LinesOf(1) /\ Settled(lines[i])
         /\ DOMAIN ShownRows(lines) = 1 .. Len(lines)
         /\ \A i \in 1 .. Len(lines) : ShownRows(lines)[i] = ShownRow(lines[i])
BY DEF LinesSettled, AllSettled, ShownRows

LEMMA LinesIn ==
  ASSUME NEW lines \in Seq(LinesOf(1)), \A i \in 1 .. Len(lines) : Settled(lines[i])
  PROVE  lines \in LinesSettled
BY DEF LinesSettled, AllSettled

(* A line of the buffer is changed. *)
LEMMA LineChanged ==
  ASSUME NEW lines \in LinesSettled, NEW at \in 1 .. Len(lines),
         NEW line \in LinesOf(1), Settled(line)
  PROVE  LET new == [lines EXCEPT ![at] = line]
         IN /\ new \in LinesSettled
            /\ ShownRows(new) = [ShownRows(lines) EXCEPT ![at] = ShownRow(line)]
<1> DEFINE new == [lines EXCEPT ![at] = line]
<1>1. /\ DOMAIN lines = 1 .. Len(lines) /\ Len(lines) \in Nat
      /\ lines \in Seq(LinesOf(1))
      /\ \A i \in 1 .. Len(lines) : lines[i] \in LinesOf(1) /\ Settled(lines[i])
      /\ DOMAIN ShownRows(lines) = 1 .. Len(lines)
      /\ \A i \in 1 .. Len(lines) : ShownRows(lines)[i] = ShownRow(lines[i])
  BY ShownRowsOf
<1>2. /\ new \in Seq(LinesOf(1)) /\ Len(new) = Len(lines)
      /\ new[at] = line
      /\ \A i \in 1 .. Len(lines) : i # at => new[i] = lines[i]
  BY <1>1
<1> HIDE DEF new
<1>3. new \in LinesSettled
  <2>1. \A i \in 1 .. Len(new) : Settled(new[i])
    BY <1>1, <1>2
  <2> QED BY <2>1, <1>2, LinesIn
<1>4. /\ DOMAIN ShownRows(new) = 1 .. Len(lines)
      /\ \A i \in 1 .. Len(lines) : ShownRows(new)[i] = ShownRow(new[i])
  BY <1>2, <1>3, ShownRowsOf
<1> DEFINE rows == [ShownRows(lines) EXCEPT ![at] = ShownRow(line)]
<1>5. DOMAIN rows = 1 .. Len(lines)
  BY <1>1
<1>6. ASSUME NEW i \in 1 .. Len(lines) PROVE ShownRows(new)[i] = rows[i]
  <2>1. CASE i = at
    BY <2>1, <1>1, <1>2, <1>4
  <2>2. CASE i # at
    BY <2>2, <1>1, <1>2, <1>4
  <2> QED BY <2>1, <2>2
<1>7. ShownRows(new) = rows
  <2>1. ShownRows(new) = [i \in 1 .. Len(lines) |-> ShownRows(new)[i]]
    BY <1>4 DEF ShownRows
  <2>2. rows = [i \in 1 .. Len(lines) |-> rows[i]]
    BY <1>5
  <2> HIDE DEF rows
  <2> QED BY <2>1, <2>2, <1>6
<1> QED BY <1>3, <1>7 DEF new

(* A line is added. *)
LEMMA LineAppended ==
  ASSUME NEW lines \in LinesSettled, NEW line \in LinesOf(1), Settled(line)
  PROVE  LET new == Append(lines, line)
         IN /\ new \in LinesSettled
            /\ ShownRows(new) = Append(ShownRows(lines), ShownRow(line))
<1> DEFINE new == Append(lines, line)
           n == Len(lines)
           C == {ShownRow(lines[i]) : i \in 1 .. n} \cup {ShownRow(line)}
           rows == Append(ShownRows(lines), ShownRow(line))
<1>1. /\ DOMAIN lines = 1 .. Len(lines) /\ n \in Nat
      /\ lines \in Seq(LinesOf(1))
      /\ \A i \in 1 .. n : lines[i] \in LinesOf(1) /\ Settled(lines[i])
      /\ DOMAIN ShownRows(lines) = 1 .. n
      /\ \A i \in 1 .. n : ShownRows(lines)[i] = ShownRow(lines[i])
  BY ShownRowsOf
<1>2. line \in LinesOf(1) /\ Settled(line)
  OBVIOUS
<1>3. /\ new \in Seq(LinesOf(1)) /\ Len(new) = n + 1
      /\ new[n + 1] = line
      /\ \A i \in 1 .. n : new[i] = lines[i]
  BY <1>1, <1>2
<1> HIDE DEF new
<1>4. new \in LinesSettled
  <2>1. ASSUME NEW i \in 1 .. Len(new) PROVE Settled(new[i])
    <3>1. i \in 1 .. n \/ i = n + 1
      BY <1>1, <1>3
    <3> QED BY <3>1, <1>1, <1>2, <1>3
  <2> QED BY <2>1, <1>3, LinesIn
<1>5. /\ DOMAIN ShownRows(new) = 1 .. n + 1
      /\ \A i \in 1 .. n + 1 : ShownRows(new)[i] = ShownRow(new[i])
  BY <1>3, <1>4, ShownRowsOf
<1>6. ShownRows(lines) \in Seq(C) /\ Len(ShownRows(lines)) = n
  <2> DEFINE f == ShownRows(lines)
  <2>1. f \in [1 .. n -> C]
    <3>1. \A i \in 1 .. n : f[i] \in C
      BY <1>1
    <3>2. f = [i \in 1 .. n |-> f[i]]
      BY <1>1 DEF ShownRows
    <3> HIDE DEF f, C
    <3> QED BY <3>1, <3>2
  <2> HIDE DEF f, C
  <2>2. f \in Seq(C) /\ Len(f) = n
    BY <2>1, <1>1, FunctionIsSeq
  <2> QED BY <2>2 DEF f
<1> HIDE DEF n, C
<1>7. /\ DOMAIN rows = 1 .. n + 1
      /\ rows = [i \in 1 .. n + 1 |-> rows[i]]
      /\ rows[n + 1] = ShownRow(line)
      /\ \A i \in 1 .. n : rows[i] = ShownRows(lines)[i]
  <2> DEFINE e == ShownRow(line)
             f == ShownRows(lines)
  <2>1. e \in C
    BY DEF C
  <2>2. f \in Seq(C) /\ Len(f) = n
    BY <1>6
  <2> HIDE DEF e, f
  <2>3. /\ Append(f, e) \in Seq(C) /\ Len(Append(f, e)) = n + 1
        /\ Append(f, e)[n + 1] = e
        /\ \A i \in 1 .. n : Append(f, e)[i] = f[i]
    BY <2>1, <2>2, <1>1
  <2> DEFINE g == Append(f, e)
  <2>4. g \in Seq(C) /\ Len(g) = n + 1
    BY <2>3
  <2>5. rows = g
    BY DEF e, f
  <2> HIDE DEF g, rows
  <2>6. DOMAIN g = 1 .. n + 1 /\ g = [i \in 1 .. n + 1 |-> g[i]]
    BY <2>4
  <2> QED BY <2>3, <2>5, <2>6 DEF g, e, f
<1> HIDE DEF rows
<1>8. ASSUME NEW i \in 1 .. n + 1 PROVE ShownRows(new)[i] = rows[i]
  <2>1. i \in 1 .. n \/ i = n + 1
    BY <1>1
  <2>2. CASE i \in 1 .. n
    BY <2>2, <1>1, <1>3, <1>5, <1>7
  <2>3. CASE i = n + 1
    BY <2>3, <1>2, <1>3, <1>5, <1>7
  <2> QED BY <2>1, <2>2, <2>3
<1>9. ShownRows(new) = [i \in 1 .. n + 1 |-> ShownRows(new)[i]]
  BY <1>5 DEF ShownRows
<1>10. ShownRows(new) = rows
  BY <1>7, <1>8, <1>9
<1> QED BY <1>4, <1>10 DEF new, rows

LEMMA LineAdded ==
  ASSUME NEW lines \in LinesSettled
  PROVE  LET new == Append(lines, NewLineOfBuffer)
         IN /\ new \in LinesSettled
            /\ ShownRows(new) = Append(ShownRows(lines), Shown!EmptyRow)
BY NewLineShown, LineAppended

(* Rows that are shown one by one *)
LEMMA RowsAre ==
  ASSUME NEW lines \in LinesSettled, NEW rows, DOMAIN rows = 1 .. Len(lines),
         rows = [i \in DOMAIN rows |-> rows[i]],
         \A i \in 1 .. Len(lines) : rows[i] = ShownRow(lines[i])
  PROVE  ShownRows(lines) = rows
<1>1. DOMAIN lines = 1 .. Len(lines)
  BY ShownRowsOf
<1>2. ShownRows(lines) = [i \in 1 .. Len(lines) |-> rows[i]]
  BY <1>1 DEF ShownRows
<1> QED BY <1>2

LEMMA StateParts ==
  ASSUME NEW fits, NEW s \in StatesSettled(fits)
  PROVE  /\ s \in StatesOf(1, fits) /\ s.buffer \in LinesSettled
         /\ s.offset \in Nat /\ s.x \in Nat /\ s.y \in Nat /\ s.x <= MaxBlanks
         /\ LineAt(s) \in 1 .. Len(s.buffer)
         /\ s.buffer[LineAt(s)] \in LinesOf(1) /\ Settled(s.buffer[LineAt(s)])
         /\ s = State(s.buffer, s.offset, s.x, s.y)
<1>1. /\ s \in StatesOf(1, fits) /\ s.buffer \in LinesSettled
      /\ s \in [buffer : Seq(LinesOf(1)), offset : Nat, x : Nat, y : Nat]
      /\ s.offset + s.y + 1 <= Len(s.buffer)
      /\ s.x <= MaxBlanks
  BY DEF StatesSettled, StatesOf
<1>2. s = State(s.buffer, s.offset, s.x, s.y)
  BY <1>1 DEF State
<1>3. s.offset \in Nat /\ s.x \in Nat /\ s.y \in Nat
  BY <1>1
<1>4. LineAt(s) \in 1 .. Len(s.buffer)
  BY <1>1, <1>3 DEF LineAt
<1> DEFINE lines == s.buffer
           at == LineAt(s)
<1>5. lines \in LinesSettled /\ at \in 1 .. Len(lines)
  BY <1>1, <1>4
<1> HIDE DEF lines, at
<1>6. lines[at] \in LinesOf(1) /\ Settled(lines[at])
  BY <1>5, ShownRowsOf
<1> QED BY <1>1, <1>2, <1>3, <1>4, <1>6 DEF lines, at

LEMMA WidthOfText ==
  ASSUME Wide = {}, NEW text \in Seq(Characters)
  PROVE  TextWidth(text) = Len(text)
<1>1. Width(Chars(text)) = Len(text)
  BY NoAttributesType, CharsLook
<1>2. Len(Chars(text)) = Len(text)
  BY CharsType
<1> QED BY <1>1, <1>2 DEF TextWidth, Width

(* The fragment added to the line of the cursor. *)
LEMMA FlushIs ==
  ASSUME Wide = {}, NEW fits \in BOOLEAN, cells \in Sizes, attrs \in Attributes,
         NEW p \in PendingSettled(fits), NEW insert \in BOOLEAN
  PROVE  LET s == p.state
             new == LineWith(s.buffer[LineAt(s)], s.x, p.fragment, attrs, insert)
         IN /\ s \in StatesSettled(fits) /\ p.fragment \in Seq(Characters)
            /\ s.x + Len(p.fragment) <= MaxBlanks
            /\ new \in LinesOf(1) /\ Settled(new)
            /\ AfterFlush(p, insert) = State([s.buffer EXCEPT ![LineAt(s)] = new],
                                             s.offset, s.x + Len(p.fragment), s.y)
            /\ AfterFlush(p, insert) \in StatesSettled(fits)
            /\ AfterFlush(p, insert).x = s.x + Len(p.fragment)
<1> DEFINE s == p.state
           text == p.fragment
           lines == s.buffer
           at == LineAt(s)
           old == lines[at]
           new == LineWith(old, s.x, text, attrs, insert)
           after == AfterFlush(p, insert)
           changed == [lines EXCEPT ![at] = new]
<1>1. /\ p \in PendingOf(1, fits) /\ s \in StatesSettled(fits)
      /\ text \in Seq(Characters) /\ s.x + TextWidth(text) <= MaxBlanks
  BY DEF PendingSettled, PendingOf, StatesSettled
<1>2. TextWidth(text) = Len(text)
  BY <1>1, WidthOfText
<1>3. after \in StatesOf(1, fits)
  BY <1>1, AfterFlushKeeps
<1>4. after = Flushed(s, text, insert)
  BY DEF AfterFlush
<1> HIDE DEF s, text, after
<1>5. /\ lines \in LinesSettled
      /\ s.offset \in Nat /\ s.x \in Nat /\ s.y \in Nat /\ s.x <= MaxBlanks
      /\ at \in 1 .. Len(lines)
      /\ old \in LinesOf(1) /\ Settled(old)
      /\ s = State(lines, s.offset, s.x, s.y)
  BY <1>1, StateParts
<1>6. lines \in Seq(LinesOf(1))
  BY <1>5 DEF LinesSettled
<1> HIDE DEF lines, at
<1>7. new \in LinesOf(1) /\ Settled(new)
  <2> HIDE DEF old
  <2> QED BY <1>1, <1>5, LineWithLook
<1>8. after = State(changed, s.offset, s.x + Len(text), s.y)
  <2>1. CASE text = <<>>
    <3>1. after = s /\ new = old
      BY <1>4, <2>1 DEF Flushed, LineWith
    <3>2. [lines EXCEPT ![at] = old] = lines
      BY <1>6
    <3>3. s.x + Len(text) = s.x
      BY <2>1, <1>5
    <3>4. changed = lines
      BY <3>1, <3>2
    <3> HIDE DEF changed
    <3> QED BY <3>1, <3>3, <3>4, <1>5
  <2>2. CASE text # <<>>
    <3>1. after = State(AddedAt(s, text, insert), s.offset, s.x + TextWidth(text), s.y)
      BY <1>4, <2>2 DEF Flushed
    <3>2. AddedAt(s, text, insert) = [lines EXCEPT ![at] = LineAddText(old, s.x, text, attrs, insert)]
      BY DEF AddedAt, lines, at, LineAt
    <3>3. new = LineAddText(old, s.x, text, attrs, insert)
      BY <2>2 DEF LineWith
    <3> QED BY <3>1, <3>2, <3>3, <1>2
  <2> QED BY <2>1, <2>2
<1>9. changed \in LinesSettled
  <2> HIDE DEF new
  <2> QED BY <1>5, <1>7, LineChanged
<1>10. after.buffer = changed /\ after.x = s.x + Len(text)
  BY <1>8 DEF State
<1>11. after \in StatesSettled(fits)
  BY <1>3, <1>9, <1>10 DEF StatesSettled
<1> QED BY <1>1, <1>2, <1>7, <1>8, <1>10, <1>11 DEF s, text, lines, at, old, new, changed, after

LEMMA ViewNewLine ==
  ASSUME NEW fits \in BOOLEAN, cells \in Sizes, NEW s \in StatesSettled(fits), NEW starts
  PROVE  /\ AfterNewLine(s) \in StatesSettled(fits)
         /\ View(AfterNewLine(s), TRUE) = Shown!ToNewLine(View(s, starts))
<1>1. /\ s \in StatesOf(1, fits) /\ s.buffer \in LinesSettled
      /\ s.offset \in Nat /\ s.y \in Nat
  BY StateParts
<1> DEFINE lines == s.buffer
           added == Append(lines, NewLineOfBuffer)
           stays == s.y < cells.lines - 1
<1>2. added \in LinesSettled /\ ShownRows(added) = Append(ShownRows(lines), Shown!EmptyRow)
  BY <1>1, LineAdded
<1>3. AfterNewLine(s) = IF stays THEN State(added, s.offset, 0, s.y + 1)
                        ELSE State(added, s.offset + 1, 0, s.y)
  BY DEF AfterNewLine
<1>4. AfterNewLine(s) \in StatesOf(1, fits)
  BY <1>1, AfterNewLineKeeps
<1>5. AfterNewLine(s).buffer = added
  BY <1>3 DEF State
<1>6. AfterNewLine(s) \in StatesSettled(fits)
  BY <1>2, <1>4, <1>5 DEF StatesSettled
<1>7. cells.lines \in Nat \ {0}
  BY SizesAssumption
<1>8. stays <=> s.y + 1 < cells.lines
  BY <1>1, <1>7
<1> HIDE DEF stays, added
<1> DEFINE then == [rows |-> Append(ShownRows(lines), Shown!EmptyRow),
                   top |-> IF stays THEN s.offset ELSE s.offset + 1,
                   x |-> 0,
                   y |-> IF stays THEN s.y + 1 ELSE s.y,
                   starts |-> TRUE]
<1>9. View(AfterNewLine(s), TRUE) = then
  <2>1. CASE stays
    <3>1. AfterNewLine(s) = State(added, s.offset, 0, s.y + 1)
      BY <2>1, <1>3
    <3> DEFINE t == AfterNewLine(s)
    <3>2. t.buffer = added /\ t.offset = s.offset /\ t.x = 0 /\ t.y = s.y + 1
      BY <3>1 DEF State
    <3>3. ShownRows(added) = Append(ShownRows(lines), Shown!EmptyRow)
      BY <1>2
    <3> HIDE DEF t, lines
    <3>4. View(t, TRUE) = then
      BY <2>1, <3>2, <3>3 DEF View
    <3> QED BY <3>4 DEF t
  <2>2. CASE ~stays
    <3>1. AfterNewLine(s) = State(added, s.offset + 1, 0, s.y)
      BY <2>2, <1>3
    <3> DEFINE t == AfterNewLine(s)
    <3>2. t.buffer = added /\ t.offset = s.offset + 1 /\ t.x = 0 /\ t.y = s.y
      BY <3>1 DEF State
    <3>3. ShownRows(added) = Append(ShownRows(lines), Shown!EmptyRow)
      BY <1>2
    <3> HIDE DEF t, lines
    <3>4. View(t, TRUE) = then
      BY <2>2, <3>2, <3>3 DEF View
    <3> QED BY <3>4 DEF t
  <2> QED BY <2>1, <2>2
<1>10. Shown!ToNewLine(View(s, starts)) = then
  BY <1>8 DEF View, Shown!ToNewLine
<1> HIDE DEF then
<1> QED BY <1>6, <1>9, <1>10

(* What is shown with the fragment added *)
Shows(p, insert) == View(AfterFlush(p, insert), p.fragment = <<>>)

LEMMA NothingPending ==
  ASSUME NEW fits, NEW s \in StatesSettled(fits), NEW insert
  PROVE  /\ Pending(s, <<>>) \in PendingSettled(fits)
         /\ Shows(Pending(s, <<>>), insert) = View(s, TRUE)
<1> DEFINE p == Pending(s, <<>>)
<1>1. p.state = s /\ p.fragment = <<>>
  BY DEF Pending
<1>2. s \in StatesOf(1, fits) /\ s.buffer \in LinesSettled
  BY StateParts
<1>3. p \in PendingOf(1, fits)
  BY <1>2, PendingIn
<1>4. p \in PendingSettled(fits)
  BY <1>1, <1>2, <1>3 DEF PendingSettled
<1>5. AfterFlush(p, insert) = s
  BY <1>1 DEF AfterFlush, Flushed
<1> HIDE DEF p
<1>6. Shows(p, insert) = View(s, TRUE)
  BY <1>1, <1>5 DEF Shows
<1> QED BY <1>4, <1>6 DEF p

(* The cursor of a state of Screen is moved. *)
Moved(state, x2, starts2) == [state EXCEPT !.x = x2, !.starts = starts2]

LEMMA RecordMoved ==
  ASSUME NEW rows, NEW top, NEW x, NEW y, NEW starts, NEW x2, NEW starts2
  PROVE  Moved([rows |-> rows, top |-> top, x |-> x, y |-> y, starts |-> starts],
               x2, starts2)
           = [rows |-> rows, top |-> top, x |-> x2, y |-> y, starts |-> starts2]
<1> DEFINE r == [rows |-> rows, top |-> top, x |-> x, y |-> y, starts |-> starts]
           q == [r EXCEPT !.x = x2, !.starts = starts2]
<1>1. /\ q.rows = rows /\ q.top = top /\ q.x = x2 /\ q.y = y /\ q.starts = starts2
      /\ q \in [rows : {rows}, top : {top}, x : {x2}, y : {y}, starts : {starts2}]
  OBVIOUS
<1> HIDE DEF q
<1>2. q = [rows |-> rows, top |-> top, x |-> x2, y |-> y, starts |-> starts2]
  BY <1>1
<1> QED BY <1>2 DEF q, Moved
LEMMA RoomShown ==
  ASSUME Wide = {}, NarrowPages, NEW fits \in BOOLEAN, cells \in Sizes, attrs \in Attributes,
         NEW p \in PendingSettled(fits), NEW insert \in BOOLEAN, NEW wrap \in BOOLEAN
  PROVE  /\ MakeRoom(p, insert, wrap) \in PendingSettled(fits)
         /\ Shows(MakeRoom(p, insert, wrap), insert) = Shown!RoomFor(Shows(p, insert), wrap)
<1> DEFINE s == AfterFlush(p, insert)
           there == [s EXCEPT !.x = cells.columns - 1]
           q == MakeRoom(p, insert, wrap)
           shown == Shows(p, insert)
           fragment == p.fragment = <<>>
<1>1. /\ s \in StatesSettled(fits)
      /\ s.x = p.state.x + Len(p.fragment)
      /\ p.fragment \in Seq(Characters)
  BY FlushIs
<1>2. TextWidth(p.fragment) = Len(p.fragment)
  BY <1>1, WidthOfText
<1>3. cells.columns \in Nat /\ cells.columns > 0 /\ cells.columns - 1 \in Nat
      /\ cells.columns - 1 <= MaxBlanks
  BY SizesAssumption, BlanksAssumption DEF NarrowPages
<1>4. q = IF s.x < cells.columns THEN p
          ELSE Pending(IF wrap THEN AfterNewLine(s) ELSE there, <<>>)
  BY <1>1, <1>2 DEF MakeRoom
<1>5. shown = View(s, fragment)
  BY DEF Shows
<1>6. s.x \in Nat
  BY <1>1, StateParts
<1> HIDE DEF s, q, shown, fragment
<1>7. shown.x = s.x
  BY <1>5 DEF View
<1>8. CASE s.x < cells.columns
  <2>1. q = p
    BY <1>4, <1>8
  <2>2. Shown!RoomFor(shown, wrap) = shown
    <3>1. shown.x < cells.columns /\ ~(shown.x >= cells.columns)
      BY <1>3, <1>6, <1>7, <1>8
    <3> QED BY <3>1 DEF Shown!RoomFor
  <2> QED BY <2>1, <2>2 DEF q, shown
<1>9. CASE ~(s.x < cells.columns) /\ wrap
  <2>1. q = Pending(AfterNewLine(s), <<>>)
    BY <1>4, <1>9
  <2>2. shown.x >= cells.columns /\ ~(shown.x < cells.columns)
    BY <1>3, <1>6, <1>7, <1>9
  <2>3. Shown!RoomFor(shown, wrap) = Shown!ToNewLine(shown)
    BY <2>2, <1>9 DEF Shown!RoomFor
  <2>4. /\ AfterNewLine(s) \in StatesSettled(fits)
        /\ View(AfterNewLine(s), TRUE) = Shown!ToNewLine(View(s, fragment))
    BY <1>1, ViewNewLine
  <2>5. /\ Pending(AfterNewLine(s), <<>>) \in PendingSettled(fits)
        /\ Shows(Pending(AfterNewLine(s), <<>>), insert) = View(AfterNewLine(s), TRUE)
    BY <2>4, NothingPending
  <2> QED BY <2>1, <2>3, <2>4, <2>5, <1>5 DEF q, shown
<1>10. CASE ~(s.x < cells.columns) /\ ~wrap
  <2>1. q = Pending(there, <<>>)
    BY <1>4, <1>10
  <2>2. Shown!RoomFor(shown, wrap) = [shown EXCEPT !.x = cells.columns - 1, !.starts = TRUE]
    <3>1. ~(shown.x < cells.columns)
      BY <1>7, <1>10
    <3> QED BY <3>1, <1>10 DEF Shown!RoomFor
  <2>3. there \in StatesSettled(fits)
    BY <1>1, <1>3 DEF StatesSettled, StatesOf
  <2>4. View(there, TRUE) = [shown EXCEPT !.x = cells.columns - 1, !.starts = TRUE]
    <3>1. s \in StatesOf(1, fits)
      BY <1>1, StateParts
    <3>2. /\ there.buffer = s.buffer /\ there.offset = s.offset /\ there.y = s.y
          /\ there.x = cells.columns - 1
      BY <3>1 DEF StatesOf
    <3> HIDE DEF there
    <3>3. View(there, TRUE)
            = [rows |-> ShownRows(s.buffer), top |-> s.offset, x |-> cells.columns - 1,
               y |-> s.y, starts |-> TRUE]
      BY <3>2 DEF View
    <3>4. shown = [rows |-> ShownRows(s.buffer), top |-> s.offset, x |-> s.x,
                   y |-> s.y, starts |-> fragment]
      BY <1>5 DEF View
    <3>5. Moved([rows |-> ShownRows(s.buffer), top |-> s.offset, x |-> s.x,
                 y |-> s.y, starts |-> fragment], cells.columns - 1, TRUE)
            = [rows |-> ShownRows(s.buffer), top |-> s.offset, x |-> cells.columns - 1,
               y |-> s.y, starts |-> TRUE]
      <4> DEFINE rows == ShownRows(s.buffer)
                 top == s.offset
                 before == s.x
                 after == cells.columns - 1
                 row == s.y
                 yes == TRUE
      <4> HIDE DEF rows, top, before, after, row, yes
      <4>1. Moved([rows |-> rows, top |-> top, x |-> before, y |-> row, starts |-> fragment],
                  after, yes)
              = [rows |-> rows, top |-> top, x |-> after, y |-> row, starts |-> yes]
        BY RecordMoved
      <4> QED BY <4>1 DEF rows, top, before, after, row, yes
    <3>6. [shown EXCEPT !.x = cells.columns - 1, !.starts = TRUE]
            = Moved(shown, cells.columns - 1, TRUE)
      BY DEF Moved
    <3> QED BY <3>3, <3>4, <3>5, <3>6, Zenon
  <2> HIDE DEF there
  <2>5. /\ Pending(there, <<>>) \in PendingSettled(fits)
        /\ Shows(Pending(there, <<>>), insert) = View(there, TRUE)
    BY <2>3, NothingPending
  <2> QED BY <2>1, <2>2, <2>4, <2>5 DEF q, shown
<1> QED BY <1>8, <1>9, <1>10

(* A character is put where there is room for it. *)
LEMMA CharShown ==
  ASSUME Wide = {}, NarrowPages, NEW fits \in BOOLEAN, cells \in Sizes, attrs \in Attributes,
         NEW p \in PendingSettled(fits), NEW char \in Characters,
         NEW insert \in BOOLEAN, NEW wrap \in BOOLEAN,
         p.state.x + TextWidth(p.fragment) < cells.columns
  PROVE  /\ Put(p, char, wrap) \in PendingSettled(fits)
         /\ Shows(Put(p, char, wrap), insert) = Shown!Written(Shows(p, insert), char, insert, wrap)
<1> DEFINE s == p.state
           text == p.fragment
           lines == s.buffer
           at == LineAt(s)
           line == lines[at]
           old == LineWith(line, s.x, text, attrs, insert)
           stays == ~wrap /\ text = <<>> /\ s.x = cells.columns - 1
           shown == Shows(p, insert)
           row == ShownRow(old)
           cell == Shown!Cell(char, Effective(attrs))
           q == Put(p, char, wrap)
           n == Len(text)
<1>1. /\ s \in StatesSettled(fits) /\ text \in Seq(Characters)
      /\ old \in LinesOf(1) /\ Settled(old)
      /\ AfterFlush(p, insert) = State([lines EXCEPT ![at] = old], s.offset, s.x + n, s.y)
  BY FlushIs
<1>2. /\ s \in StatesOf(1, fits) /\ lines \in LinesSettled
      /\ s.offset \in Nat /\ s.x \in Nat /\ s.y \in Nat /\ s.x <= MaxBlanks
      /\ at \in 1 .. Len(lines)
      /\ line \in LinesOf(1) /\ Settled(line)
  BY <1>1, StateParts
<1>3. n \in Nat
  BY <1>1
<1>4. q = IF stays THEN Pending([s EXCEPT !.buffer = AddedAt(s, <<char>>, FALSE)], <<>>)
          ELSE Pending(s, Append(text, char))
  BY DEF Put
<1>5. q \in PendingOf(1, fits)
  <2>1. p \in PendingOf(1, fits)
    BY DEF PendingSettled
  <2> QED BY <2>1, PutKeeps
<1> DEFINE rows == [ShownRows(lines) EXCEPT ![at] = row]
<1> HIDE DEF s, text, q
<1>6. /\ ShownRows([lines EXCEPT ![at] = old]) = rows
      /\ [lines EXCEPT ![at] = old] \in LinesSettled
  <2> HIDE DEF lines, at, old
  <2> QED BY <1>1, <1>2, LineChanged
<1>7. /\ shown.rows = rows /\ shown.top = s.offset /\ shown.x = s.x + n /\ shown.y = s.y
      /\ shown = [rows |-> rows, top |-> s.offset, x |-> s.x + n, y |-> s.y,
                  starts |-> text = <<>>]
  <2> DEFINE b == [lines EXCEPT ![at] = old]
             f == AfterFlush(p, insert)
  <2>1. f = State(b, s.offset, s.x + n, s.y)
    BY <1>1
  <2>2. ShownRows(b) = rows
    BY <1>6
  <2>3. shown = View(f, text = <<>>)
    BY DEF Shows, text
  <2> HIDE DEF f, b, rows, shown
  <2>4. f.buffer = b /\ f.offset = s.offset /\ f.x = s.x + n /\ f.y = s.y
    BY <2>1 DEF State
  <2> HIDE DEF n
  <2>5. shown = [rows |-> rows, top |-> s.offset, x |-> s.x + n, y |-> s.y,
                 starts |-> text = <<>>]
    BY <2>2, <2>3, <2>4 DEF View
  <2> QED BY <2>5
<1>8. Shown!Current(shown) = at
  BY <1>7 DEF Shown!Current, at, LineAt
<1>9. rows[at] = row
  <2>1. DOMAIN ShownRows(lines) = 1 .. Len(lines)
    BY <1>2, ShownRowsOf
  <2> HIDE DEF row, lines, at
  <2> QED BY <2>1, <1>2
<1>10. stays => n = 0 /\ old = line
  BY <1>1 DEF LineWith
<1>11. stays <=> ~wrap /\ shown.starts /\ shown.x = cells.columns - 1
  <2>1. shown.starts <=> text = <<>>
    <3> DEFINE starts == text = <<>>
    <3>1. shown = [rows |-> rows, top |-> s.offset, x |-> s.x + n, y |-> s.y,
                   starts |-> starts]
      BY <1>7
    <3> HIDE DEF starts, shown
    <3>2. shown.starts = starts
      BY <3>1
    <3> QED BY <3>2, Zenon DEF starts
  <2>2. text = <<>> => n = 0
    OBVIOUS
  <2>3. shown.x = s.x + n
    BY <1>7
  <2>4. text = <<>> => shown.x = s.x
    BY <2>2, <2>3, <1>2
  <2> HIDE DEF shown
  <2> QED BY <2>1, <2>4
<1> DEFINE new == IF insert /\ ~stays THEN Shown!Inserted(row, shown.x, cell)
                  ELSE Shown!Replaced(row, shown.x, cell)
           then == Shown!Written(shown, char, insert, wrap)
<1>12. then = IF stays THEN Shown!OnRow(shown, new)
              ELSE [Shown!OnRow(shown, new) EXCEPT !.x = shown.x + 1, !.starts = FALSE]
  <2>1. shown.rows[Shown!Current(shown)] = row
    BY <1>7, <1>8, <1>9
  <2> HIDE DEF shown, row
  <2> QED BY <2>1, <1>11 DEF Shown!Written
<1>13. Shown!OnRow(shown, new)
         = [rows |-> [ShownRows(lines) EXCEPT ![at] = new], top |-> s.offset,
            x |-> s.x + n, y |-> s.y, starts |-> text = <<>>]
  <2>1. [rows EXCEPT ![at] = new] = [ShownRows(lines) EXCEPT ![at] = new]
    <3> DEFINE f == ShownRows(lines)
    <3>1. f = [i \in DOMAIN f |-> f[i]]
      BY DEF ShownRows
    <3> HIDE DEF f, new, row, at
    <3> QED BY <3>1
  <2>2. Shown!OnRow(shown, new) = [shown EXCEPT !.rows = [rows EXCEPT ![at] = new]]
    <3> HIDE DEF new
    <3>1. Shown!OnRow(shown, new) = [shown EXCEPT !.rows[Shown!Current(shown)] = new]
      BY DEF Shown!OnRow
    <3> HIDE DEF shown, rows, at
    <3> QED BY <3>1, <1>7, <1>8
  <2> HIDE DEF new, rows, shown, n
  <2> QED BY <2>1, <2>2, <1>7
<1> HIDE DEF shown, row, new, then, stays
<1>14. CASE stays
  <2> DEFINE later == LineAddText(line, s.x, <<char>>, attrs, FALSE)
             b == [lines EXCEPT ![at] = later]
             t == [s EXCEPT !.buffer = b]
  <2>1. AddedAt(s, <<char>>, FALSE) = b
    BY DEF AddedAt, at, LineAt
  <2>2. q = Pending(t, <<>>)
    BY <1>4, <1>14, <2>1
  <2>3. later \in LinesOf(1) /\ Settled(later)
        /\ ShownRow(later) = Shown!Replaced(ShownRow(line), s.x, cell)
    <3>1. <<>> \in Seq(Characters) /\ Append(<<>>, char) = <<char>> /\ Len(<<>>) = 0
          /\ <<char>> \in Seq(Characters) /\ <<char>> # <<>>
      OBVIOUS
    <3>2. later = LineWith(line, s.x, <<char>>, attrs, FALSE)
          /\ line = LineWith(line, s.x, <<>>, attrs, FALSE)
      BY <3>1 DEF LineWith
    <3>3. later \in LinesOf(1) /\ Settled(later)
      <4> HIDE DEF line, later
      <4> QED BY <3>1, <3>2, <1>2, LineWithLook
    <3>4. ShownRow(LineWith(line, s.x, Append(<<>>, char), attrs, FALSE))
            = Shown!Replaced(ShownRow(LineWith(line, s.x, <<>>, attrs, FALSE)), s.x + 0, cell)
      <4> DEFINE none == <<>>
                 x == s.x
      <4>1. none \in Seq(Characters) /\ Len(none) = 0 /\ x \in Nat /\ x <= MaxBlanks /\ FALSE \in BOOLEAN
        BY <1>2
      <4> HIDE DEF none, line, x, cell
      <4>2. ShownRow(LineWith(line, x, Append(none, char), attrs, FALSE))
              = Shown!Replaced(ShownRow(LineWith(line, x, none, attrs, FALSE)), x + Len(none),
                               Shown!Cell(char, Effective(attrs)))
        <5>1. line \in LinesOf(1)
          BY <1>2
        <5>2. Settled(line)
          BY <1>2
        <5> QED BY <4>1, <5>1, <5>2, OneMoreChar
      <4> QED BY <4>1, <4>2 DEF none, x, cell
    <3>5. s.x + 0 = s.x
      BY <1>2
    <3> HIDE DEF later, line, cell
    <3> QED BY <3>1, <3>2, <3>3, <3>4, <3>5
  <2>4. b \in LinesSettled
        /\ ShownRows(b) = [ShownRows(lines) EXCEPT ![at] = ShownRow(later)]
    <3> HIDE DEF later, lines, at
    <3> QED BY <2>3, <1>2, LineChanged
  <2>5. ShownRow(later) = new
    <3>1. shown.x = s.x
      BY <1>2, <1>7, <1>10, <1>14
    <3>2. row = ShownRow(line)
      BY <1>10, <1>14 DEF row
    <3> QED BY <3>1, <3>2, <2>3, <1>14 DEF new
  <2> HIDE DEF later, b
  <2>6. s \in [buffer : Seq(LinesOf(1)), offset : Nat, x : Nat, y : Nat]
    BY <1>2 DEF StatesOf
  <2>7. t.buffer = b /\ t.offset = s.offset /\ t.x = s.x /\ t.y = s.y
    BY <2>6
  <2>8. q.state = t /\ q.fragment = <<>>
    BY <2>2 DEF Pending
  <2>9. q \in PendingSettled(fits)
    BY <1>5, <2>4, <2>7, <2>8 DEF PendingSettled
  <2>10. Shows(q, insert) = View(t, TRUE)
    <3>1. AfterFlush(q, insert) = t
      BY <2>8 DEF AfterFlush, Flushed
    <3> HIDE DEF t
    <3> QED BY <2>8, <3>1 DEF Shows
  <2> HIDE DEF t
  <2>11. View(t, TRUE)
           = [rows |-> [ShownRows(lines) EXCEPT ![at] = new], top |-> s.offset,
              x |-> s.x, y |-> s.y, starts |-> TRUE]
    <3>1. ShownRows(b) = [ShownRows(lines) EXCEPT ![at] = new]
      BY <2>4, <2>5
    <3> QED BY <3>1, <2>7 DEF View
  <2>12. then = Shown!OnRow(shown, new)
    BY <1>12, <1>14
  <2>13. s.x + n = s.x /\ text = <<>>
    BY <1>2, <1>10, <1>14 DEF stays
  <2> HIDE DEF n
  <2>14. then = View(t, TRUE)
    BY <2>11, <2>12, <2>13, <1>13
  <2> QED BY <2>9, <2>10, <2>14 DEF q, then, shown
<1>15. CASE ~stays
  <2> DEFINE more == Append(text, char)
             later == LineWith(line, s.x, more, attrs, insert)
             b == [lines EXCEPT ![at] = later]
             f == AfterFlush(q, insert)
  <2>1. q = Pending(s, more)
    BY <1>4, <1>15
  <2>2. q.state = s /\ q.fragment = more
    BY <2>1 DEF Pending
  <2>3. more \in Seq(Characters) /\ Len(more) = n + 1 /\ more # <<>>
    BY <1>1
  <2>4. q \in PendingSettled(fits)
    BY <1>2, <1>5, <2>2 DEF PendingSettled
  <2>5. /\ later \in LinesOf(1) /\ Settled(later)
        /\ f = State(b, s.offset, s.x + (n + 1), s.y)
    <3> HIDE DEF more
    <3>1. LET s1 == q.state
              new1 == LineWith(s1.buffer[LineAt(s1)], s1.x, q.fragment, attrs, insert)
          IN /\ new1 \in LinesOf(1) /\ Settled(new1)
             /\ AfterFlush(q, insert) = State([s1.buffer EXCEPT ![LineAt(s1)] = new1],
                                              s1.offset, s1.x + Len(q.fragment), s1.y)
      BY <2>4, FlushIs
    <3> QED BY <3>1, <2>2, <2>3
  <2>6. ShownRow(later) = new
    <3>1. ShownRow(later) = IF insert THEN Shown!Inserted(ShownRow(old), s.x + n, cell)
                            ELSE Shown!Replaced(ShownRow(old), s.x + n, cell)
      <4> DEFINE x == s.x
      <4>1. x \in Nat /\ x <= MaxBlanks /\ line \in LinesOf(1) /\ Settled(line)
        BY <1>2
      <4> HIDE DEF line, x
      <4>2. text \in Seq(Characters)
        BY <1>1
      <4>3. ShownRow(LineWith(line, x, Append(text, char), attrs, insert))
              = IF insert
                THEN Shown!Inserted(ShownRow(LineWith(line, x, text, attrs, insert)),
                                    x + Len(text), Shown!Cell(char, Effective(attrs)))
                ELSE Shown!Replaced(ShownRow(LineWith(line, x, text, attrs, insert)),
                                    x + Len(text), Shown!Cell(char, Effective(attrs)))
        BY <4>1, <4>2, OneMoreChar
      <4> QED BY <4>3 DEF line, x
    <3>2. shown.x = s.x + n
      BY <1>7
    <3> HIDE DEF old, n, later
    <3> QED BY <3>1, <3>2, <1>15 DEF new, row
  <2>7. ShownRows(b) = [ShownRows(lines) EXCEPT ![at] = ShownRow(later)]
    <3> HIDE DEF later, lines, at
    <3> QED BY <2>5, <1>2, LineChanged
  <2> HIDE DEF later, b, f, more
  <2>8. f.buffer = b /\ f.offset = s.offset /\ f.x = s.x + (n + 1) /\ f.y = s.y
    BY <2>5 DEF State
  <2>9. Shows(q, insert) = View(f, FALSE)
    BY <2>2, <2>3 DEF Shows, f
  <2>10. View(f, FALSE)
           = [rows |-> [ShownRows(lines) EXCEPT ![at] = new], top |-> s.offset,
              x |-> s.x + (n + 1), y |-> s.y, starts |-> FALSE]
    BY <2>6, <2>7, <2>8 DEF View
  <2>11. then = [Shown!OnRow(shown, new) EXCEPT !.x = shown.x + 1, !.starts = FALSE]
    BY <1>12, <1>15
  <2>12. shown.x + 1 = s.x + (n + 1)
    BY <1>2, <1>3, <1>7
  <2> HIDE DEF n
  <2>13. then = View(f, FALSE)
    <3> DEFINE starts == text = <<>>
               changed == [ShownRows(lines) EXCEPT ![at] = new]
               r == Shown!OnRow(shown, new)
    <3>1. r = [rows |-> changed, top |-> s.offset, x |-> s.x + n, y |-> s.y, starts |-> starts]
      BY <1>13
    <3>2. then = Moved(r, s.x + (n + 1), FALSE)
      BY <2>11, <2>12 DEF Moved
    <3>3. View(f, FALSE) = [rows |-> changed, top |-> s.offset, x |-> s.x + (n + 1),
                            y |-> s.y, starts |-> FALSE]
      BY <2>10
    <3> HIDE DEF starts, r, changed
    <3>4. Moved([rows |-> changed, top |-> s.offset, x |-> s.x + n, y |-> s.y,
                 starts |-> starts], s.x + (n + 1), FALSE)
            = [rows |-> changed, top |-> s.offset, x |-> s.x + (n + 1),
               y |-> s.y, starts |-> FALSE]
      <4> DEFINE top == s.offset
                 before == s.x + n
                 after == s.x + (n + 1)
                 down == s.y
                 no == FALSE
      <4> HIDE DEF top, before, after, down, no
      <4>1. Moved([rows |-> changed, top |-> top, x |-> before, y |-> down, starts |-> starts],
                  after, no)
              = [rows |-> changed, top |-> top, x |-> after, y |-> down, starts |-> no]
        BY RecordMoved
      <4> QED BY <4>1 DEF top, before, after, down, no
    <3> QED BY <3>1, <3>2, <3>3, <3>4, Zenon
  <2> QED BY <2>4, <2>9, <2>13 DEF q, then, shown
<1> QED BY <1>14, <1>15

(* What Screen does for a character *)
CharTyped(t, char, insert, wrap) ==
  IF char = NewLine THEN Shown!ToNewLine(t)
  ELSE Shown!Written(Shown!RoomFor(t, wrap), char, insert, wrap)

InText == Characters \cup {NewLine}

LEMMA OneCharShown ==
  ASSUME Wide = {}, NarrowPages, NEW fits \in BOOLEAN, cells \in Sizes, attrs \in Attributes,
         NEW p \in PendingSettled(fits), NEW char \in InText,
         NEW insert \in BOOLEAN, NEW wrap \in BOOLEAN
  PROVE  /\ CharAdded(p, char, insert, wrap) \in PendingSettled(fits)
         /\ Shows(CharAdded(p, char, insert, wrap), insert)
              = CharTyped(Shows(p, insert), char, insert, wrap)
<1>1. CASE char = NewLine
  <2> DEFINE s == AfterFlush(p, insert)
  <2>1. s \in StatesSettled(fits)
    BY FlushIs
  <2>2. Shows(p, insert) = View(s, p.fragment = <<>>)
    BY DEF Shows
  <2>3. CharAdded(p, char, insert, wrap) = Pending(AfterNewLine(s), <<>>)
    BY <1>1 DEF CharAdded
  <2> DEFINE starts == p.fragment = <<>>
  <2> HIDE DEF s, starts
  <2>4. /\ AfterNewLine(s) \in StatesSettled(fits)
        /\ View(AfterNewLine(s), TRUE) = Shown!ToNewLine(View(s, starts))
    BY <2>1, ViewNewLine
  <2>5. /\ Pending(AfterNewLine(s), <<>>) \in PendingSettled(fits)
        /\ Shows(Pending(AfterNewLine(s), <<>>), insert) = View(AfterNewLine(s), TRUE)
    BY <2>4, NothingPending
  <2> QED BY <2>2, <2>3, <2>4, <2>5, <1>1 DEF starts, CharTyped
<1>2. CASE char # NewLine
  <2> DEFINE q == MakeRoom(p, insert, wrap)
  <2>1. q \in PendingSettled(fits) /\ Shows(q, insert) = Shown!RoomFor(Shows(p, insert), wrap)
    BY RoomShown
  <2>2. q.state.x + TextWidth(q.fragment) < cells.columns
    <3>1. p \in PendingOf(1, fits)
      BY DEF PendingSettled
    <3> QED BY <3>1, MakeRoomKeeps
  <2>3. CharAdded(p, char, insert, wrap) = Put(q, char, wrap)
    BY <1>2 DEF CharAdded
  <2>4. char \in Characters
    BY <1>2 DEF InText
  <2> HIDE DEF q
  <2>5. /\ Put(q, char, wrap) \in PendingSettled(fits)
        /\ Shows(Put(q, char, wrap), insert) = Shown!Written(Shows(q, insert), char, insert, wrap)
    BY <2>1, <2>2, <2>4, CharShown
  <2> QED BY <2>1, <2>3, <2>5, <1>2 DEF CharTyped
<1> QED BY <1>1, <1>2

LEMMA TextShown ==
  ASSUME Wide = {}, NarrowPages, NEW fits \in BOOLEAN, cells \in Sizes, attrs \in Attributes,
         Now \in StatesSettled(fits),
         NEW text \in Seq(Characters \cup {NewLine}),
         NEW insert \in BOOLEAN, NEW wrap \in BOOLEAN
  PROVE  LET s == TextAdded(text, insert, wrap)
             typed == Shown!Typed(text, insert, wrap)
         IN /\ s \in StatesSettled(fits)
            /\ \E starts : typed = View(s, starts)
<1> DEFINE N == Len(text)
           S == PendingSettled(fits)
           first == Pending(Now, <<>>)
           Is(f) == f = [n \in 0 .. N |->
                           IF n = 0 THEN Pending(Now, <<>>)
                           ELSE CharAdded(f[n - 1], text[n], insert, wrap)]
           step == [n \in 1 .. N |-> [p \in S |-> CharAdded(p, text[n], insert, wrap)]]
           f == CHOOSE f : Is(f)
           Types(t, char) == CharTyped(t, char, insert, wrap)
           Also(g) == g = [n \in 0 .. N |->
                             IF n = 0 THEN Shown!Now
                             ELSE IF text[n] = NewLine THEN Shown!ToNewLine(g[n - 1])
                             ELSE Shown!Written(Shown!RoomFor(g[n - 1], wrap), text[n],
                                                insert, wrap)]
           h == CHOOSE g : Also(g)
<1>1. N \in Nat /\ \A n \in 1 .. N : text[n] \in Characters \cup {NewLine}
  OBVIOUS
<1>2. ASSUME NEW n \in 1 .. N, NEW p \in S
      PROVE  /\ CharAdded(p, text[n], insert, wrap) \in S
             /\ Shows(CharAdded(p, text[n], insert, wrap), insert)
                  = Types(Shows(p, insert), text[n])
  <2> DEFINE char == text[n]
  <2>1. char \in InText
    BY <1>1 DEF InText
  <2> HIDE DEF char, S, N
  <2>2. p \in PendingSettled(fits)
    BY DEF S
  <2>3. /\ CharAdded(p, char, insert, wrap) \in PendingSettled(fits)
        /\ Shows(CharAdded(p, char, insert, wrap), insert)
             = CharTyped(Shows(p, insert), char, insert, wrap)
    BY <2>1, <2>2, OneCharShown
  <2> QED BY <2>3 DEF char, S
<1>3. first \in S /\ Shows(first, insert) = View(Now, TRUE)
  BY NothingPending
<1>4. View(Now, TRUE) = Shown!Now
  <2>1. /\ Now.buffer = buffer /\ Now.offset = offset
        /\ Now.x = cursor.x /\ Now.y = cursor.y
    BY DEF Now, State
  <2> QED BY <2>1 DEF View, ShownRows, Shown!Now
<1> HIDE DEF N, S
<1>5. step \in [1 .. N -> [S -> S]]
  BY <1>2
<1>6. \E g : Is(g)
  <2> HIDE DEF step, first
  <2>1. PICK g \in [0 .. N -> S] : Builds(g, N, first, step)
    BY <1>1, <1>3, <1>5, Recursion
  <2>2. ASSUME NEW n \in 1 .. N
        PROVE  g[n] = CharAdded(g[n - 1], text[n], insert, wrap)
    <3>1. g[n - 1] \in S
      BY <1>1
    <3>2. step[n][g[n - 1]] = CharAdded(g[n - 1], text[n], insert, wrap)
      BY <3>1 DEF step
    <3> QED BY <2>1, <3>2 DEF Builds
  <2>3. ASSUME NEW n \in 0 .. N
        PROVE  g[n] = IF n = 0 THEN Pending(Now, <<>>)
                      ELSE CharAdded(g[n - 1], text[n], insert, wrap)
    <3>1. CASE n = 0
      BY <2>1, <3>1 DEF Builds, first
    <3>2. CASE n # 0
      <4>1. n \in 1 .. N
        BY <3>2, <1>1
      <4> QED BY <4>1, <2>2, <3>2
    <3> QED BY <3>1, <3>2
  <2>4. Is(g)
    BY <2>3
  <2> QED BY <2>4
<1>7. Is(f)
  <2> HIDE DEF Is
  <2> QED BY <1>6
<1>8. TextAdded(text, insert, wrap) = AfterFlush(f[N], insert)
  BY DEF TextAdded, N
<1> HIDE DEF f
<1>9. f[0] \in S /\ Shows(f[0], insert) = Shown!Now
  <2>1. f[0] = first
    BY <1>1, <1>7
  <2> HIDE DEF first
  <2> QED BY <2>1, <1>3, <1>4
<1>10. \A n \in 1 .. N : f[n] = CharAdded(f[n - 1], text[n], insert, wrap)
  <2>1. ASSUME NEW n \in 1 .. N PROVE f[n] = CharAdded(f[n - 1], text[n], insert, wrap)
    <3>1. n \in 0 .. N /\ n # 0
      BY <1>1
    <3> QED BY <3>1, <1>7
  <2> QED BY <2>1
<1>11. \A n \in 0 .. N : f[n] \in S
  <2>1. ASSUME NEW n \in 1 .. N, f[n - 1] \in S PROVE f[n] \in S
    BY <2>1, <1>2, <1>10
  <2> QED BY <2>1, <1>1, <1>9, StaysIn
(* What the fragments show is what Screen types. *)
<1> HIDE DEF Types
<1> DEFINE shows == [n \in 0 .. N |-> Shows(f[n], insert)]
<1>12. ASSUME NEW n \in 1 .. N PROVE Shows(f[n], insert) = Types(Shows(f[n - 1], insert), text[n])
  <2>1. f[n - 1] \in S
    BY <1>1, <1>11
  <2> QED BY <2>1, <1>2, <1>10
<1>13. Also(shows)
  <2>1. ASSUME NEW n \in 0 .. N
        PROVE  shows[n] = IF n = 0 THEN Shown!Now ELSE Types(shows[n - 1], text[n])
    <3>1. CASE n = 0
      BY <3>1, <1>9
    <3>2. CASE n # 0
      <4>1. n \in 1 .. N /\ n - 1 \in 0 .. N
        BY <3>2, <1>1
      <4>2. shows[n] = Shows(f[n], insert) /\ shows[n - 1] = Shows(f[n - 1], insert)
        BY <4>1
      <4> QED BY <3>2, <4>1, <4>2, <1>12
    <3> QED BY <3>1, <3>2
  <2>2. shows = [n \in 0 .. N |-> shows[n]]
    OBVIOUS
  <2> HIDE DEF shows
  <2>3. shows = [n \in 0 .. N |-> IF n = 0 THEN Shown!Now ELSE Types(shows[n - 1], text[n])]
    BY <2>1, <2>2
  <2> QED BY <2>3 DEF Types, CharTyped
<1>14. Also(h)
  <2>1. \E g : Also(g)
    BY <1>13
  <2> HIDE DEF Also
  <2> QED BY <2>1
<1>15. Shown!Typed(text, insert, wrap) = h[N]
  BY DEF Shown!Typed, N
<1> HIDE DEF h, shows
<1>16. h[0] = Shown!Now /\ \A n \in 1 .. N : h[n] = Types(h[n - 1], text[n])
  <2>1. h[0] = Shown!Now
    BY <1>1, <1>14
  <2>2. ASSUME NEW n \in 1 .. N PROVE h[n] = Types(h[n - 1], text[n])
    <3>1. n \in 0 .. N /\ n # 0
      BY <1>1
    <3> QED BY <3>1, <1>14 DEF Types, CharTyped
  <2> QED BY <2>1, <2>2
<1> DEFINE A == {n \in 0 .. N : h[n] = Shows(f[n], insert)}
<1>17. 0 \in A
  BY <1>1, <1>9, <1>16
<1>18. ASSUME NEW n \in 1 .. N, n - 1 \in A PROVE n \in A
  <2>1. h[n - 1] = Shows(f[n - 1], insert)
    BY <1>18
  <2>2. h[n] = Shows(f[n], insert)
    BY <2>1, <1>12, <1>16
  <2>3. n \in 0 .. N
    BY <1>1
  <2> QED BY <2>2, <2>3
<1>19. \A n \in 0 .. N : n \in A
  <2> HIDE DEF A
  <2> QED BY <1>1, <1>17, <1>18, Upwards
<1>20. N \in 0 .. N
  BY <1>1
<1>21. h[N] = Shows(f[N], insert)
  BY <1>19, <1>20
<1>22. AfterFlush(f[N], insert) \in StatesSettled(fits)
  <2> DEFINE p == f[N]
  <2>1. p \in PendingSettled(fits)
    BY <1>11, <1>20 DEF S
  <2> HIDE DEF p
  <2>2. AfterFlush(p, insert) \in StatesSettled(fits)
    BY <2>1, FlushIs
  <2> QED BY <2>2 DEF p
<1>23. h[N] = View(AfterFlush(f[N], insert), f[N].fragment = <<>>)
  BY <1>21 DEF Shows
<1> QED BY <1>8, <1>15, <1>22, <1>23

-----------------------------------------------------------------------------
(* Every call is one of Screen.                                            *)

(* What is known of the buffer while no other was set *)
ScreenSound == PageSound(1) /\ buffer \in LinesSettled

LEMMA LineOfCursor ==
  ASSUME ScreenSound, LineExists
  PROVE  /\ Now \in StatesSettled(~shrunk /\ ~switched)
         /\ CurrentLine \in 1 .. Len(buffer)
         /\ buffer[CurrentLine] \in LinesOf(1) /\ Settled(buffer[CurrentLine])
         /\ Shown!Current(Shown!Now) = CurrentLine
         /\ Shown!CurrentRow = ShownRow(buffer[CurrentLine])
<1>1. /\ Now \in StatesOf(1, ~shrunk /\ ~switched)
      /\ CurrentLine \in 1 .. Len(buffer)
      /\ buffer[CurrentLine] \in LinesOf(1)
  BY NowSound DEF ScreenSound
<1>2. Now \in StatesSettled(~shrunk /\ ~switched)
  <2>1. Now.buffer = buffer
    BY DEF Now, State
  <2> QED BY <2>1, <1>1 DEF StatesSettled, ScreenSound
<1>3. Settled(buffer[CurrentLine])
  BY <1>1, ShownRowsOf DEF ScreenSound
<1>4. Shown!Current(Shown!Now) = CurrentLine
  BY DEF Shown!Current, Shown!Now, CurrentLine
<1>5. CurrentLine \in DOMAIN buffer
  BY DEF LineExists
<1>6. Shown!CurrentRow = ShownRow(buffer[CurrentLine])
  BY <1>4, <1>5 DEF Shown!CurrentRow
<1> QED BY <1>1, <1>2, <1>3, <1>4, <1>6

LEMMA ChangeLineShown ==
  ASSUME ScreenSound, NEW line \in LinesOf(1), Settled(line), ChangeLine(line)
  PROVE  buffer' \in LinesSettled /\ Shown!ChangeRow(ShownRow(line))
<1>1. LineExists /\ buffer' = [buffer EXCEPT ![CurrentLine] = line]
  BY DEF ChangeLine
<1>2. CurrentLine \in 1 .. Len(buffer) /\ Shown!Current(Shown!Now) = CurrentLine
  BY <1>1, LineOfCursor
<1>3. /\ [buffer EXCEPT ![CurrentLine] = line] \in LinesSettled
      /\ ShownRows([buffer EXCEPT ![CurrentLine] = line])
           = [ShownRows(buffer) EXCEPT ![CurrentLine] = ShownRow(line)]
  BY <1>2, LineChanged DEF ScreenSound
<1>4. ShownRows(buffer') = [ShownRows(buffer) EXCEPT ![CurrentLine] = ShownRow(line)]
  BY <1>1, <1>3
<1>5. UNCHANGED <<offset, cursor, cells, attrs>>
  BY DEF ChangeLine
<1>6. Shown!ChangeRow(ShownRow(line))
  BY <1>2, <1>4, <1>5 DEF Shown!ChangeRow, ShownRows
<1> QED BY <1>1, <1>3, <1>6

LEMMA AddTextShown ==
  ASSUME Wide = {}, NarrowPages, ScreenSound,
         NEW text \in Texts, NEW insert \in BOOLEAN, NEW wrap \in BOOLEAN,
         AddText(text, insert, wrap)
  PROVE  buffer' \in LinesSettled /\ Shown!AddText(text, insert, wrap)
<1> DEFINE s == TextAdded(text, insert, wrap)
           typed == Shown!Typed(text, insert, wrap)
           fits == ~shrunk /\ ~switched
<1>1. /\ LineExists
      /\ buffer' = s.buffer /\ offset' = s.offset /\ cursor' = At(s.x, s.y)
      /\ UNCHANGED <<cells, attrs>>
      /\ call' = <<"AddText", text, insert, wrap>>
  BY DEF AddText, Called
<1>2. Now \in StatesSettled(fits)
  BY <1>1, LineOfCursor
<1>3. text \in Seq(Characters \cup {NewLine})
  BY TextsAssumption
<1>4. cells \in Sizes /\ attrs \in Attributes
  BY DEF ScreenSound, PageSound
<1>5. fits \in BOOLEAN
  OBVIOUS
<1> HIDE DEF fits
<1>6. s \in StatesSettled(fits) /\ \E starts : typed = View(s, starts)
  BY <1>2, <1>3, <1>4, <1>5, TextShown
<1> HIDE DEF s, typed
<1>7. s.buffer \in LinesSettled
  BY <1>6, StateParts
<1>8. /\ typed.rows = ShownRows(s.buffer) /\ typed.top = s.offset
      /\ typed.x = s.x /\ typed.y = s.y
  BY <1>6 DEF View
<1>9. cursor'.x = s.x /\ cursor'.y = s.y
  BY <1>1 DEF At
<1>10. ShownRows(buffer') = typed.rows
  BY <1>1, <1>8
<1>11. Shown!Become(typed)
  BY <1>1, <1>8, <1>9, <1>10 DEF Shown!Become, ShownRows
<1> QED BY <1>1, <1>7, <1>11 DEF Shown!AddText, typed

LEMMA EraseInLineShown ==
  ASSUME Wide = {}, NarrowPages, ScreenSound, NEW first \in Columns, NEW num \in Columns,
         EraseInLine(first, num)
  PROVE  buffer' \in LinesSettled /\ Shown!EraseInLine(first, num)
<1> DEFINE tooMany == first <= cells.columns /\ num > cells.columns - first
           n == IF tooMany THEN 0 ELSE num
           old == buffer[CurrentLine]
           new == LineEraseText(old, first, n, attrs)
           all == num = 0 \/ (first <= cells.columns /\ first + num > cells.columns)
           row == IF all THEN Shown!ErasedRest(ShownRow(old), first, Effective(attrs))
                  ELSE Shown!Erased(ShownRow(old), first, num, Effective(attrs))
<1>1. /\ ChangeLine(new) /\ LineExists
      /\ call' = <<"EraseInLine", first, num>>
  BY DEF EraseInLine, Called, ChangeLine
<1>2. /\ first \in Nat /\ num \in Nat /\ first <= MaxBlanks
      /\ cells \in Sizes /\ cells.columns \in Nat /\ attrs \in Attributes
  BY BoundsAssumption, BlanksAssumption, SizesAssumption
     DEF Columns, NarrowPages, ScreenSound, PageSound
<1>3. old \in LinesOf(1) /\ Settled(old) /\ Shown!CurrentRow = ShownRow(old)
  BY <1>1, LineOfCursor
<1>4. n \in Nat /\ (n = 0 <=> all) /\ (n # 0 => n = num)
  BY <1>2
<1> HIDE DEF n, old, all
<1>5. new \in LinesOf(1)
  BY <1>2, <1>3, <1>4, LineEraseTextType
<1>6. Settled(new) /\ ShownRow(new) = row
  <2>1. CASE n = 0
    <3>1. Settled(LineEraseText(old, first, 0, attrs))
          /\ ShownRow(LineEraseText(old, first, 0, attrs))
               = Shown!ErasedRest(ShownRow(old), first, Effective(attrs))
      BY <1>2, <1>3, ErasedRestRow
    <3> QED BY <2>1, <3>1, <1>4
  <2>2. CASE n # 0
    <3>1. num # 0
      BY <2>2, <1>4
    <3>2. Settled(LineEraseText(old, first, num, attrs))
          /\ ShownRow(LineEraseText(old, first, num, attrs))
               = Shown!Erased(ShownRow(old), first, num, Effective(attrs))
      BY <3>1, <1>2, <1>3, ErasedRow
    <3> QED BY <2>2, <3>2, <1>4
  <2> QED BY <2>1, <2>2
<1> HIDE DEF new, row
<1>7. buffer' \in LinesSettled /\ Shown!ChangeRow(row)
  BY <1>1, <1>5, <1>6, ChangeLineShown
<1>8. Shown!EraseInLine(first, num)
  BY <1>1, <1>3, <1>7 DEF Shown!EraseInLine, row, all
<1> QED BY <1>7, <1>8

LEMMA DeleteTextShown ==
  ASSUME Wide = {}, NarrowPages, ScreenSound, NEW first \in Columns, NEW num \in Columns,
         DeleteText(first, num)
  PROVE  buffer' \in LinesSettled /\ Shown!DeleteText(first, num)
<1> DEFINE old == buffer[CurrentLine]
           new == LineDeleteText(old, first, num)
<1>1. /\ ChangeLine(new) /\ LineExists
      /\ call' = <<"DeleteText", first, num>>
  BY DEF DeleteText, Called, ChangeLine
<1>2. first \in Nat /\ num \in Nat /\ first <= MaxBlanks
  BY BoundsAssumption, BlanksAssumption DEF Columns, NarrowPages
<1>3. old \in LinesOf(1) /\ Settled(old) /\ Shown!CurrentRow = ShownRow(old)
  BY <1>1, LineOfCursor
<1> HIDE DEF old
<1>4. new \in LinesOf(1)
  BY <1>2, <1>3, LineDeleteTextType
<1>5. Settled(new) /\ ShownRow(new) = Shown!Deleted(ShownRow(old), first, num)
  BY <1>2, <1>3, DeletedRow
<1> HIDE DEF new
<1>6. buffer' \in LinesSettled /\ Shown!ChangeRow(Shown!Deleted(ShownRow(old), first, num))
  BY <1>1, <1>4, <1>5, ChangeLineShown
<1>7. Shown!DeleteText(first, num)
  BY <1>1, <1>3, <1>6 DEF Shown!DeleteText
<1> QED BY <1>6, <1>7

(* The cursor, the attributes and the size *)
LEMMA SetCursorXShown ==
  ASSUME ScreenSound, NEW column \in Columns, SetCursorX(column)
  PROVE  buffer' \in LinesSettled /\ Shown!SetCursorX(column)
<1>1. /\ UNCHANGED <<buffer, offset, cells, attrs>>
      /\ call' = <<"SetCursorX", column>>
      /\ cursor'.x = Lower(column, cells.columns) /\ cursor'.y = cursor.y
  BY DEF SetCursorX, Called, At
<1>2. buffer' \in LinesSettled
  BY <1>1 DEF ScreenSound
<1>3. Shown!SetCursorX(column)
  BY <1>1 DEF Shown!SetCursorX, Lower
<1> QED BY <1>2, <1>3

LEMMA SetAttrsShown ==
  ASSUME ScreenSound, NEW attr \in Pens, SetAttrs(attr)
  PROVE  buffer' \in LinesSettled /\ Shown!SetPen
<1>1. /\ UNCHANGED <<buffer, offset, cursor, cells>>
      /\ call' = <<"SetAttrs">> /\ attrs' = attr
  BY DEF SetAttrs, CalledUncounted
<1>2. buffer' \in LinesSettled
  BY <1>1 DEF ScreenSound
<1>3. Effective(attrs') \in {Effective(a) : a \in Pens}
  BY <1>1
<1>4. Shown!SetPen
  BY <1>1, <1>3 DEF Shown!SetPen
<1> QED BY <1>2, <1>4

LEMMA ResizeShown ==
  ASSUME ScreenSound, NEW s \in Sizes, Resize(s)
  PROVE  buffer' \in LinesSettled /\ Shown!Resize
<1>1. /\ UNCHANGED <<buffer, offset, cursor, attrs>>
      /\ call' = <<"Resize">> /\ cells' = s
  BY DEF Resize, Called
<1>2. buffer' \in LinesSettled
  BY <1>1 DEF ScreenSound
<1>3. Shown!Resize
  BY <1>1 DEF Shown!Resize
<1> QED BY <1>2, <1>3

(* A buffer of one new line *)
LEMMA OneNewLine ==
  /\ <<NewLineOfBuffer>> \in LinesSettled
  /\ ShownRows(<<NewLineOfBuffer>>) = <<Shown!EmptyRow>>
<1> DEFINE none == <<>>
<1>1. none \in LinesSettled
  BY DEF LinesSettled, AllSettled
<1>2. ShownRows(none) = <<>>
  BY DEF ShownRows
<1>3. <<NewLineOfBuffer>> = Append(none, NewLineOfBuffer)
  OBVIOUS
<1>4. Append(<<>>, Shown!EmptyRow) = <<Shown!EmptyRow>>
  OBVIOUS
<1> HIDE DEF none
<1>5. /\ Append(none, NewLineOfBuffer) \in LinesSettled
      /\ ShownRows(Append(none, NewLineOfBuffer)) = Append(ShownRows(none), Shown!EmptyRow)
  BY <1>1, LineAdded
<1> QED BY <1>2, <1>3, <1>4, <1>5

LEMMA EraseBufferShown ==
  ASSUME ScreenSound, EraseBuffer
  PROVE  buffer' \in LinesSettled /\ Shown!EraseBuffer
<1>1. /\ buffer' = <<NewLineOfBuffer>> /\ cursor'.x = 0 /\ cursor'.y = 0 /\ offset' = 0
      /\ UNCHANGED <<cells, attrs>> /\ call' = <<"EraseBuffer">>
  BY DEF EraseBuffer, Called, At
<1>2. ShownRows(buffer') = <<Shown!EmptyRow>>
  BY <1>1, OneNewLine
<1>3. Shown!EraseBuffer
  BY <1>1, <1>2 DEF Shown!EraseBuffer, ShownRows
<1> QED BY <1>1, <1>3, OneNewLine

LEMMA SetBufferShown ==
  ASSUME ScreenSound, SetBuffer
  PROVE  buffer' \in LinesSettled /\ (switched' \/ Shown!SetBuffer)
<1>1. /\ buffer' = <<NewLineOfBuffer>> /\ cursor'.x = 0 /\ cursor'.y = 0
      /\ UNCHANGED <<offset, cells, attrs>> /\ call' = <<"SetBuffer">>
      /\ switched' = (switched \/ offset > 0)
  BY DEF SetBuffer, Called, At
<1>2. ShownRows(buffer') = <<Shown!EmptyRow>>
  BY <1>1, OneNewLine
<1>3. ~switched' => offset' = 0
  <2>1. offset \in Nat
    BY DEF ScreenSound, PageSound
  <2>2. ~switched' => ~(offset > 0)
    BY <1>1, Zenon
  <2>3. offset' = offset
    BY <1>1
  <2>4. ~(offset > 0) => offset = 0
    BY <2>1
  <2> QED BY <2>2, <2>3, <2>4
<1>4. ~switched' => Shown!SetBuffer
  BY <1>1, <1>2, <1>3 DEF Shown!SetBuffer, ShownRows
<1> QED BY <1>1, <1>4, OneNewLine

(* The first lines, and one that is added to them *)
LEMMA LinesCut ==
  ASSUME NEW lines \in LinesSettled, NEW first \in Nat, NEW last \in 0 .. Len(lines),
         first >= 1
  PROVE  /\ SubSeq(lines, first, last) \in LinesSettled
         /\ ShownRows(SubSeq(lines, first, last)) = SubSeq(ShownRows(lines), first, last)
<1> DEFINE part == SubSeq(lines, first, last)
           rows == ShownRows(lines)
           C == {ShownRow(lines[i]) : i \in 1 .. Len(lines)}
           n == Len(lines)
           length == IF first <= last THEN last - first + 1 ELSE 0
<1>1. /\ DOMAIN lines = 1 .. n /\ n \in Nat
      /\ lines \in Seq(LinesOf(1))
      /\ \A i \in 1 .. n : lines[i] \in LinesOf(1) /\ Settled(lines[i])
      /\ DOMAIN rows = 1 .. n
      /\ \A i \in 1 .. n : rows[i] = ShownRow(lines[i])
  BY ShownRowsOf
<1>2. length \in Nat /\ \A i \in 1 .. length : i + first - 1 \in 1 .. n
  BY <1>1
<1>3. /\ part \in Seq(LinesOf(1)) /\ Len(part) = length
      /\ \A i \in 1 .. length : part[i] = lines[i + first - 1]
  <2>1. \A i \in 1 .. length : i + first - 1 = first + i - 1
    BY <1>2
  <2> QED BY <2>1, <1>1, <1>2
<1>4. rows \in Seq(C) /\ Len(rows) = n
  <2>1. rows \in [1 .. n -> C]
    <3>1. \A i \in 1 .. n : rows[i] \in C
      BY <1>1
    <3>2. rows = [i \in 1 .. n |-> rows[i]]
      BY <1>1 DEF ShownRows
    <3> HIDE DEF rows, C
    <3> QED BY <3>1, <3>2
  <2> HIDE DEF rows, C, n
  <2> QED BY <2>1, <1>1, FunctionIsSeq
<1> HIDE DEF n, rows, C, part
<1> DEFINE cut == SubSeq(rows, first, last)
<1>5. /\ cut \in Seq(C) /\ Len(cut) = length
      /\ \A i \in 1 .. length : cut[i] = rows[i + first - 1]
  <2>1. \A i \in 1 .. length : i + first - 1 = first + i - 1
    BY <1>2
  <2>2. last \in 0 .. n
    BY DEF n
  <2> QED BY <2>1, <2>2, <1>1, <1>2, <1>4
<1>6. part \in LinesSettled
  <2>1. \A i \in 1 .. Len(part) : Settled(part[i])
    BY <1>1, <1>2, <1>3
  <2> QED BY <2>1, <1>3, LinesIn
<1>7. /\ DOMAIN ShownRows(part) = 1 .. length
      /\ \A i \in 1 .. length : ShownRows(part)[i] = ShownRow(part[i])
  BY <1>3, <1>6, ShownRowsOf
<1> HIDE DEF cut, length
<1>8. ASSUME NEW i \in 1 .. length PROVE ShownRows(part)[i] = cut[i]
  BY <1>1, <1>2, <1>3, <1>5, <1>7
<1>9. ShownRows(part) = [i \in 1 .. length |-> ShownRows(part)[i]]
  BY <1>7 DEF ShownRows
<1>10. cut = [i \in 1 .. length |-> cut[i]]
  BY <1>5
<1>11. ShownRows(part) = cut
  BY <1>8, <1>9, <1>10
<1> QED BY <1>6, <1>11 DEF part, rows, cut

LEMMA ErasePageShown ==
  ASSUME ScreenSound, ErasePage
  PROVE  buffer' \in LinesSettled /\ Shown!ErasePage
<1> DEFINE kept == SubSeq(buffer, 1, offset)
<1>1. /\ offset <= Len(buffer) /\ buffer' = Append(kept, NewLineOfBuffer)
      /\ cursor'.x = 0 /\ cursor'.y = 0
      /\ UNCHANGED <<offset, cells, attrs>> /\ call' = <<"ErasePage">>
  BY DEF ErasePage, Called, At
<1>2. buffer \in LinesSettled /\ offset \in 0 .. Len(buffer)
  BY <1>1 DEF ScreenSound, PageSound, LinesSettled
<1>3. kept \in LinesSettled /\ ShownRows(kept) = SubSeq(ShownRows(buffer), 1, offset)
  <2> DEFINE one == 1
  <2>1. one \in Nat /\ one >= 1
    OBVIOUS
  <2> HIDE DEF one
  <2>2. /\ SubSeq(buffer, one, offset) \in LinesSettled
        /\ ShownRows(SubSeq(buffer, one, offset)) = SubSeq(ShownRows(buffer), one, offset)
    BY <2>1, <1>2, LinesCut
  <2> QED BY <2>2 DEF one
<1> HIDE DEF kept
<1>4. /\ Append(kept, NewLineOfBuffer) \in LinesSettled
      /\ ShownRows(Append(kept, NewLineOfBuffer)) = Append(ShownRows(kept), Shown!EmptyRow)
  BY <1>3, LineAdded
<1>5. ShownRows(buffer') = Append(SubSeq(ShownRows(buffer), 1, offset), Shown!EmptyRow)
  BY <1>1, <1>3, <1>4
<1>6. Shown!ErasePage
  BY <1>1, <1>5 DEF Shown!ErasePage, ShownRows
<1> QED BY <1>1, <1>4, <1>6

LEMMA EraseScrollbackShown ==
  ASSUME ScreenSound, EraseScrollback
  PROVE  buffer' \in LinesSettled /\ Shown!EraseScrollback
<1> DEFINE n == Len(buffer)
<1>1. /\ offset <= n /\ buffer' = SubSeq(buffer, offset + 1, n)
      /\ offset' = 0
      /\ UNCHANGED <<cursor, cells, attrs>> /\ call' = <<"EraseScrollback">>
  BY DEF EraseScrollback, Called
<1>2. buffer \in LinesSettled /\ offset \in Nat
  BY DEF ScreenSound, PageSound
<1>3. n \in 0 .. Len(buffer)
  BY <1>2 DEF LinesSettled
<1>4. offset + 1 \in Nat /\ offset + 1 >= 1
  BY <1>2
<1> HIDE DEF n
<1>5. /\ SubSeq(buffer, offset + 1, n) \in LinesSettled
      /\ ShownRows(SubSeq(buffer, offset + 1, n)) = SubSeq(ShownRows(buffer), offset + 1, n)
  BY <1>2, <1>3, <1>4, LinesCut
<1>6. Len(ShownRows(buffer)) = n
  <2>1. DOMAIN ShownRows(buffer) = 1 .. Len(buffer) /\ Len(buffer) \in Nat
    BY <1>2, ShownRowsOf
  <2> QED BY <2>1 DEF n
<1>7. ShownRows(buffer')
        = SubSeq(ShownRows(buffer), offset + 1, Len(ShownRows(buffer)))
  BY <1>1, <1>5, <1>6
<1>8. Shown!EraseScrollback
  BY <1>1, <1>7 DEF Shown!EraseScrollback, ShownRows
<1> QED BY <1>1, <1>5, <1>8

(* The rest of the page is blank. *)
LEMMA PageBlankRow ==
  ASSUME NEW line \in LinesOf(1), Settled(line)
  PROVE  LET new == [line EXCEPT !.page = TRUE]
         IN /\ new \in LinesOf(1) /\ Settled(new)
            /\ ShownRow(new) = [ShownRow(line) EXCEPT !.pageBlank = TRUE]
<1> DEFINE new == [line EXCEPT !.page = TRUE]
           picture == Picture(line.content, NoAttributes)
           rest == RestOf(line)
<1>1. /\ new \in LinesOf(1) /\ new.content = line.content /\ new.blank = line.blank
      /\ new.page = TRUE
  BY DEF LinesOf
<1> HIDE DEF new
<1>2. RestOf(new) = rest /\ Picture(new.content, NoAttributes) = picture
  BY <1>1 DEF RestOf
<1>3. Settled(new)
  BY <1>1, <1>2 DEF Settled
<1>4. ShownRow(line) = Rows!Row(picture, rest, line.page)
  BY LineShown
<1>5. ShownRow(new) = Rows!Row(picture, rest, new.page)
  <2>1. ShownRow(new) = Rows!Row(Picture(new.content, NoAttributes), RestOf(new), new.page)
    BY <1>1, <1>3, LineShown
  <2> QED BY <2>1, <1>2
<1> HIDE DEF picture, rest
<1>6. [Rows!Row(picture, rest, line.page) EXCEPT !.pageBlank = TRUE]
        = Rows!Row(picture, rest, TRUE)
  <2> DEFINE yes == TRUE
             page == line.page
             Significant == {i \in DOMAIN picture : picture[i] # Rows!BlankCell(rest)}
             Length == IF Significant = {} THEN 0
                       ELSE CHOOSE i \in Significant : \A j \in Significant : j <= i
             shown == SubSeq(picture, 1, Length)
  <2>1. Rows!Row(picture, rest, page) = [cells |-> shown, rest |-> rest, pageBlank |-> page]
    BY DEF Rows!Row
  <2>2. Rows!Row(picture, rest, yes) = [cells |-> shown, rest |-> rest, pageBlank |-> yes]
    BY DEF Rows!Row
  <2> HIDE DEF yes, page, shown
  <2>3. [[cells |-> shown, rest |-> rest, pageBlank |-> page] EXCEPT !.pageBlank = yes]
          = [cells |-> shown, rest |-> rest, pageBlank |-> yes]
    OBVIOUS
  <2> QED BY <2>1, <2>2, <2>3 DEF yes, page
<1> QED BY <1>1, <1>3, <1>4, <1>5, <1>6 DEF new

LEMMA EraseToEndOfPageShown ==
  ASSUME Wide = {}, ScreenSound, EraseToEndOfPage
  PROVE  buffer' \in LinesSettled /\ Shown!EraseToEndOfPage
<1> DEFINE old == buffer[CurrentLine]
           erased == LineEraseText(old, cursor.x, 0, attrs)
           new == [erased EXCEPT !.page = TRUE]
           above == SubSeq(buffer, 1, CurrentLine - 1)
           row == Shown!ErasedRest(ShownRow(old), cursor.x, Effective(attrs))
<1>1. /\ LineExists /\ buffer' = Append(above, new)
      /\ UNCHANGED <<offset, cursor, cells, attrs>>
      /\ call' = <<"EraseToEndOfPage">>
  BY DEF EraseToEndOfPage, Called
<1>2. /\ buffer \in LinesSettled /\ cursor.x \in Nat /\ cursor.x <= MaxBlanks
      /\ attrs \in Attributes
  BY DEF ScreenSound, PageSound
<1>3. /\ CurrentLine \in 1 .. Len(buffer)
      /\ old \in LinesOf(1) /\ Settled(old)
      /\ Shown!Current(Shown!Now) = CurrentLine /\ Shown!CurrentRow = ShownRow(old)
  BY <1>1, LineOfCursor
<1>4. CurrentLine - 1 \in 0 .. Len(buffer)
  <2>1. Len(buffer) \in Nat
    BY <1>2, ShownRowsOf
  <2> HIDE DEF CurrentLine
  <2> QED BY <2>1, <1>3
<1>5. above \in LinesSettled /\ ShownRows(above) = SubSeq(ShownRows(buffer), 1, CurrentLine - 1)
  <2> DEFINE one == 1
             last == CurrentLine - 1
  <2>1. one \in Nat /\ one >= 1 /\ last \in 0 .. Len(buffer)
    BY <1>4
  <2> HIDE DEF one, last
  <2>2. /\ SubSeq(buffer, one, last) \in LinesSettled
        /\ ShownRows(SubSeq(buffer, one, last)) = SubSeq(ShownRows(buffer), one, last)
    BY <2>1, <1>2, LinesCut
  <2> QED BY <2>2 DEF one, last
<1> HIDE DEF old, above
<1>6. erased \in LinesOf(1)
  <2>1. 0 \in Nat
    OBVIOUS
  <2> QED BY <2>1, <1>2, <1>3, LineEraseTextType
<1>7. Settled(erased) /\ ShownRow(erased) = row
  BY <1>2, <1>3, ErasedRestRow
<1> HIDE DEF erased, row
<1>8. new \in LinesOf(1) /\ Settled(new) /\ ShownRow(new) = [row EXCEPT !.pageBlank = TRUE]
  BY <1>6, <1>7, PageBlankRow
<1> HIDE DEF new
<1>9. /\ Append(above, new) \in LinesSettled
      /\ ShownRows(Append(above, new)) = Append(ShownRows(above), ShownRow(new))
  BY <1>5, <1>8, LineAppended
<1>10. ShownRows(buffer')
         = Append(SubSeq(ShownRows(buffer), 1, CurrentLine - 1),
                  [row EXCEPT !.pageBlank = TRUE])
  BY <1>1, <1>5, <1>8, <1>9
<1>11. Shown!EraseToEndOfPage
  BY <1>1, <1>3, <1>10 DEF Shown!EraseToEndOfPage, ShownRows, row
<1> QED BY <1>1, <1>9, <1>11

LEMMA EraseToCursorShown ==
  ASSUME Wide = {}, ScreenSound, EraseToCursor
  PROVE  buffer' \in LinesSettled /\ Shown!EraseToCursor
<1> DEFINE n == Len(buffer)
           effect == Effective(attrs)
           NewLineAt(i) == CASE i > offset /\ i < CurrentLine -> LineClear(buffer[i], attrs)
                             [] i = CurrentLine -> LineEraseText(buffer[i], 0, cursor.x + 1, attrs)
                             [] OTHER -> buffer[i]
           RowAt(i) == CASE i > offset /\ i < CurrentLine ->
                              Shown!Cleared(ShownRows(buffer)[i], effect)
                         [] i = CurrentLine ->
                              Shown!Erased(ShownRows(buffer)[i], 0, cursor.x + 1, effect)
                         [] OTHER -> ShownRows(buffer)[i]
           lines == [i \in DOMAIN buffer |-> NewLineAt(i)]
           rows == [i \in DOMAIN ShownRows(buffer) |-> RowAt(i)]
<1>1. /\ LineExists /\ buffer' = lines
      /\ UNCHANGED <<offset, cursor, cells, attrs>>
      /\ call' = <<"EraseToCursor">>
  BY DEF EraseToCursor, Called
<1>2. /\ buffer \in LinesSettled /\ cursor.x \in Nat /\ attrs \in Attributes
  BY DEF ScreenSound, PageSound
<1>3. /\ CurrentLine \in 1 .. n /\ Shown!Current(Shown!Now) = CurrentLine
  BY <1>1, LineOfCursor
<1>4. /\ DOMAIN buffer = 1 .. n /\ n \in Nat
      /\ \A i \in 1 .. n : buffer[i] \in LinesOf(1) /\ Settled(buffer[i])
      /\ DOMAIN ShownRows(buffer) = 1 .. n
      /\ \A i \in 1 .. n : ShownRows(buffer)[i] = ShownRow(buffer[i])
  BY <1>2, ShownRowsOf
<1> HIDE DEF n
<1>5. ASSUME NEW i \in 1 .. n
      PROVE  /\ NewLineAt(i) \in LinesOf(1) /\ Settled(NewLineAt(i))
             /\ ShownRow(NewLineAt(i)) = RowAt(i)
  <2> DEFINE line == buffer[i]
             k == CurrentLine
  <2>1. line \in LinesOf(1) /\ Settled(line) /\ ShownRows(buffer)[i] = ShownRow(line)
    BY <1>4
  <2>2. CASE i > offset /\ i < k
    <3>1. NewLineAt(i) = LineClear(line, attrs)
      BY <2>2
    <3>2. RowAt(i) = Shown!Cleared(ShownRows(buffer)[i], effect)
      BY <2>2
    <3> HIDE DEF line, NewLineAt, RowAt
    <3>3. LineClear(line, attrs) \in LinesOf(1)
      <4>1. 1 \in {0, 1}
        OBVIOUS
      <4> QED BY <4>1, <2>1, <1>2, LineClearType
    <3>4. /\ Settled(LineClear(line, attrs))
          /\ ShownRow(LineClear(line, attrs)) = Shown!Cleared(ShownRow(line), Effective(attrs))
      BY <2>1, <1>2, ClearedRow
    <3> QED BY <3>1, <3>2, <3>3, <3>4, <2>1
  <2>3. CASE i = k
    <3>0. ~(i > offset /\ i < k)
      <4>1. k \in Int
        BY <1>3
      <4> HIDE DEF k
      <4> QED BY <4>1, <2>3
    <3>1. NewLineAt(i) = LineEraseText(line, 0, cursor.x + 1, attrs)
      BY <2>3, <3>0
    <3>2. RowAt(i) = Shown!Erased(ShownRows(buffer)[i], 0, cursor.x + 1, effect)
      BY <2>3, <3>0
    <3> HIDE DEF line, NewLineAt, RowAt
    <3> DEFINE first == 0
               num == cursor.x + 1
    <3>3. /\ first \in Nat /\ first <= MaxBlanks /\ num \in Nat /\ num # 0
      BY <1>2, BlanksAssumption
    <3> HIDE DEF first, num
    <3>4. LineEraseText(line, first, num, attrs) \in LinesOf(1)
      BY <3>3, <2>1, <1>2, LineEraseTextType
    <3>5. /\ Settled(LineEraseText(line, first, num, attrs))
          /\ ShownRow(LineEraseText(line, first, num, attrs))
               = Shown!Erased(ShownRow(line), first, num, Effective(attrs))
      BY <3>3, <2>1, <1>2, ErasedRow
    <3> QED BY <3>1, <3>2, <3>4, <3>5, <2>1 DEF first, num
  <2>4. CASE ~(i > offset /\ i < k) /\ i # k
    <3>1. NewLineAt(i) = line /\ RowAt(i) = ShownRows(buffer)[i]
      BY <2>4
    <3> QED BY <3>1, <2>1
  <2> QED BY <2>2, <2>3, <2>4
<1> HIDE DEF NewLineAt, RowAt
<1>6. /\ DOMAIN lines = 1 .. n /\ \A i \in 1 .. n : lines[i] = NewLineAt(i)
  BY <1>4
<1>7. lines \in Seq(LinesOf(1)) /\ Len(lines) = n
  <2>1. lines \in [1 .. n -> LinesOf(1)]
    BY <1>4, <1>5
  <2> HIDE DEF lines
  <2> QED BY <2>1, <1>4, FunctionIsSeq
<1>8. /\ DOMAIN rows = 1 .. n /\ rows = [i \in DOMAIN rows |-> rows[i]]
      /\ \A i \in 1 .. n : rows[i] = RowAt(i)
  BY <1>4
<1> HIDE DEF lines, rows
<1>9. lines \in LinesSettled
  <2>1. \A i \in 1 .. Len(lines) : Settled(lines[i])
    BY <1>5, <1>6, <1>7
  <2> QED BY <2>1, <1>7, LinesIn
<1>10. ShownRows(lines) = rows
  <2>1. \A i \in 1 .. Len(lines) : rows[i] = ShownRow(lines[i])
    BY <1>5, <1>6, <1>7, <1>8
  <2>2. DOMAIN rows = 1 .. Len(lines)
    BY <1>7, <1>8
  <2> QED BY <2>1, <2>2, <1>8, <1>9, RowsAre
<1>11. ShownRows(buffer') = rows
  BY <1>1, <1>10
<1>12. Shown!EraseToCursor
  BY <1>1, <1>3, <1>11 DEF Shown!EraseToCursor, ShownRows, rows, RowAt
<1> QED BY <1>1, <1>9, <1>12

(* Lines are added up to the cursor. *)
LEMMA LinesAdded ==
  ASSUME NEW lines \in LinesSettled, NEW needed \in Nat
  PROVE  LET new == lines \o [i \in 1 .. needed - Len(lines) |-> NewLineOfBuffer]
             rows == ShownRows(lines)
         IN /\ new \in LinesSettled
            /\ ShownRows(new) = [i \in 1 .. Shown!Upper(Len(lines), needed) |->
                                   IF i \in DOMAIN rows THEN rows[i] ELSE Shown!EmptyRow]
<1> DEFINE n == Len(lines)
           more == IF needed > n THEN needed - n ELSE 0
           added == [i \in 1 .. needed - n |-> NewLineOfBuffer]
           new == lines \o added
           rows == ShownRows(lines)
           all == [i \in 1 .. n + more |-> IF i \in DOMAIN rows THEN rows[i] ELSE Shown!EmptyRow]
<1>1. /\ lines \in Seq(LinesOf(1)) /\ n \in Nat
      /\ \A i \in 1 .. n : lines[i] \in LinesOf(1) /\ Settled(lines[i])
      /\ DOMAIN rows = 1 .. n
      /\ \A i \in 1 .. n : rows[i] = ShownRow(lines[i])
  BY ShownRowsOf
<1>2. /\ NewLineOfBuffer \in LinesOf(1) /\ Settled(NewLineOfBuffer)
      /\ ShownRow(NewLineOfBuffer) = Shown!EmptyRow
  BY NewLineShown
<1> HIDE DEF n
<1>3. more \in Nat /\ Shown!Upper(n, needed) = n + more
  BY <1>1 DEF Shown!Upper
<1>4. added = [i \in 1 .. more |-> NewLineOfBuffer]
  <2>1. 1 .. needed - n = 1 .. more
    BY <1>1
  <2> QED BY <2>1
<1> HIDE DEF more, added, rows
<1>5. added \in Seq(LinesOf(1)) /\ Len(added) = more /\ \A i \in 1 .. more : added[i] = NewLineOfBuffer
  BY <1>2, <1>3, <1>4
<1>6. /\ new \in Seq(LinesOf(1)) /\ Len(new) = n + more
      /\ \A i \in 1 .. n : new[i] = lines[i]
      /\ \A i \in 1 .. n + more : ~(i <= n) => new[i] = NewLineOfBuffer
  <2>1. new \in Seq(LinesOf(1)) /\ Len(new) = n + more
    BY <1>1, <1>5 DEF n
  <2>2. \A i \in 1 .. n + more : new[i] = IF i <= n THEN lines[i] ELSE added[i - n]
    BY <1>1, <1>5, ConcatProperties DEF n
  <2> HIDE DEF new
  <2>3. ASSUME NEW i \in 1 .. n + more, ~(i <= n) PROVE new[i] = NewLineOfBuffer
    <3>1. i - n \in 1 .. more
      BY <2>3, <1>1, <1>3
    <3> QED BY <3>1, <2>2, <2>3, <1>5
  <2>4. ASSUME NEW i \in 1 .. n PROVE new[i] = lines[i]
    <3>1. i \in 1 .. n + more /\ i <= n
      BY <1>1, <1>3
    <3> QED BY <3>1, <2>2
  <2> QED BY <2>1, <2>3, <2>4
<1> HIDE DEF new
<1>7. ASSUME NEW i \in 1 .. n + more
      PROVE  Settled(new[i]) /\ all[i] = ShownRow(new[i])
  <2>1. CASE i <= n
    <3>1. i \in 1 .. n
      BY <2>1, <1>1, <1>3
    <3>2. new[i] = lines[i]
      BY <3>1, <1>6
    <3>3. all[i] = rows[i]
      BY <3>1, <1>1
    <3>4. Settled(lines[i]) /\ rows[i] = ShownRow(lines[i])
      BY <3>1, <1>1
    <3> HIDE DEF all
    <3> QED BY <3>2, <3>3, <3>4
  <2>2. CASE ~(i <= n)
    <3>1. i \notin 1 .. n
      BY <2>2, <1>1
    <3>2. new[i] = NewLineOfBuffer
      BY <2>2, <1>6
    <3>3. all[i] = Shown!EmptyRow
      BY <3>1, <1>1
    <3> HIDE DEF all
    <3> QED BY <3>2, <3>3, <1>2
  <2> QED BY <2>1, <2>2
<1>8. DOMAIN all = 1 .. n + more /\ all = [i \in DOMAIN all |-> all[i]]
  OBVIOUS
<1> HIDE DEF all
<1>9. new \in LinesSettled
  <2>1. \A i \in 1 .. Len(new) : Settled(new[i])
    BY <1>6, <1>7
  <2> QED BY <2>1, <1>6, LinesIn
<1>10. ShownRows(new) = all
  <2>1. DOMAIN all = 1 .. Len(new) /\ \A i \in 1 .. Len(new) : all[i] = ShownRow(new[i])
    BY <1>6, <1>7, <1>8
  <2> QED BY <2>1, <1>8, <1>9, RowsAre
<1> QED BY <1>3, <1>9, <1>10 DEF new, added, rows, all, n

LEMMA SetCursorYShown ==
  ASSUME ScreenSound, ~switched, NEW row \in 0 .. cells.lines, SetCursorY(row)
  PROVE  buffer' \in LinesSettled /\ Shown!SetCursorY(row)
<1> DEFINE n == Len(buffer)
           down == row >= cells.lines
           needed == offset + row + 1
           last == IF down THEN offset + cells.lines + 1 ELSE offset + row + 1
           lines == buffer \o [i \in 1 .. needed - n |-> NewLineOfBuffer]
<1>1. /\ buffer \in LinesSettled /\ offset \in Nat /\ cells.lines \in Nat /\ row \in Nat
      /\ row <= cells.lines
  <2>1. buffer \in LinesSettled /\ offset \in Nat /\ cells.lines \in Nat
    BY SizesAssumption DEF ScreenSound, PageSound
  <2> QED BY <2>1
<1>2. n \in Nat /\ offset <= n
  <2>1. n \in Nat
    BY <1>1, ShownRowsOf
  <2>2. offset + cursor.y + 1 <= n /\ cursor.y \in Nat
    BY DEF ScreenSound, PageSound
  <2> HIDE DEF n
  <2> QED BY <2>1, <2>2, <1>1
<1>3. Lower(row, cells.lines) = row
  BY <1>1 DEF Lower
<1>4. /\ buffer' = lines
      /\ offset' = IF down THEN offset + (row - cells.lines + 1) ELSE offset
      /\ cursor' = At(cursor.x, IF down THEN cells.lines - 1 ELSE row)
      /\ UNCHANGED <<cells, attrs>>
      /\ call' = <<"SetCursorY", row>>
  BY <1>2, <1>3 DEF SetCursorY, Called
<1>5. needed \in Nat /\ last = needed
  BY <1>1
<1>6. offset' = IF down THEN offset + 1 ELSE offset
  BY <1>1, <1>4
<1>7. cursor'.x = cursor.x /\ cursor'.y = IF down THEN cells.lines - 1 ELSE row
  BY <1>4 DEF At
<1> HIDE DEF needed
<1>8. /\ lines \in LinesSettled
      /\ ShownRows(lines)
           = [i \in 1 .. Shown!Upper(n, needed) |->
                IF i \in DOMAIN ShownRows(buffer) THEN ShownRows(buffer)[i] ELSE Shown!EmptyRow]
  BY <1>1, <1>5, LinesAdded
<1>9. Len(ShownRows(buffer)) = n
  <2>1. DOMAIN ShownRows(buffer) = 1 .. n
    BY <1>1, ShownRowsOf
  <2> HIDE DEF n
  <2> QED BY <2>1, <1>2
<1> HIDE DEF n, lines
<1>10. ShownRows(buffer')
         = [i \in 1 .. Shown!Upper(Len(ShownRows(buffer)), last) |->
              IF i \in DOMAIN ShownRows(buffer) THEN ShownRows(buffer)[i] ELSE Shown!EmptyRow]
  BY <1>4, <1>5, <1>8, <1>9
<1>11. UNCHANGED <<cells, attrs>> /\ call' = <<"SetCursorY", row>>
  BY <1>4
<1>12. Shown!SetCursorY(row)
  BY <1>6, <1>7, <1>10, <1>11 DEF Shown!SetCursorY, ShownRows, last, down
<1> QED BY <1>4, <1>8, <1>12

-----------------------------------------------------------------------------

LEMMA InitShown ==
  ASSUME Init
  PROVE  ScreenSound /\ Shown!Init
<1>1. PICK line \in FirstLines : buffer = <<line>>
  BY DEF Init
<1>2. PageSound(1)
  <2>1. 1 \in {0, 1}
    OBVIOUS
  <2> QED BY <2>1, InitSound
<1>3. buffer \in Seq(LinesOf(1))
  BY <1>2 DEF PageSound
<1>4. Settled(line)
  BY FirstLinesAssumption DEF Settled, RestOf, End, Render, PlainEffect
<1>5. Len(buffer) = 1 /\ buffer[1] = line
  BY <1>1
<1>6. buffer \in LinesSettled
  BY <1>3, <1>4, <1>5, LinesIn
<1>7. DOMAIN ShownRows(buffer) = 1 .. 1
  BY <1>5, <1>6, ShownRowsOf
<1>8. Len(ShownRows(buffer)) = 1
  BY <1>7
<1>9. /\ offset = 0 /\ cursor.x = 0 /\ cursor.y = 0 /\ cells \in Sizes
      /\ attrs = NoAttributes /\ call = <<>>
  BY SizesAssumption DEF Init, At
<1>10. Shown!Init
  BY <1>8, <1>9 DEF Shown!Init, ShownRows
<1> QED BY <1>2, <1>6, <1>10 DEF ScreenSound

(* A step from a state of the invariant is one of Screen, or leaves what   *)
(* Screen has, or follows the exception.                                   *)
Implements == buffer' \in LinesSettled /\ (switched' \/ [Shown!Next]_(Shown!vars))

LEMMA NextShown ==
  ASSUME NarrowPages, Wide = {}, ScreenSound, [Next]_vars
  PROVE  Implements
<1>1. ASSUME NEW text \in Texts, NEW insert \in BOOLEAN, NEW wrap \in BOOLEAN,
             AddText(text, insert, wrap)
      PROVE  Implements
  BY <1>1, AddTextShown DEF Shown!Next, Implements
<1>2. ASSUME NEW first \in Columns, NEW num \in Columns, EraseInLine(first, num)
      PROVE  Implements
  <2>1. buffer' \in LinesSettled /\ Shown!EraseInLine(first, num)
    BY <1>2, EraseInLineShown
  <2>2. first \in Shown!Columns /\ num \in Shown!Columns
    BY DEF Columns, Shown!Columns
  <2> QED BY <2>1, <2>2 DEF Shown!Next, Implements
<1>3. ASSUME NEW first \in Columns, NEW num \in Columns \ {0}, DeleteText(first, num)
      PROVE  Implements
  <2>1. buffer' \in LinesSettled /\ Shown!DeleteText(first, num)
    BY <1>3, DeleteTextShown
  <2>2. first \in Shown!Columns /\ num \in Shown!Columns
    BY DEF Columns, Shown!Columns
  <2> QED BY <2>1, <2>2 DEF Shown!Next, Implements
<1>4. CASE EraseToEndOfPage
  BY <1>4, EraseToEndOfPageShown DEF Shown!Next, Implements
<1>5. CASE EraseToCursor
  BY <1>5, EraseToCursorShown DEF Shown!Next, Implements
<1>6. CASE ErasePage
  BY <1>6, ErasePageShown DEF Shown!Next, Implements
<1>7. CASE EraseBuffer
  BY <1>7, EraseBufferShown DEF Shown!Next, Implements
<1>8. CASE EraseScrollback
  BY <1>8, EraseScrollbackShown DEF Shown!Next, Implements
<1>9. CASE SetBuffer
  BY <1>9, SetBufferShown DEF Shown!Next, Implements
<1>10. CASE UseMissingLine
  <2>1. UNCHANGED <<buffer, offset, cursor, cells, attrs, call>>
    BY <1>10 DEF UseMissingLine
  <2>2. buffer' \in LinesSettled
    BY <2>1 DEF ScreenSound
  <2>3. UNCHANGED Shown!vars
    BY <2>1 DEF Shown!vars
  <2> QED BY <2>2, <2>3 DEF Implements
<1>11. ASSUME NEW column \in Columns, SetCursorX(column) PROVE Implements
  <2>1. buffer' \in LinesSettled /\ Shown!SetCursorX(column)
    BY <1>11, SetCursorXShown
  <2>2. column \in Shown!Columns
    BY DEF Columns, Shown!Columns
  <2> QED BY <2>1, <2>2 DEF Shown!Next, Implements
<1>12. ASSUME NEW row \in 0 .. cells.lines, SetCursorY(row) PROVE Implements
  <2>1. CASE ~switched
    BY <2>1, <1>12, SetCursorYShown DEF Shown!Next, Implements
  <2>2. CASE switched
    <3>1. switched'
      BY <2>2, <1>12 DEF SetCursorY
    <3>2. buffer' \in LinesSettled
      <4> DEFINE y == Lower(row, cells.lines)
                 needed == IF offset <= Len(buffer) THEN offset + y + 1 ELSE 0
                 lines == buffer \o [i \in 1 .. needed - Len(buffer) |-> NewLineOfBuffer]
      <4>1. buffer' = lines
        BY <1>12 DEF SetCursorY
      <4>2. buffer \in LinesSettled /\ offset \in Nat /\ cells.lines \in Nat
        BY SizesAssumption DEF ScreenSound, PageSound
      <4>3. needed \in Nat
        BY <4>2 DEF Lower
      <4> HIDE DEF needed
      <4>4. lines \in LinesSettled
        BY <4>2, <4>3, LinesAdded
      <4> QED BY <4>1, <4>4
    <3> QED BY <3>1, <3>2 DEF Implements
  <2>3. switched \in BOOLEAN
    BY DEF ScreenSound, PageSound
  <2> QED BY <2>1, <2>2, <2>3
<1>13. ASSUME NEW attr \in Pens, SetAttrs(attr) PROVE Implements
  BY <1>13, SetAttrsShown DEF Shown!Next, Implements
<1>14. ASSUME NEW s \in Sizes, Resize(s) PROVE Implements
  BY <1>14, ResizeShown DEF Shown!Next, Implements
<1>15. CASE UNCHANGED vars
  <2>1. UNCHANGED <<buffer, offset, cursor, cells, attrs, call>>
    BY <1>15 DEF vars
  <2>2. buffer' \in LinesSettled
    BY <2>1 DEF ScreenSound
  <2>3. UNCHANGED Shown!vars
    BY <2>1 DEF Shown!vars
  <2> QED BY <2>2, <2>3 DEF Implements
<1> QED BY <1>1, <1>2, <1>3, <1>4, <1>5, <1>6, <1>7, <1>8, <1>9, <1>10, <1>11, <1>12,
           <1>13, <1>14, <1>15 DEF Next

(* The lines of the terminal implement the rows of Screen, for texts, pens *)
(* and pages of any size: whatever was written, inserted, deleted, erased, *)
(* scrolled and resized before, a call changes what is shown as Screen     *)
(* says, although a line stores runs of blanks and changes of attributes   *)
(* and a text is added in fragments.  Wide characters are left out, and    *)
(* the pages are narrower than the longest run of blanks.                  *)
THEOREM ImplementsScreen ==
  ASSUME NarrowPages, Wide = {}
  PROVE  Spec => ShowsScreen
<1>1. Init => ScreenSound /\ Shown!Init
  BY InitShown
<1>2. ScreenSound /\ [Next]_vars => ScreenSound'
  <2> SUFFICES ASSUME ScreenSound, [Next]_vars PROVE ScreenSound'
    OBVIOUS
  <2>1. PageSound(1)'
    BY NextSound DEF ScreenSound
  <2>2. buffer' \in LinesSettled
    BY NextShown DEF Implements
  <2> QED BY <2>1, <2>2 DEF ScreenSound, LinesSettled, AllSettled, Settled, RestOf
<1>3. ScreenSound /\ [Next]_vars => [switched' \/ Shown!Next]_(Shown!vars)
  <2> SUFFICES ASSUME ScreenSound, [Next]_vars PROVE [switched' \/ Shown!Next]_(Shown!vars)
    OBVIOUS
  <2>1. switched' \/ [Shown!Next]_(Shown!vars)
    BY NextShown DEF Implements
  <2> QED BY <2>1
<1> QED BY <1>1, <1>2, <1>3, PTL DEF Spec, ShowsScreen
=============================================================================
