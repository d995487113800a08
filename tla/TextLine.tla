------------------------------- MODULE TextLine -------------------------------
(***************************************************************************)
(* A line of the terminal (widgets/TextTerminal.cpp, class terminal::Line) *)
(* is a string that mixes characters, runs of blanks and attributes.  Here *)
(* it is a sequence of such tokens.  Every operation finds its place by    *)
(* content_skip(), splits the string there and writes the attributes that  *)
(* keep what follows as it was.                                            *)
(***************************************************************************)
EXTENDS TermAttributes, Integers, Sequences

CONSTANTS
  Characters,     \* the characters a text has
  Blank,          \* what a run of blanks shows
  Wide,           \* the characters that take two cells
  MaxBlanks       \* the longest run of blanks, UINT8_MAX in the code

ASSUME BlanksAssumption == MaxBlanks \in Nat \ {0} /\ Blank \notin Characters

Char(c)    == [kind |-> "char", char |-> c]
Blanks(n)  == [kind |-> "blanks", num |-> n]
Attr(attr) == [kind |-> "attr", attr |-> attr]

(* encode(): nothing is written of an object without flags. *)
Encoded(attr) == IF attr = NoAttributes THEN <<>> ELSE <<Attr(attr)>>

(* c32_width: combining characters, of width 0, are left out. *)
CharWidth(c) == IF c \in Wide THEN 2 ELSE 1

CellsOf(token) ==
  CASE token.kind = "char" -> CharWidth(token.char)
    [] token.kind = "blanks" -> token.num
    [] token.kind = "attr" -> 0

(* How many cells the first n tokens take ... *)
CellsBefore(tokens) ==
  LET cells[n \in 0 .. Len(tokens)] ==
        IF n = 0 THEN 0 ELSE cells[n - 1] + CellsOf(tokens[n])
  IN cells

(* ... and the attributes after them, from `attr' on. *)
AttrsBefore(tokens, attr) ==
  LET attrs[n \in 0 .. Len(tokens)] ==
        IF n = 0 THEN attr
        ELSE IF tokens[n].kind = "attr" THEN Decoded(attrs[n - 1], tokens[n].attr)
        ELSE attrs[n - 1]
  IN attrs

Chars(text) == [i \in DOMAIN text |-> Char(text[i])]

TextWidth(text) == CellsBefore(Chars(text))[Len(text)]            \* utf8_width

(* A line with its flags BlankLine and BlankPage (HardBreak has no effect  *)
(* yet).                                                                   *)
Line(content, blank, page) == [content |-> content, blank |-> blank, page |-> page]

NewLineOfBuffer == Line(<<>>, FALSE, FALSE)

Tokens ==
  {Attr(attr) : attr \in Attributes \ {NoAttributes}}
    \cup {Blanks(n) : n \in 1 .. MaxBlanks}
    \cup {Char(c) : c \in Characters}

Lines == [content : Seq(Tokens), blank : BOOLEAN, page : BOOLEAN]

\* Mutant: off by one.
WithinLess(run, num) == run < num

(* A run of blanks is passed as a whole. *)
Within(run, num) == run <= num

(* A place in a line: the tokens before and after it and the attributes    *)
(* there.                                                                  *)
Place(before, attr, after) == [before |-> before, attr |-> attr, after |-> after]

(* How many of `length' tokens come before the first of `stops'.           *)
NumberBefore(stops, length) ==
  CHOOSE n \in 0 .. length :
    /\ \A i \in 1 .. n : i \notin stops
    /\ n = length \/ n + 1 \in stops

(* n tokens further.                                                       *)
Passed(place, n) ==
  Place(place.before \o SubSeq(place.after, 1, n),
        AttrsBefore(place.after, place.attr)[n],
        SubSeq(place.after, n + 1, Len(place.after)))

(* content_skip(): `num' cells are skipped.  A run of blanks is split, and *)
(* a line that is too short is filled up with blanks.  Attributes at the   *)
(* place itself are not passed.                                            *)
ContentSkip(num, place) ==
  LET tokens == place.after
      Left(n) == num - CellsBefore(tokens)[n]
      stops == {i \in DOMAIN tokens :
                  \/ Left(i - 1) <= 0
                  \/ tokens[i].kind = "blanks" /\ ~Within(tokens[i].num, Left(i - 1))}
      n == NumberBefore(stops, Len(tokens))
      there == Passed(place, n)
  IN CASE Left(n) <= 0 -> there
       [] Left(n) > 0 /\ n = Len(tokens) ->
            [there EXCEPT !.before = Append(@, Blanks(Left(n) % (MaxBlanks + 1)))]
       [] OTHER ->
            Place(Append(there.before, Blanks(Left(n))), there.attr,
                  <<Blanks(tokens[n + 1].num - Left(n))>> \o Tail(there.after))

Find(line, pos) == ContentSkip(pos, Place(<<>>, NoAttributes, line.content))

(* The attributes at the place are read, too. *)
PassAttributes(place) ==
  LET others == {i \in DOMAIN place.after : place.after[i].kind # "attr"}
  IN Passed(place, NumberBefore(others, Len(place.after)))

(* What is put at `start' in front of what follows `end'. *)
Spliced(line, start, tokens, end) ==
  [line EXCEPT !.content = start.before \o tokens \o end.after]

(* add_text() *)
LineAddText(line, pos, text, attr, insert) ==
  LET start == Find(line, pos)
      here == PassAttributes(start)
      end == IF insert THEN here ELSE PassAttributes(ContentSkip(TextWidth(text), here))
      change == PrecededBy(attr, start.attr)
  IN Spliced(line, start,
             Encoded(change) \o Chars(text)
               \o Encoded(PrecededBy(end.attr, change)),
             end)

\* Mutant: the attributes of what follows are forgotten.
DeleteTextUnrestored(line, first, num) ==
  LET start == Find(line, first)
      end == PassAttributes(ContentSkip(num, start))
  IN IF num = 0 THEN line ELSE Spliced(line, start, <<>>, end)

(* delete_text() *)
LineDeleteText(line, first, num) ==
  LET start == Find(line, first)
      end == PassAttributes(ContentSkip(num, start))
  IN IF num = 0 THEN line
     ELSE Spliced(line, start, Encoded(PrecededBy(end.attr, start.attr)), end)

(* erase_text(): some cells, in runs of blanks that fit in a byte, ... *)
BlanksFor(num) ==
  LET Rest(i) == num - (i - 1) * MaxBlanks
  IN [i \in 1 .. (num + MaxBlanks - 1) \div MaxBlanks |->
        Blanks(IF Rest(i) < MaxBlanks THEN Rest(i) ELSE MaxBlanks)]

LineEraseCells(line, first, num, attr) ==
  LET start == Find(line, first)
      end == PassAttributes(ContentSkip(num, start))
      change == PrecededBy(attr, start.attr)
  IN Spliced(line, start,
             Encoded(change) \o BlanksFor(num) \o Encoded(PrecededBy(end.attr, change)),
             end)

(* ... or the rest of the line. *)
LineEraseRest(line, first, attr) ==
  LET start == Find(line, first)
  IN [line EXCEPT !.content = start.before \o Encoded(PrecededBy(attr, start.attr)),
                  !.blank = TRUE]

LineEraseText(line, first, num, attr) ==
  IF num = 0 THEN LineEraseRest(line, first, attr)
  ELSE LineEraseCells(line, first, num, attr)

(* clear() *)
LineClear(line, attr) ==
  [line EXCEPT !.content = Encoded(attr), !.blank = TRUE]

-----------------------------------------------------------------------------
(* render(): the cells as the renderer draws them, and the attributes at   *)
(* the end, in which TextTerminal::update() draws the rest of a line that  *)
(* is blanked.                                                             *)
Drawn(token, attr) ==
  [i \in 1 .. CellsOf(token) |->
     [char |-> IF token.kind = "char" THEN token.char ELSE Blank,
      attr |-> Effective(attr)]]

Render(tokens, attr) ==
  LET attrs == AttrsBefore(tokens, attr)
      drawn[n \in 0 .. Len(tokens)] ==
        IF n = 0 THEN <<>> ELSE drawn[n - 1] \o Drawn(tokens[n], attrs[n - 1])
  IN [cells |-> drawn[Len(tokens)], attr |-> Effective(attrs[Len(tokens)])]
=============================================================================
