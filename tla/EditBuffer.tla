------------------------------ MODULE EditBuffer ------------------------------
(***************************************************************************)
(* Text with a cursor (class EditBuffer of core/EditBuffer.cpp).  A text   *)
(* is a sequence of code points.  The code keeps UTF-8 and the cursor as a *)
(* byte offset, always between two characters; here the cursor counts the  *)
(* characters before it, and where the code compares bytes with characters *)
(* (move_up, move_down) so does the model.  An operation that returns      *)
(* false is one that returns the buffer unchanged.                         *)
(***************************************************************************)
EXTENDS Integers, SequencesExt

CONSTANT IsWordChar(_)      \* iswalnum

LineFeed == 10

Buffer(content, cursor) == [content |-> content, cursor |-> cursor]

EmptyBuffer == Buffer(<<>>, 0)

(* set_content: the cursor goes to the end. *)
WithContent(text) == Buffer(text, Len(text))

Smaller(m, n) == IF m < n THEN m ELSE n

-----------------------------------------------------------------------------
(* string.cpp: the bytes of a character, and of the first n of a text.     *)

Utf8Length(char) ==
  CASE char < 128 -> 1
    [] char >= 128 /\ char < 2048 -> 2
    [] char >= 2048 /\ char < 65536 -> 3
    [] OTHER -> 4

BytesOf(text) ==
  LET sum[n \in 0 .. Len(text)] ==
        IF n = 0 THEN 0 ELSE sum[n - 1] + Utf8Length(text[n])
  IN sum

Bytes(text, n) == BytesOf(text)[n]

(* std::string::rfind and find of a line feed: the last one among the      *)
(* first n characters, or 0; the first one after them, or one past the     *)
(* end.                                                                    *)
LastLineFeed(text, n) == Max({0} \cup {i \in 1 .. n : text[i] = LineFeed})

NextLineFeed(text, n) ==
  Min({Len(text) + 1} \cup {i \in n + 1 .. Len(text) : text[i] = LineFeed})

(* utf8_offset from a place in the text: n characters further, or its end. *)
Forward(text, from, n) == Smaller(from + n, Len(text))

-----------------------------------------------------------------------------
Without(b, from, to) ==
  Buffer(SubSeq(b.content, 1, from) \o SubSeq(b.content, to + 1, Len(b.content)), from)

Insert(b, text) ==
  Buffer(SubSeq(b.content, 1, b.cursor) \o text
           \o SubSeq(b.content, b.cursor + 1, Len(b.content)),
         b.cursor + Len(text))

DeleteLeft(b) == IF b.cursor = 0 THEN b ELSE Without(b, b.cursor - 1, b.cursor)

DeleteRight(b) ==
  IF b.cursor >= Len(b.content) THEN b ELSE Without(b, b.cursor, b.cursor + 1)

MoveTo(b, cursor) == Buffer(b.content, cursor)

MoveLeft(b) == IF b.cursor = 0 THEN b ELSE MoveTo(b, b.cursor - 1)

MoveRight(b) == IF b.cursor >= Len(b.content) THEN b ELSE MoveTo(b, b.cursor + 1)

(* nl_end - nl_start is a difference of sizes: it wraps when it would be   *)
(* negative, and then it limits nothing.                                   *)
Limited(bytes, column) == IF bytes < 0 THEN column ELSE Smaller(bytes, column)

(* To the line before.  When the first line is empty, nl_end is 0 and the  *)
(* search for its start begins at npos, the end of the text.               *)
MoveUp(b) ==
  LET text == b.content
      end == LastLineFeed(text, b.cursor)
      column == b.cursor - end + 1
      start == LastLineFeed(text, IF end = 1 THEN Len(text) ELSE end - 1)
  IN IF end = 0 THEN b
     ELSE IF start = 0
     THEN MoveTo(b, Forward(text, 0, Smaller(Bytes(text, end - 1), column - 1)))
     ELSE MoveTo(b, Forward(text, start - 1,
                   Limited(Bytes(text, end - 1) - Bytes(text, start - 1), column)))

(* To the line after. *)
MoveDown(b) ==
  LET text == b.content
      start == NextLineFeed(text, b.cursor)
      column == b.cursor - LastLineFeed(text, b.cursor)
      end == NextLineFeed(text, start)
  IN IF b.cursor >= Len(text) \/ start > Len(text) THEN b
     ELSE MoveTo(b, Forward(text, start - 1,
                   Smaller(Bytes(text, end - 1) - Bytes(text, start - 1), column + 1)))

MoveToLineBeginning(b) == MoveTo(b, LastLineFeed(b.content, b.cursor))

MoveToLineEnd(b) == MoveTo(b, NextLineFeed(b.content, b.cursor) - 1)

MoveToBeginning(b) == MoveTo(b, 0)

MoveToEnd(b) == MoveTo(b, Len(b.content))

(* First over the characters that are not of a word, then over the word.   *)
SkipWordLeft(b) ==
  LET wordEnd == Max({0} \cup {i \in 1 .. b.cursor : IsWordChar(b.content[i])})
  IN MoveTo(b, Max({0} \cup {i \in 1 .. wordEnd : ~IsWordChar(b.content[i])}))

SkipWordRight(b) ==
  LET end == Len(b.content)
      word == Min({end} \cup {i \in b.cursor .. end - 1 : IsWordChar(b.content[i + 1])})
  IN MoveTo(b, Min({end} \cup {i \in word .. end - 1 : ~IsWordChar(b.content[i + 1])}))

DeleteWordLeft(b) == Without(b, SkipWordLeft(b).cursor, b.cursor)

DeleteWordRight(b) == Without(b, b.cursor, SkipWordRight(b).cursor)
=============================================================================
