-------------------------------- MODULE Screen --------------------------------
(***************************************************************************)
(* What a terminal shows: rows of cells, each with a character and the     *)
(* attributes in effect, and a cursor.  This is the promise of the methods *)
(* of TextTerminal as TextTerminal.h words it; how rows are stored is the  *)
(* business of TextLine and TextTerminal.                                  *)
(***************************************************************************)
EXTENDS ScreenRows

CONSTANTS
  NewLine,        \* the character that ends a line
  Texts,          \* the texts that are added
  Pens,           \* the attributes they may have
  Sizes,          \* the sizes of the page
  MaxColumn       \* bound: columns that are named

VARIABLES
  rows,           \* the rows, those scrolled off the page first
  top,            \* how many rows are scrolled off
  x, y,           \* the cursor, from 0, y from the first row of the page
  size,           \* columns and rows of the page
  pen,            \* the attributes of what is written next
  call            \* the last call of a method, with its arguments

vars == <<rows, top, x, y, size, pen, call>>

-----------------------------------------------------------------------------
(* The state as a record, for the characters of a text, one by one;        *)
(* `starts' says that none was written since the cursor was moved.         *)

Now == [rows |-> rows, top |-> top, x |-> x, y |-> y, starts |-> TRUE]

Become(s) == rows' = s.rows /\ top' = s.top /\ x' = s.x /\ y' = s.y

Current(s) == s.top + s.y + 1

OnRow(s, row) == [s EXCEPT !.rows[Current(s)] = row]

ToNewLine(s) ==
  [rows |-> Append(s.rows, EmptyRow),
   top |-> IF s.y + 1 < size.lines THEN s.top ELSE s.top + 1,
   x |-> 0,
   y |-> IF s.y + 1 < size.lines THEN s.y + 1 ELSE s.y,
   starts |-> TRUE]

(* A character is written at the cursor.  At the right border the text     *)
(* goes on in the next line or, without wrapping, in the last column       *)
(* again; one that starts in the last column stays there.                  *)
RoomFor(s, wrap) ==
  CASE s.x < size.columns -> s
    [] s.x >= size.columns /\ wrap -> ToNewLine(s)
    [] OTHER -> [s EXCEPT !.x = size.columns - 1, !.starts = TRUE]

Written(s, char, insert, wrap) ==
  LET row == s.rows[Current(s)]
      cell == Cell(char, pen)
      stays == ~wrap /\ s.starts /\ s.x = size.columns - 1
      new == IF insert /\ ~stays THEN Inserted(row, s.x, cell)
             ELSE Replaced(row, s.x, cell)
  IN IF stays THEN OnRow(s, new)
     ELSE [OnRow(s, new) EXCEPT !.x = s.x + 1, !.starts = FALSE]

Typed(text, insert, wrap) ==
  LET typed[n \in 0 .. Len(text)] ==
        IF n = 0 THEN Now
        ELSE IF text[n] = NewLine THEN ToNewLine(typed[n - 1])
        ELSE Written(RoomFor(typed[n - 1], wrap), text[n], insert, wrap)
  IN typed[Len(text)]

AddText(text, insert, wrap) ==
  /\ call' = <<"AddText", text, insert, wrap>>
  /\ Become(Typed(text, insert, wrap))
  /\ UNCHANGED <<size, pen>>

ChangeRow(row) ==
  /\ rows' = [rows EXCEPT ![Current(Now)] = row]
  /\ UNCHANGED <<top, x, y, size, pen>>

CurrentRow == rows[Current(Now)]

(* 0 or too many cells are the rest of the line. *)
EraseInLine(first, num) ==
  /\ call' = <<"EraseInLine", first, num>>
  /\ ChangeRow(IF num = 0 \/ (first <= size.columns /\ first + num > size.columns)
               THEN ErasedRest(CurrentRow, first, pen)
               ELSE Erased(CurrentRow, first, num, pen))

DeleteText(first, num) ==
  /\ call' = <<"DeleteText", first, num>>
  /\ ChangeRow(Deleted(CurrentRow, first, num))

EraseToEndOfPage ==
  /\ call' = <<"EraseToEndOfPage">>
  /\ rows' = Append(SubSeq(rows, 1, Current(Now) - 1),
                    [ErasedRest(CurrentRow, x, pen) EXCEPT !.pageBlank = TRUE])
  /\ UNCHANGED <<top, x, y, size, pen>>

EraseToCursor ==
  /\ call' = <<"EraseToCursor">>
  /\ rows' = [i \in DOMAIN rows |->
                CASE i > top /\ i < Current(Now) -> Cleared(rows[i], pen)
                  [] i = Current(Now) -> Erased(rows[i], 0, x + 1, pen)
                  [] OTHER -> rows[i]]
  /\ UNCHANGED <<top, x, y, size, pen>>

ErasePage ==
  /\ call' = <<"ErasePage">>
  /\ rows' = Append(SubSeq(rows, 1, top), EmptyRow)
  /\ x' = 0 /\ y' = 0
  /\ UNCHANGED <<top, size, pen>>

EraseBuffer ==
  /\ call' = <<"EraseBuffer">>
  /\ rows' = <<EmptyRow>>
  /\ top' = 0 /\ x' = 0 /\ y' = 0
  /\ UNCHANGED <<size, pen>>

EraseScrollback ==
  /\ call' = <<"EraseScrollback">>
  /\ rows' = SubSeq(rows, top + 1, Len(rows))
  /\ top' = 0
  /\ UNCHANGED <<x, y, size, pen>>

SetCursorX(column) ==
  /\ call' = <<"SetCursorX", column>>
  /\ x' = IF column < size.columns THEN column ELSE size.columns
  /\ UNCHANGED <<rows, top, y, size, pen>>

(* Below the last row the page scrolls by one; rows are added as needed. *)
SetCursorY(row) ==
  LET below == row >= size.lines
      last == IF below THEN top + size.lines + 1 ELSE top + row + 1
  IN /\ call' = <<"SetCursorY", row>>
     /\ rows' = [i \in 1 .. Upper(Len(rows), last) |->
                   IF i \in DOMAIN rows THEN rows[i] ELSE EmptyRow]
     /\ top' = IF below THEN top + 1 ELSE top
     /\ y' = IF below THEN size.lines - 1 ELSE row
     /\ UNCHANGED <<x, size, pen>>

SetPen ==
  /\ call' = <<"SetAttrs">>
  /\ pen' \in Pens
  /\ UNCHANGED <<rows, top, x, y, size>>

Resize ==
  /\ call' = <<"Resize">>
  /\ size' \in Sizes
  /\ UNCHANGED <<rows, top, x, y, pen>>

(* Another buffer is shown, from its first row. *)
SetBuffer ==
  /\ call' = <<"SetBuffer">>
  /\ rows' = <<EmptyRow>>
  /\ top' = 0 /\ x' = 0 /\ y' = 0
  /\ UNCHANGED <<size, pen>>

Columns == 0 .. MaxColumn

Init ==
  /\ Len(rows) = 1
  /\ top = 0 /\ x = 0 /\ y = 0
  /\ size \in Sizes
  /\ pen = Plain
  /\ call = <<>>

Next ==
  \/ \E text \in Texts, insert, wrap \in BOOLEAN : AddText(text, insert, wrap)
  \/ \E first, num \in Columns :
        EraseInLine(first, num) \/ DeleteText(first, num)
  \/ EraseToEndOfPage \/ EraseToCursor
  \/ ErasePage \/ EraseBuffer \/ EraseScrollback
  \/ SetBuffer
  \/ \E column \in Columns : SetCursorX(column)
  \/ \E row \in 0 .. size.lines : SetCursorY(row)
  \/ SetPen
  \/ Resize

Spec == Init /\ [][Next]_vars
=============================================================================
