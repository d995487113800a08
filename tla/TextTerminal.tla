---------------------------- MODULE TextTerminal ----------------------------
(***************************************************************************)
(* The terminal widget (widgets/TextTerminal.cpp): a buffer of lines, of   *)
(* which the page begins at m_buffer_offset, a cursor on the page, and the *)
(* attributes of the text that is added.  The client may use the methods   *)
(* in any order; it is not told where lines end or which exist.            *)
(*                                                                         *)
(* An access to a line that is not in the buffer (m_lines is a vector) is  *)
(* undefined behaviour: `undefined' is set and nothing more happens.       *)
(***************************************************************************)
EXTENDS TextLine

CONSTANTS
  NewLine,        \* '\n'
  Texts,          \* the texts that are added
  Pens,           \* the attributes that are set
  Sizes,          \* the sizes of the page: [columns, lines]
  FirstSize,
  FirstLines,     \* what earlier calls may have left of the first line
  MaxColumn,      \* bound: columns that are named by the client
  MaxOps          \* bound: calls, except for those that set attributes

ASSUME SizesAssumption ==
  /\ FirstSize \in Sizes
  /\ Sizes \subseteq [columns : Nat \ {0}, lines : Nat \ {0}]

ASSUME TextsAssumption ==
  /\ Texts \subseteq Seq(Characters \cup {NewLine})
  /\ FirstLines \subseteq Lines

(* What the calls leave: a line that is not blanked to its end goes back   *)
(* to the default attributes.                                              *)
ASSUME FirstLinesAssumption ==
  \A line \in FirstLines :
     line.blank \/ Render(line.content, NoAttributes).attr = Effective(NoAttributes)

ASSUME PensAssumption == Pens \subseteq Attributes

ASSUME BoundsAssumption == MaxColumn \in Nat /\ MaxOps \in Nat

VARIABLES
  buffer,         \* m_buffer: the lines
  offset,         \* m_buffer_offset
  cursor,         \* m_cursor
  cells,          \* m_cells
  attrs,          \* m_attrs
  undefined,      \* a line was accessed that does not exist
  shrunk,         \* history: the page had fewer lines than before once
  switched,       \* history: a buffer was set when lines were scrolled off
  ops,            \* how many calls were counted
  call            \* history: the last call

vars == <<buffer, offset, cursor, cells, attrs, undefined, shrunk, switched, ops, call>>

At(column, row) == [x |-> column, y |-> row]

(* What the methods work on, for those that change it several times. *)
State(lines, top, x, y) == [buffer |-> lines, offset |-> top, x |-> x, y |-> y]

Now == State(buffer, offset, cursor.x, cursor.y)

Init ==
  /\ \E line \in FirstLines : buffer = <<line>>
  /\ offset = 0
  /\ cursor = At(0, 0)
  /\ cells = FirstSize
  /\ attrs = NoAttributes
  /\ undefined = FALSE
  /\ shrunk = FALSE
  /\ switched = FALSE
  /\ ops = 0
  /\ call = <<>>

(* The index of current_line() *)
CurrentLine == offset + cursor.y + 1

LineExists == CurrentLine \in DOMAIN buffer

Called(method) ==
  /\ ~undefined
  /\ ops < MaxOps
  /\ ops' = ops + 1
  /\ call' = method

CalledUncounted(method) ==
  /\ ~undefined
  /\ call' = method
  /\ UNCHANGED ops

-----------------------------------------------------------------------------
(* add_text() *)

\* Mutant: the cursor leaves the page.
AfterNewLineUnscrolled(s) ==
  State(Append(s.buffer, NewLineOfBuffer), s.offset, 0, s.y + 1)

(* new_line(): a line is added at the end of the buffer, wherever the      *)
(* cursor is.                                                              *)
AfterNewLine(s) ==
  IF s.y < cells.lines - 1
  THEN State(Append(s.buffer, NewLineOfBuffer), s.offset, 0, s.y + 1)
  ELSE State(Append(s.buffer, NewLineOfBuffer), s.offset + 1, 0, s.y)

AddedAt(s, text, insert) ==
  LET at == s.offset + s.y + 1
  IN [s.buffer EXCEPT ![at] = LineAddText(@, s.x, text, attrs, insert)]

(* flush_buffer *)
Flushed(s, fragment, insert) ==
  IF fragment = <<>> THEN s
  ELSE State(AddedAt(s, fragment, insert), s.offset, s.x + TextWidth(fragment), s.y)

(* The loop has come so far; `fragment' are the characters that are not    *)
(* added yet.                                                              *)
Pending(s, fragment) == [state |-> s, fragment |-> fragment]

AfterFlush(p, insert) == Flushed(p.state, p.fragment, insert)

(* At the right border the fragment is added, and the cursor goes to the   *)
(* next line, or stays in the last column.                                 *)
MakeRoom(p, insert, wrap) ==
  LET s == AfterFlush(p, insert)
  IN IF p.state.x + TextWidth(p.fragment) < cells.columns THEN p
     ELSE Pending(IF wrap THEN AfterNewLine(s)
                  ELSE [s EXCEPT !.x = cells.columns - 1], <<>>)

Put(p, char, wrap) ==
  IF ~wrap /\ p.fragment = <<>> /\ p.state.x = cells.columns - 1
  THEN Pending([p.state EXCEPT !.buffer = AddedAt(p.state, <<char>>, FALSE)], <<>>)
  ELSE Pending(p.state, Append(p.fragment, char))

CharAdded(p, char, insert, wrap) ==
  IF char = NewLine THEN Pending(AfterNewLine(AfterFlush(p, insert)), <<>>)
  ELSE Put(MakeRoom(p, insert, wrap), char, wrap)

(* The loop over the characters *)
TextAdded(text, insert, wrap) ==
  LET added[n \in 0 .. Len(text)] ==
        IF n = 0 THEN Pending(Now, <<>>)
        ELSE CharAdded(added[n - 1], text[n], insert, wrap)
  IN AfterFlush(added[Len(text)], insert)

AddText(text, insert, wrap) ==
  LET s == TextAdded(text, insert, wrap)
  IN /\ Called(<<"AddText", text, insert, wrap>>)
     /\ LineExists
     /\ buffer' = s.buffer
     /\ offset' = s.offset
     /\ cursor' = At(s.x, s.y)
     /\ UNCHANGED <<cells, attrs, undefined, shrunk, switched>>

-----------------------------------------------------------------------------
(* Erasing. *)

ChangeLine(line) ==
  /\ LineExists
  /\ buffer' = [buffer EXCEPT ![CurrentLine] = line]
  /\ UNCHANGED <<offset, cursor, cells, attrs, undefined, shrunk, switched>>

(* erase_in_line(): to the right of the page the difference of unsigned    *)
(* numbers wraps around and never is too small.                            *)
EraseInLine(first, num) ==
  LET tooMany == first <= cells.columns /\ num > cells.columns - first
  IN /\ Called(<<"EraseInLine", first, num>>)
     /\ ChangeLine(LineEraseText(buffer[CurrentLine], first,
                                 IF tooMany THEN 0 ELSE num, attrs))

(* delete_text() of current_line(); for no characters it returns at once *)
DeleteText(first, num) ==
  /\ Called(<<"DeleteText", first, num>>)
  /\ ChangeLine(LineDeleteText(buffer[CurrentLine], first, num))

EraseToEndOfPage ==
  /\ Called(<<"EraseToEndOfPage">>)
  /\ LineExists
  /\ buffer' = Append(SubSeq(buffer, 1, CurrentLine - 1),
                      [LineEraseText(buffer[CurrentLine], cursor.x, 0, attrs)
                         EXCEPT !.page = TRUE])
  /\ UNCHANGED <<offset, cursor, cells, attrs, undefined, shrunk, switched>>

EraseToCursor ==
  /\ Called(<<"EraseToCursor">>)
  /\ LineExists
  /\ buffer' = [i \in DOMAIN buffer |->
       CASE i > offset /\ i < CurrentLine -> LineClear(buffer[i], attrs)
         [] i = CurrentLine -> LineEraseText(buffer[i], 0, cursor.x + 1, attrs)
         [] OTHER -> buffer[i]]
  /\ UNCHANGED <<offset, cursor, cells, attrs, undefined, shrunk, switched>>

ErasePage ==
  /\ Called(<<"ErasePage">>)
  /\ offset <= Len(buffer)
  /\ buffer' = Append(SubSeq(buffer, 1, offset), NewLineOfBuffer)
  /\ cursor' = At(0, 0)
  /\ UNCHANGED <<offset, cells, attrs, undefined, shrunk, switched>>

EraseBuffer ==
  /\ Called(<<"EraseBuffer">>)
  /\ buffer' = <<NewLineOfBuffer>>
  /\ cursor' = At(0, 0)
  /\ offset' = 0
  /\ UNCHANGED <<cells, attrs, undefined, shrunk, switched>>

\* Mutant: the page keeps its offset.
EraseScrollbackOnly ==
  /\ Called(<<"EraseScrollback">>)
  /\ offset > 0 /\ offset <= Len(buffer)
  /\ buffer' = SubSeq(buffer, offset + 1, Len(buffer))
  /\ UNCHANGED <<offset, cursor, cells, attrs, undefined, shrunk, switched>>

EraseScrollback ==
  /\ Called(<<"EraseScrollback">>)
  /\ offset > 0 /\ offset <= Len(buffer)
  /\ buffer' = SubSeq(buffer, offset + 1, Len(buffer))
  /\ offset' = 0
  /\ UNCHANGED <<cursor, cells, attrs, undefined, shrunk, switched>>

(* set_buffer() with a new buffer: m_buffer_offset is not reset. *)
SetBuffer ==
  /\ Called(<<"SetBuffer">>)
  /\ buffer' = <<NewLineOfBuffer>>
  /\ cursor' = At(0, 0)
  /\ switched' = (switched \/ offset > 0)
  /\ UNCHANGED <<offset, cells, attrs, undefined, shrunk>>

(* What uses a line that does not exist. *)
UseMissingLine ==
  /\ ~LineExists
  /\ ~undefined
  /\ undefined' = TRUE
  /\ UNCHANGED <<ops, call, buffer, offset, cursor, cells, attrs, shrunk, switched>>

-----------------------------------------------------------------------------
(* The cursor, the attributes and the size. *)

Lower(a, b) == IF a < b THEN a ELSE b

SetCursorX(column) ==
  /\ Called(<<"SetCursorX", column>>)
  /\ cursor' = At(Lower(column, cells.columns), cursor.y)
  /\ UNCHANGED <<buffer, offset, cells, attrs, undefined, shrunk, switched>>

(* set_cursor_y(): lines are added up to the cursor; no line is when the   *)
(* unsigned difference of size and offset wraps around.                    *)
SetCursorY(row) ==
  LET y == Lower(row, cells.lines)
      needed == IF offset <= Len(buffer) THEN offset + y + 1 ELSE 0
      scrolled == y >= cells.lines
  IN /\ Called(<<"SetCursorY", row>>)
     /\ buffer' = buffer \o [i \in 1 .. needed - Len(buffer) |-> NewLineOfBuffer]
     /\ offset' = IF scrolled THEN offset + (y - cells.lines + 1) ELSE offset
     /\ cursor' = At(cursor.x, IF scrolled THEN cells.lines - 1 ELSE y)
     /\ UNCHANGED <<cells, attrs, undefined, shrunk, switched>>

(* set_fg(), set_attrs(), reset_attrs(), ... *)
SetAttrs(attr) ==
  /\ CalledUncounted(<<"SetAttrs">>)
  /\ attr # attrs
  /\ attrs' = attr
  /\ UNCHANGED <<buffer, offset, cursor, cells, undefined, shrunk, switched>>

(* set_size_in_cells() or a resize of the widget *)
Resize(s) ==
  /\ Called(<<"Resize">>)
  /\ s # cells
  /\ cells' = s
  /\ shrunk' = (shrunk \/ s.lines < cells.lines)
  /\ UNCHANGED <<buffer, offset, cursor, attrs, undefined, switched>>

Columns == 0 .. MaxColumn

Next ==
  \/ \E text \in Texts, insert, wrap \in BOOLEAN : AddText(text, insert, wrap)
  \/ \E first, num \in Columns : EraseInLine(first, num)
  \/ \E first \in Columns, num \in Columns \ {0} : DeleteText(first, num)
  \/ EraseToEndOfPage
  \/ EraseToCursor
  \/ ErasePage
  \/ EraseBuffer
  \/ EraseScrollback
  \/ SetBuffer
  \/ UseMissingLine
  \/ \E column \in Columns : SetCursorX(column)
  \/ \E row \in 0 .. cells.lines : SetCursorY(row)
  \/ \E attr \in Pens : SetAttrs(attr)
  \/ \E s \in Sizes : Resize(s)

Spec == Init /\ [][Next]_vars

-----------------------------------------------------------------------------
(* Properties. *)

(* Among it: no run of blanks is empty or longer than what a byte holds.   *)
TypeOK ==
  /\ buffer \in Seq(Lines)
  /\ offset \in Nat
  /\ cursor \in [x : Nat, y : Nat]
  /\ cells \in Sizes
  /\ attrs \in Attributes
  /\ {undefined, shrunk, switched} \subseteq BOOLEAN

(* What a line shows: the cells it renders and, when it is blanked, the    *)
(* rest.                                                                   *)
Rows == INSTANCE ScreenRows WITH Plain <- Effective(NoAttributes)

ShownRow(line) ==
  LET shown == Render(line.content, NoAttributes)
      rest == IF line.blank THEN shown.attr ELSE Effective(NoAttributes)
  IN Rows!Row(shown.cells, rest, line.page)

Shown == INSTANCE Screen WITH
  Plain <- Effective(NoAttributes),
  Pens <- {Effective(attr) : attr \in Pens},
  rows <- [i \in DOMAIN buffer |-> ShownRow(buffer[i])],
  top <- offset, x <- cursor.x, y <- cursor.y, size <- cells,
  pen <- Effective(attrs)

(* The terminal shows what Screen says, whatever was written, erased,      *)
(* inserted and deleted before: fragments, runs of blanks and attributes   *)
(* that are written as changes never show through.  Excepted is what       *)
(* follows a call of set_buffer() with lines scrolled off.                 *)
ShowsScreen == Shown!Init /\ [][switched' \/ Shown!Next]_(Shown!vars)

(* The line of the cursor is in the buffer, after any sequence of calls    *)
(* (with the same exception).                                              *)
CursorOnLine == switched \/ LineExists

(* What new_line() and the cursor scroll into the page is an empty line,   *)
(* although new_line() adds lines at the end of the buffer wherever the    *)
(* cursor is: lines below the page are empty, unless the page was made     *)
(* shorter.                                                                *)
BelowPageEmpty ==
  shrunk \/ switched \/
    \A i \in DOMAIN buffer :
       i > offset + cells.lines => buffer[i] = NewLineOfBuffer
=============================================================================
