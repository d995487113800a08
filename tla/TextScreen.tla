------------------------------ MODULE TextScreen ------------------------------
(***************************************************************************)
(* The terminal the line editor draws on, as far as it uses it: rows of    *)
(* cells, wide enough that no line wraps, the current row r, from 1, and   *)
(* column c, from 0.  A wide character takes two cells.                    *)
(***************************************************************************)
EXTENDS Integers, SequencesExt

CONSTANT Width(_)      \* c32_width: the columns of a character

BlankCell == 0
SecondHalf == -1

Screen(rows, r, c) == [rows |-> rows, r |-> r, c |-> c]

(* stripped_width: the columns of a text, where a line feed counts as one. *)
WidthOf(text) ==
  LET sum[n \in 0 .. Len(text)] == IF n = 0 THEN 0 ELSE sum[n - 1] + Width(text[n])
  IN sum[Len(text)]

CellsOf(char) == IF Width(char) = 2 THEN <<char, SecondHalf>> ELSE <<char>>

Cells(text) ==
  LET cells[n \in 0 .. Len(text)] ==
        IF n = 0 THEN <<>> ELSE cells[n - 1] \o CellsOf(text[n])
  IN cells[Len(text)]

Padding(row, n) ==
  row \o [i \in 1 .. (IF Len(row) < n THEN n - Len(row) ELSE 0) |-> BlankCell]

Put(s, text) ==
  LET cells == Cells(text)
      row == Padding(s.rows[s.r], s.c)
      end == s.c + Len(cells)
  IN Screen([s.rows EXCEPT ![s.r] = SubSeq(row, 1, s.c) \o cells
                                      \o SubSeq(row, end + 1, Len(row))],
            s.r, end)

NextRow(s) ==
  Screen(IF s.r = Len(s.rows) THEN Append(s.rows, <<>>) ELSE s.rows, s.r + 1, s.c)

MoveUpRows(s, n) == Screen(s.rows, Max({1, s.r - n}), s.c)

ToColumn(s, c) == Screen(s.rows, s.r, c)

(* From the cursor to the end of the page. *)
ClearDown(s) ==
  Screen(Append(SubSeq(s.rows, 1, s.r - 1), SubSeq(s.rows[s.r], 1, s.c)), s.r, s.c)

(* A row without the blanks at its end. *)
Shown(row) ==
  SubSeq(row, 1, Max({0} \cup {i \in DOMAIN row : row[i] # BlankCell}))
=============================================================================
