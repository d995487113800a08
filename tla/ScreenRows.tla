------------------------------ MODULE ScreenRows ------------------------------
(***************************************************************************)
(* Rows of a screen.  A row has cells as far as something was written to   *)
(* it; all the cells beyond are blank, in the attributes `rest'.  Rows are *)
(* kept in the form that has no such cells at its end.                     *)
(***************************************************************************)
EXTENDS Naturals, Sequences

CONSTANTS
  Blank,          \* the character of an erased cell
  Plain           \* the default attributes

Cell(char, attr) == [char |-> char, attr |-> attr]

BlankCell(attr) == Cell(Blank, attr)

(* A row; `pageBlank' says that the page below is blank in its attributes. *)
Row(cells, rest, pageBlank) ==
  LET Significant == {i \in DOMAIN cells : cells[i] # BlankCell(rest)}
      Length == IF Significant = {} THEN 0
                ELSE CHOOSE i \in Significant : \A j \in Significant : j <= i
  IN [cells |-> SubSeq(cells, 1, Length), rest |-> rest, pageBlank |-> pageBlank]

EmptyRow == Row(<<>>, Plain, FALSE)

(* The cell in a column, from 0. *)
CellAt(row, column) ==
  IF column < Len(row.cells) THEN row.cells[column + 1] ELSE BlankCell(row.rest)

(* A row of `length' cells in which column c has CellIn(c). *)
RowOf(length, CellIn(_), row) ==
  Row([i \in 1 .. length |-> CellIn(i - 1)], row.rest, row.pageBlank)

Upper(a, b) == IF a < b THEN b ELSE a

Replaced(row, column, cell) ==
  LET CellIn(c) == IF c = column THEN cell ELSE CellAt(row, c)
  IN RowOf(Upper(Len(row.cells), column + 1), CellIn, row)

Inserted(row, column, cell) ==
  LET CellIn(c) == IF c < column THEN CellAt(row, c)
                   ELSE IF c = column THEN cell
                   ELSE CellAt(row, c - 1)
  IN RowOf(Upper(Len(row.cells), column) + 1, CellIn, row)

Deleted(row, first, num) ==
  LET CellIn(c) == CellAt(row, IF c < first THEN c ELSE c + num)
  IN RowOf(Len(row.cells), CellIn, row)

Erased(row, first, num, attr) ==
  LET CellIn(c) == IF c >= first /\ c < first + num THEN BlankCell(attr)
                   ELSE CellAt(row, c)
  IN RowOf(Upper(Len(row.cells), first + num), CellIn, row)

ErasedRest(row, first, attr) ==
  Row([i \in 1 .. first |-> CellAt(row, i - 1)], attr, row.pageBlank)

Cleared(row, attr) == Row(<<>>, attr, row.pageBlank)
=============================================================================
