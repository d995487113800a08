--------------------------- MODULE MCTextTerminal ---------------------------
(***************************************************************************)
(* A page of two columns and two lines, which may change to one or three   *)
(* of both, narrow characters, and one attribute with its default and      *)
(* another value.                                                          *)
(***************************************************************************)
EXTENDS TextTerminal

AllCharacters == {"a", "b", "c", "x", "y", "z"}
AllFlags == {"fg"}
AllValues == {"default", "red"}
Fg(value) == WithFlag(NoAttributes, "fg", value)
AllPens == {NoAttributes, Fg("red")}
Page(columns, lines) == [columns |-> columns, lines |-> lines]
AllSizes == {Page(2, 2), Page(3, 1)}
First == Page(2, 2)
Red == Fg("red")
AllFirstLines ==
  LET red == LineAddText(NewLineOfBuffer, 0, <<"x", "y">>, Red, FALSE)
  IN {NewLineOfBuffer,
      LineAddText(red, 1, <<"z">>, NoAttributes, FALSE),
      LineEraseText(red, 1, 0, Red),
      LineAddText(LineEraseText(red, 0, 2, NoAttributes), 1, <<"z">>, Red, TRUE)}
AllTexts == {<<"a", "b">>, <<"c", "nl">>}
=============================================================================
