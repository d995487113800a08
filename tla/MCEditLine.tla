------------------------------ MODULE MCEditLine ------------------------------
(***************************************************************************)
(* A keyboard with a letter, a wide letter and an opening bracket that     *)
(* continues the text on the next line, and one key for each operation,    *)
(* as an xterm sends it.                                                   *)
(***************************************************************************)
EXTENDS EditLine

Letter == 120            \* x
WideLetter == 27827      \* U+6CB3
Open == 40               \* (

TextOpen(text) == \E i \in DOMAIN text : text[i] = Open
WordChar(char) == char \in {Letter, WideLetter}
Columns(char) == IF char = WideLetter THEN 2 ELSE 1

PromptText == <<62, 32>>     \* "> "

K(mod, key) == [key |-> key, mod |-> mod, unicode |-> 0]
Char(mod, char) == [key |-> "UnicodeChar", mod |-> mod, unicode |-> char]

(* The byte of an encoding that is not UTF-8. *)
Stray == K({}, "Unknown")

CsiLetter == [Up |-> 65, Down |-> 66, Right |-> 67, Left |-> 68, End |-> 70, Home |-> 72]
CsiNumber == [Delete |-> 51, PageUp |-> 53, PageDown |-> 54]

Csi(key, parameter) ==
  IF key \in DOMAIN CsiLetter
  THEN <<27, 91>> \o (IF parameter = <<>> THEN <<>> ELSE <<49, 59>> \o parameter)
         \o <<CsiLetter[key]>>
  ELSE <<27, 91, CsiNumber[key]>>
         \o (IF parameter = <<>> THEN <<>> ELSE <<59>> \o parameter) \o <<126>>

Utf8(char) == IF char = WideLetter THEN <<230, 178, 179>> ELSE <<char>>

PlainBytes(key) ==
  CASE key.key = "UnicodeChar" -> Utf8(key.unicode)
    [] key.key = "Enter" -> <<13>>
    [] key.key = "Backspace" -> <<127>>
    [] key.key = "Unknown" -> <<233>>
    [] OTHER -> Csi(key.key, <<>>)

KeyBytes(key) ==
  CASE key.mod = {} -> PlainBytes(key)
    [] key.mod = {"Alt"} -> <<27>> \o PlainBytes(key)
    [] key.mod = {"Ctrl"} /\ key.key = "UnicodeChar" -> <<key.unicode - 96>>
    [] OTHER -> Csi(key.key, <<53>>)

WordKeys ==
  {Char({}, Letter), Char({}, Open), K({}, "Left"), K({"Ctrl"}, "Left"),
   Char({"Alt"}, 102), K({}, "Backspace"), K({}, "Delete"), K({"Alt"}, "Backspace"),
   Char({"Alt"}, 100), K({}, "Up")}

LineKeys ==
  {Char({}, WideLetter), K({"Alt"}, "Enter"), K({}, "Right"), K({}, "Home"), Char({"Ctrl"}, 101),
   K({}, "PageUp"), K({}, "PageDown"), K({"Alt"}, "Up"), K({"Ctrl"}, "Down"), K({}, "Up")}

HistoryKeys ==
  {Char({}, Letter), Char({}, Open), K({}, "Enter"), K({}, "Up"), Char({"Ctrl"}, 110),
   K({}, "Backspace"), Char({"Ctrl"}, 99), Char({"Ctrl"}, 100)}

AllKeyboards == {WordKeys, LineKeys, HistoryKeys}

StrayKeyboards == {{Char({}, Letter), K({}, "Enter"), Stray}}

Files ==
  {<<>>,
   <<Row(" ", <<Letter>>)>>,
   <<Row("~", <<Letter, Open>>), Row("|", <<>>), Row("|", <<WideLetter>>),
     Row(" ", <<Letter, 32, WideLetter>>)>>,
   <<Row("~", <<WideLetter>>), Row("|", <<Letter, Letter, Letter>>)>>}

EmptyFile == {<<>>}
=============================================================================
