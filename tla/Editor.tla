-------------------------------- MODULE Editor --------------------------------
(***************************************************************************)
(* What the user of a line editor with a history relies on.  The lines     *)
(* entered before and the new one are a stack of cards: one of them is     *)
(* being edited, Up and Down turn to another one, and each keeps the       *)
(* changes made to it until one of them is entered.  The keys take effect  *)
(* in the order they are typed.  EditLine is shown to implement it.        *)
(***************************************************************************)
EXTENDS Integers, Sequences, FiniteSetsExt

CONSTANTS
  Keys,               \* the keys of the keyboard
  Pasts,              \* what may have been entered before
  IsWord(_),          \* the characters of words
  IsOpen(_),          \* whether a text is to be continued on another line
  IsPlain(_),         \* whether a character takes one byte
  Trimmed(_)          \* a text without the white space around it

VARIABLES
  keys,               \* typed and without effect yet
  past,               \* the lines entered, as another session will see them
  lines,              \* the lines of this session, the new one last
  at,                 \* the line that is edited
  kept,               \* what it was before, unless it is the new one
  pos,                \* how many of its characters are before the cursor
  phase               \* "editing", "entered", "cancelled" or "left"

vars == <<keys, past, lines, at, kept, pos, phase>>

NewLine == 10

Text == lines[at]
Size == Len(Text)
Before == SubSeq(Text, 1, pos)
After == SubSeq(Text, pos + 1, Size)

Held(mod, key) == [key |-> key, mod |-> mod, unicode |-> 0]
Plain(key) == Held({}, key)
Modified(key) == {Held({"Alt"}, key), Held({"Ctrl"}, key)}
Control(char) == [key |-> "UnicodeChar", mod |-> {"Ctrl"}, unicode |-> char]
AltChar(char) == [key |-> "UnicodeChar", mod |-> {"Alt"}, unicode |-> char]

-----------------------------------------------------------------------------
(* The keys of the cursor, and where each takes it.                        *)

LineBegins(i) == i = 0 \/ Text[i] = NewLine
LineEnds(i) == i = Size \/ Text[i + 1] = NewLine
WordBegins(i) == i < Size /\ IsWord(Text[i + 1]) /\ (i = 0 \/ ~IsWord(Text[i]))
WordEnds(i) == i > 0 /\ IsWord(Text[i]) /\ (i = Size \/ ~IsWord(Text[i + 1]))

BeginOf(i) == Max({j \in 0 .. i : LineBegins(j)})
EndOf(i) == Min({j \in i .. Size : LineEnds(j)})

WordLeft == Max({0} \cup {i \in 0 .. pos - 1 : WordBegins(i)})
WordRight == Min({Size} \cup {i \in pos + 1 .. Size : WordEnds(i)})

(* Up and down within the text: to the same column of the other line, or   *)
(* its end.  Two exceptions are the code's: from the second line to an     *)
(* empty first one, and to a shorter line with longer characters; then the *)
(* cursor may go anywhere.                                                 *)
InLine(begin) ==
  LET column == pos - BeginOf(pos)
      end == EndOf(begin)
      exact == /\ begin + column <= end
                  \/ \A i \in begin + 1 .. end : IsPlain(Text[i])
               /\ ~(begin = 0 /\ end = 0 /\ pos > 0)
  IN IF exact THEN {Min({begin + column, end})} ELSE 0 .. Size

UpTargets ==
  IF BeginOf(pos) = 0 THEN {pos} ELSE InLine(BeginOf(BeginOf(pos) - 1))
DownTargets ==
  IF EndOf(pos) = Size THEN {pos} ELSE InLine(EndOf(pos) + 1)

Targets(key) ==
  CASE key \in {Plain("Left"), Control(98)} -> {Max({0, pos - 1})}
    [] key \in {Plain("Right"), Control(102)} -> {Min({Size, pos + 1})}
    [] key \in {Plain("Home"), Control(97)} \cup Modified("Home") -> {BeginOf(pos)}
    [] key \in {Plain("End"), Control(101)} \cup Modified("End") -> {EndOf(pos)}
    [] key = Plain("PageUp") -> {0}
    [] key = Plain("PageDown") -> {Size}
    [] key \in {AltChar(98)} \cup Modified("Left") -> {WordLeft}
    [] key \in {AltChar(102)} \cup Modified("Right") -> {WordRight}
    [] key \in Modified("Up") -> UpTargets
    [] key \in Modified("Down") -> DownTargets
    [] OTHER -> {}

-----------------------------------------------------------------------------
(* The keys of editing: what each cuts out of the text around the cursor,  *)
(* and what it puts there.                                                 *)

Cut(from, to) == SubSeq(Text, 1, from) \o SubSeq(Text, to + 1, Size)

Erases(key) ==
  CASE key = Plain("Backspace") -> <<Max({0, pos - 1}), pos>>
    [] key \in {Plain("Delete"), Control(100)} -> <<pos, Min({Size, pos + 1})>>
    [] key \in Modified("Backspace") -> <<WordLeft, pos>>
    [] key \in {AltChar(100)} \cup Modified("Delete") -> <<pos, WordRight>>
    [] OTHER -> <<pos, pos>>

Enters(key) == key = Plain("Enter") /\ ~IsOpen(Text)

Inserts(key) ==
  CASE key.key = "UnicodeChar" /\ key.mod = {} -> <<key.unicode>>
    [] key \in Modified("Enter") \/ (key = Plain("Enter") /\ IsOpen(Text)) -> <<NewLine>>
    [] OTHER -> <<>>

Cancels(key) == key = Control(99) \/ (key = Control(100) /\ Size = 0)

(* The keys of the history. *)
Turns(key) ==
  CASE key \in {Plain("Up"), Control(112)} /\ at > 1 -> at - 1
    [] key \in {Plain("Down"), Control(110)} /\ at < Len(lines) -> at + 1
    [] OTHER -> at

-----------------------------------------------------------------------------
Became(text, cursor) ==
  /\ lines' = [lines EXCEPT ![at] = text]
  /\ pos' = cursor
  /\ UNCHANGED <<at, kept>>

TurnTo(line) ==
  /\ at' = line
  /\ kept' = IF line = Len(lines) THEN <<>> ELSE lines[line]
  /\ pos' = Len(lines[line])
  /\ UNCHANGED lines

Move(key) == \E target \in Targets(key) : Became(Text, target)

Edit(key) ==
  LET cut == Erases(key)
  IN /\ Targets(key) = {} /\ Turns(key) = at
     /\ IF Inserts(key) # <<>>
        THEN Became(Before \o Inserts(key) \o After, pos + 1)
        ELSE Became(Cut(cut[1], cut[2]), cut[1])

Turn(key) == Turns(key) # at /\ TurnTo(Turns(key))

Handle ==
  /\ phase = "editing" /\ keys # <<>>
  /\ LET key == Head(keys)
     IN /\ Move(key) \/ Edit(key) \/ Turn(key)
        /\ phase' = IF Enters(key) THEN "entered"
                    ELSE IF Cancels(key) THEN "cancelled" ELSE phase
  /\ keys' = Tail(keys)
  /\ UNCHANGED past

(* A key is typed. *)
Type ==
  /\ \E key \in Keys : keys' = Append(keys, key)
  /\ UNCHANGED <<past, lines, at, kept, pos, phase>>

(* The terminal is closed: the line is entered as it is. *)
HangUp ==
  /\ phase = "editing"
  /\ phase' = "entered"
  /\ UNCHANGED <<keys, past, lines, at, kept, pos>>

(* On to a new line.  The changes of the line that was entered, when it is *)
(* one from the history, are not those of the history.                     *)
Earlier == [i \in 1 .. Len(lines) - 1 |-> IF i = at THEN kept ELSE lines[i]]

NewLineAfter(earlier) ==
  /\ lines' = Append(earlier, <<>>)
  /\ at' = Len(earlier) + 1
  /\ kept' = <<>>
  /\ pos' = 0
  /\ phase' = "editing"
  /\ UNCHANGED keys

(* The line is remembered, for this session and the next ones, unless it   *)
(* is blank or the same as the last one of this session.                   *)
Remember ==
  LET line == Trimmed(Text)
      repeated == Earlier # <<>> /\ Earlier[Len(Earlier)] = line
  IN /\ phase = "entered"
     /\ IF line = <<>> \/ repeated
        THEN NewLineAfter(Earlier) /\ UNCHANGED past
        ELSE NewLineAfter(Append(Earlier, line)) /\ past' = Append(past, line)

Cancel ==
  /\ phase = "cancelled"
  /\ UNCHANGED past
  /\ \/ NewLineAfter(Earlier)
     \/ /\ phase' = "left"
        /\ lines' = Append(Earlier, Text) /\ at' = Len(lines) /\ kept' = <<>>
        /\ UNCHANGED <<keys, pos>>

(* The program is started anew, whatever it was doing. *)
Restart ==
  /\ keys' = <<>>
  /\ lines' = Append(past, <<>>)
  /\ at' = Len(past) + 1
  /\ kept' = <<>>
  /\ pos' = 0
  /\ phase' = "editing"
  /\ UNCHANGED past

Init ==
  /\ keys = <<>>
  /\ past \in Pasts
  /\ lines = Append(past, <<>>)
  /\ at = Len(lines)
  /\ kept = <<>>
  /\ pos = 0
  /\ phase = "editing"

Next == Type \/ Handle \/ HangUp \/ Remember \/ Cancel \/ Restart

Spec == Init /\ [][Next]_vars
=============================================================================
