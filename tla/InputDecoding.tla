---------------------------- MODULE InputDecoding ----------------------------
(***************************************************************************)
(* The keys in the bytes a terminal sends (TermCtl::decode_input and class *)
(* TermInputSeq of core/TermCtl.cpp).  What is decoded from the head of    *)
(* the input is a record of its length, 0 when there is nothing complete,  *)
(* the key, the modifiers and the code point when the key is a character.  *)
(***************************************************************************)
EXTENDS Integers, SequencesExt

Escape == 27
Bracket == 91          \* [
LetterO == 79
Tilde == 126
Semicolon == 59
Digits == 48 .. 57
Letters == 65 .. 90    \* A to Z

Decoded(len, key, mod, unicode) ==
  [len |-> len, key |-> key, mod |-> mod, unicode |-> unicode]

Nothing == Decoded(0, "Unknown", {}, 0)

Key(len, key, mod) == Decoded(len, key, mod, 0)

-----------------------------------------------------------------------------
(* The keys of TermInputSeq: of a control character, of CSI with a number  *)
(* and ~, of CSI and of SS3 with a letter.                                 *)

ControlKey(byte) ==
  CASE byte = 8 -> "Backspace" [] byte = 127 -> "Backspace"
    [] byte = 9 -> "Tab"
    [] byte = 10 -> "Enter" [] byte = 13 -> "Enter"
    [] OTHER -> "Unknown"

NumberKey(n) ==
  CASE n = 2 -> "Insert" [] n = 3 -> "Delete"
    [] n = 5 -> "PageUp" [] n = 6 -> "PageDown"
    [] n \in {15, 17, 18, 19, 20, 21, 23, 24} -> "Function"
    [] OTHER -> "Unknown"

FunctionLetters == 80 .. 83    \* P to S

CsiKey(letter) ==
  CASE letter = 65 -> "Up" [] letter = 66 -> "Down"
    [] letter = 67 -> "Right" [] letter = 68 -> "Left"
    [] letter = 70 -> "End" [] letter = 72 -> "Home"
    [] letter \in FunctionLetters -> "Function"
    [] OTHER -> "Unknown"

Ss3Key(letter) == IF letter \in FunctionLetters THEN "Function" ELSE "Unknown"

(* decode_mod: the parameter less one is a set of flags. *)
FlagBit == [Shift |-> 1, Alt |-> 2, Ctrl |-> 4, Meta |-> 8]

ModifierOf(arg) ==
  {flag \in DOMAIN FlagBit : arg # 0 /\ ((arg - 1) \div FlagBit[flag]) % 2 = 1}

(* The numeric parameters of a CSI sequence. *)
Arguments(bytes) ==
  FoldLeft(LAMBDA args, byte :
             IF byte = Semicolon THEN Append(args, 0)
             ELSE [args EXCEPT ![Len(args)] = 10 * args[Len(args)] + (byte - 48)],
           <<0>>, bytes)

CsiSequence(input) ==
  LET finals == {i \in 3 .. Len(input) : input[i] \notin Digits \cup {Semicolon}}
      len == Min(finals)
      args == Arguments(SubSeq(input, 3, len - 1))
      mod == ModifierOf(IF Len(args) > 1 THEN args[2] ELSE 0)
  IN IF finals = {} THEN Nothing
     ELSE IF input[len] = Tilde /\ args[1] \in 1 .. 24
     THEN Key(len, NumberKey(args[1]), mod)
     ELSE IF input[len] \in Letters
     THEN Key(len, CsiKey(input[len]), mod)
     ELSE Key(len, "Unknown", {})

(* TermInputSeq::_lookup *)
Lookup(input) ==
  IF input = <<>> THEN Nothing
  ELSE IF input[1] # Escape
  THEN IF ControlKey(input[1]) = "Unknown" THEN Nothing
       ELSE Key(1, ControlKey(input[1]), {})
  ELSE IF Len(input) < 3 THEN Nothing
  ELSE IF input[2] = Bracket THEN CsiSequence(input)
  ELSE IF input[2] = LetterO
  THEN Key(3, IF input[3] \in Letters THEN Ss3Key(input[3]) ELSE "Unknown", {})
  ELSE Nothing

-----------------------------------------------------------------------------
(* utf8_codepoint_and_length (string.cpp).  An incomplete character and a  *)
(* corrupted one have the length 0 alike: the -1 of the corrupted one is   *)
(* in the place of the code point.                                         *)

Continuation(byte) == byte \div 64 = 2

CodePoint(bytes) ==
  LET n == Len(bytes)
      lead == bytes[1]
      C(i) == bytes[i] % 64
      None == [len |-> 0, unicode |-> 0]
      Corrupted == [len |-> 0, unicode |-> -1]
  IN IF n = 0 THEN None
     ELSE IF lead < 128 THEN [len |-> 1, unicode |-> lead]
     ELSE IF n = 1 THEN None
     ELSE IF ~Continuation(bytes[2]) THEN Corrupted
     ELSE IF lead \div 32 = 6
     THEN [len |-> 2, unicode |-> (lead % 32) * 64 + C(2)]
     ELSE IF n = 2 THEN None
     ELSE IF ~Continuation(bytes[3]) THEN Corrupted
     ELSE IF lead \div 16 = 14
     THEN [len |-> 3, unicode |-> ((lead % 16) * 64 + C(2)) * 64 + C(3)]
     ELSE IF n = 3 THEN None
     ELSE IF ~Continuation(bytes[4]) THEN Corrupted
     ELSE IF lead \div 8 = 30
     THEN [len |-> 4,
           unicode |-> (((lead % 8) * 64 + C(2)) * 64 + C(3)) * 64 + C(4)]
     ELSE Corrupted

(* The rest of decode_input: a control character or UTF-8, after an ESC    *)
(* when Alt is held.                                                       *)
DecodeChar(input, offset, mod) ==
  LET byte == input[offset + 1]
      char == CodePoint(SubSeq(input, offset + 1, Len(input)))
  IN IF byte < 32
     THEN Decoded(offset + 1, "UnicodeChar", mod \cup {"Ctrl"},
                  IF byte \in 1 .. 26 THEN byte + 96 ELSE byte + 64)
     ELSE IF char.len > 0
     THEN Decoded(char.len + offset, "UnicodeChar", mod, char.unicode)
     ELSE IF char.len = 0 THEN Nothing
     ELSE Key(1 + offset, "Unknown", {})

(* ESC that starts no complete sequence: the key itself, or Alt with what  *)
(* follows.                                                                *)
DecodeEscaped(input) ==
  LET sequence == Lookup(Tail(input))
  IN IF Len(input) = 1 THEN Key(1, "Escape", {})
     ELSE IF sequence.len # 0
     THEN Key(sequence.len + 1, sequence.key, sequence.mod \cup {"Alt"})
     ELSE IF input[2] = Escape THEN Key(2, "Escape", {"Alt"})
     ELSE DecodeChar(input, 1, {"Alt"})

DecodeInput(input) ==
  LET sequence == Lookup(input)
  IN IF input = <<>> THEN Nothing
     ELSE IF sequence.len # 0 THEN sequence
     ELSE IF input[1] = Escape THEN DecodeEscaped(input)
     ELSE DecodeChar(input, 0, {})

(* Modifier::normalized *)
Normalized(mod) ==
  (mod \cap {"Ctrl"}) \cup (IF mod \cap {"Alt", "Meta"} # {} THEN {"Alt"} ELSE {})
=============================================================================
