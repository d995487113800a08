--------------------------- MODULE TermAttributes ---------------------------
(***************************************************************************)
(* The attributes of terminal text (widgets/TextTerminal.cpp, class        *)
(* terminal::Attributes).  Each flag - font style, decoration, mode, the   *)
(* two colours - is unset or set to a value, which may be the default.     *)
(* The line of a terminal holds attributes where they change, so that what *)
(* an object says depends on what precedes it.                             *)
(***************************************************************************)
CONSTANTS
  Flags,          \* FlagFontStyle, FlagDecoration, FlagMode, FlagFg, FlagBg
  Values,         \* what a flag may be set to
  Default,        \* Regular, None, Normal, ColorDefault
  Unset           \* the bit of m_set is clear

ASSUME ValuesAssumption == Default \in Values /\ Unset \notin Values

Attributes == [Flags -> Values \cup {Unset}]

NoAttributes == [f \in Flags |-> Unset]

(* set_fg(), set_font_style(), ... *)
WithFlag(attr, flag, value) == [attr EXCEPT ![flag] = value]

(* decode(): what is read adds to what the object was. *)
Decoded(attr, read) ==
  [f \in Flags |-> IF read[f] = Unset THEN attr[f] ELSE read[f]]

(* preceded_by(): the changes that have to be written after `other', so    *)
(* that `attr' is in effect.                                               *)
PrecededBy(attr, other) ==
  [f \in Flags |->
     CASE attr[f] = other[f] -> Unset
       [] attr[f] = Unset /\ other[f] \notin {Unset, Default} -> Default
       [] OTHER -> attr[f]]

-----------------------------------------------------------------------------
(* What is in effect, which is what render() tells a renderer that starts  *)
(* each line with the defaults.                                            *)
Effective(attr) == [f \in Flags |-> IF attr[f] = Unset THEN Default ELSE attr[f]]

Effects == [Flags -> Values]
=============================================================================
