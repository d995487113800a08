------------------------------- MODULE EditLine -------------------------------
(***************************************************************************)
(* The line editor (class EditLine of core/EditLine.cpp) in its client,    *)
(* the prompt of fire (tools/fire_script/Program.cpp): in a loop of its    *)
(* own that reads the terminal (repl_loop), or fed by a page that embeds   *)
(* it (repl_prompt and repl_step).  The terminal delivers what is typed as *)
(* bytes, in pieces of any size.  What is typed without effect yet is kept *)
(* as keys beside, to say what the bytes stand for.                        *)
(***************************************************************************)
EXTENDS EditBuffer, InputDecoding, TextScreen

CONSTANTS
  Keyboards,          \* sets of keys: those of one are typed in a behaviour
  Encoding(_),        \* the bytes the terminal sends for a key
  IsOpen(_),          \* the is_open of the highlighter
  Prompt,             \* the text of the prompt
  IsMultiline,        \* the flag EditLine is created with
  SplitsSequences,    \* whether an escape sequence may arrive in two pieces
  FirstFiles,         \* the history files at the start
  MaxKeys,            \* bound: keys typed in all
  MaxPending,         \* bound: keys typed and not read yet
  MaxRestarts         \* bound: starts of the program after the first one

(* A key is sent as bytes that decode to it, and not as bytes that begin   *)
(* longer sequences, too.  Bytes that are no key are typed as "Unknown".   *)
Introducers == {<<Escape>>, <<Escape, Escape>>, <<Escape, Bracket>>, <<Escape, LetterO>>}

IsSentAs(key, bytes) ==
  /\ bytes \in Seq(0 .. 255) \ ({<<>>} \cup Introducers)
  /\ LET decoded == DecodeInput(bytes)
     IN /\ decoded.len = Len(bytes)
        /\ key = [key |-> decoded.key, mod |-> Normalized(decoded.mod),
                  unicode |-> decoded.unicode]

ASSUME EncodingAssumption ==
  \A key \in UNION Keyboards : key.key # "Unknown" => IsSentAs(key, Encoding(key))

(* What texts consist of.  Characters have no width of zero, and a line    *)
(* feed counts as one column.                                              *)
Characters ==
  {LineFeed} \cup {key.unicode : key \in UNION Keyboards}
    \cup UNION {UNION {Range(f[i].text) : i \in DOMAIN f} : f \in FirstFiles}

(* The characters in front of the lines of the history file. *)
Tags == {" ", "~", "|"} \cup UNION {{f[i].tag : i \in DOMAIN f} : f \in FirstFiles}

ASSUME CharactersAssumption ==
  Characters \subseteq Nat /\ FirstFiles \subseteq Seq([tag : Tags, text : Seq(Characters)])

ASSUME WidthAssumption ==
  /\ Width(LineFeed) = 1
  /\ \A char \in Characters : Width(char) \in {1, 2}
  /\ \A i \in DOMAIN Prompt : Width(Prompt[i]) \in {1, 2}
  /\ Prompt \in Seq(Nat)

(* Nothing is open in an empty text. *)
ASSUME EmptyIsClosed == IsOpen(<<>>) = FALSE

VARIABLES
  stepping,           \* the client: repl_step or repl_loop
  keyboard,           \* the keys that are typed
  pc,                 \* "process", "read" or "idle" (waiting), "finish", "left"
  state,              \* m_state
  buffer,             \* m_edit_buffer
  input,              \* m_input_buffer
  cursorLine,         \* m_cursor_line
  continueNl,         \* m_edit_continue_nl
  history,            \* m_history
  historyCursor,      \* m_history_cursor
  origBuffer,         \* m_history_orig_buffer
  file,               \* the lines of the history file
  screen,             \* what the terminal shows, from the row above the prompt
  tty,                \* sent by the terminal and not read yet, key by key
  closed,             \* the terminal is closed
  typed,              \* the keys of input and tty
  remains,            \* a line that was not entered may be shown at the prompt
  count, restarts     \* keys typed, starts, for the bounds

terminal == <<tty, closed, count>>
bounds == <<stepping, keyboard, restarts>>
historyVars == <<history, historyCursor, origBuffer>>
vars == <<stepping, keyboard, pc, state, buffer, input, cursorLine, continueNl,
          history, historyCursor, origBuffer, file, screen, tty, closed, typed, remains,
          count, restarts>>

-----------------------------------------------------------------------------
(* The history file: a line of the file for each line of an item, with a   *)
(* character in front that tells where an item begins.                     *)

Row(tag, text) == [tag |-> tag, text |-> text]

WithChar(lines, char) ==
  IF char = LineFeed THEN Append(lines, <<>>)
  ELSE [lines EXCEPT ![Len(lines)] = Append(lines[Len(lines)], char)]

SplitLines(text) ==
  LET lines[n \in 0 .. Len(text)] ==
        IF n = 0 THEN <<(<<>>)>> ELSE WithChar(lines[n - 1], text[n])
  IN lines[Len(text)]

(* open_history_file appends a line "|" to the item before.  What it does   *)
(* when there is none yet is undefined: no file at the start is like this,  *)
(* and add_history writes none.                                            *)
ASSUME FilesAssumption ==
  \A f \in FirstFiles : \A n \in DOMAIN f :
    f[n].tag = "|" => \E m \in 1 .. n - 1 : f[m].tag \in {" ", "~"}

(* add_history: what is appended to the file *)
Written(text) ==
  LET lines == SplitLines(text)
  IN [i \in DOMAIN lines |->
        Row(IF Len(lines) = 1 THEN " " ELSE IF i = 1 THEN "~" ELSE "|", lines[i])]

(* open_history_file *)
WithRow(items, row) ==
  CASE row.tag \in {" ", "~"} -> Append(items, row.text)
    [] row.tag = "|" ->
         [items EXCEPT ![Len(items)] = items[Len(items)] \o <<LineFeed>> \o row.text]
    [] OTHER -> items

Loaded(rows) ==
  LET items[n \in 0 .. Len(rows)] ==
        IF n = 0 THEN <<>> ELSE WithRow(items[n - 1], rows[n])
  IN items[Len(rows)]

(* string.h: strip *)
WhiteSpace == {32} \cup 9 .. 13

Stripped(text) ==
  LET visible == {i \in DOMAIN text : text[i] \notin WhiteSpace}
  IN IF visible = {} THEN <<>> ELSE SubSeq(text, Min(visible), Max(visible))

-----------------------------------------------------------------------------
(* The result of a key: the editor after it, and whether it is redrawn.    *)
(* An editor is a record of what a key may change.                         *)

Now == [buffer |-> buffer, state |-> "Continue", history |-> history,
        cursor |-> historyCursor, orig |-> origBuffer, redraw |-> TRUE]

Ignored == [Now EXCEPT !.redraw = FALSE]

Edited(b) == [Now EXCEPT !.buffer = b, !.redraw = (b # buffer)]

Stopped(why) == [Now EXCEPT !.state = why]

(* history_previous *)
HistoryPrevious ==
  LET browsing == historyCursor # -1
      items == IF browsing THEN [history EXCEPT ![historyCursor + 1] = buffer.content]
               ELSE history
      cursor == IF browsing THEN historyCursor ELSE Len(history)
  IN IF historyCursor = 0 \/ (~browsing /\ history = <<>>) THEN Ignored
     ELSE [Now EXCEPT !.buffer = WithContent(items[cursor]),
                      !.history = items,
                      !.cursor = cursor - 1,
                      !.orig = IF browsing THEN origBuffer ELSE buffer.content]

(* history_next: past the last item, back to what was there before.  What  *)
(* is moved out of m_history_orig_buffer is not read again.                *)
HistoryNext ==
  LET items == [history EXCEPT ![historyCursor + 1] = buffer.content]
      next == historyCursor + 1
  IN IF historyCursor = -1 THEN Ignored
     ELSE IF next >= Len(history)
     THEN [Now EXCEPT !.buffer = WithContent(origBuffer), !.history = items,
                      !.cursor = -1, !.orig = <<>>]
     ELSE [Now EXCEPT !.buffer = WithContent(items[next + 1]), !.history = items,
                      !.cursor = next]

(* process_key, process_alt_key, process_alt_char, process_ctrl_char *)
ProcessKey(key) ==
  CASE key = "Backspace" -> Edited(DeleteLeft(buffer))
    [] key = "Delete" -> Edited(DeleteRight(buffer))
    [] key = "Home" -> Edited(MoveToLineBeginning(buffer))
    [] key = "End" -> Edited(MoveToLineEnd(buffer))
    [] key = "Left" -> Edited(MoveLeft(buffer))
    [] key = "Right" -> Edited(MoveRight(buffer))
    [] key = "Up" -> HistoryPrevious
    [] key = "Down" -> HistoryNext
    [] key = "PageUp" -> Edited(MoveToBeginning(buffer))
    [] key = "PageDown" -> Edited(MoveToEnd(buffer))
    [] OTHER -> Ignored

ProcessAltKey(key) ==
  CASE key = "Enter" /\ IsMultiline -> Edited(Insert(buffer, <<LineFeed>>))
    [] key = "Backspace" -> Edited(DeleteWordLeft(buffer))
    [] key = "Delete" -> Edited(DeleteWordRight(buffer))
    [] key = "Home" -> Edited(MoveToLineBeginning(buffer))
    [] key = "End" -> Edited(MoveToLineEnd(buffer))
    [] key = "Left" -> Edited(SkipWordLeft(buffer))
    [] key = "Right" -> Edited(SkipWordRight(buffer))
    [] key = "Up" -> Edited(MoveUp(buffer))
    [] key = "Down" -> Edited(MoveDown(buffer))
    [] OTHER -> Ignored

ProcessAltChar(char) ==
  CASE char = 98 -> Edited(SkipWordLeft(buffer))        \* b
    [] char = 102 -> Edited(SkipWordRight(buffer))      \* f
    [] char = 100 -> Edited(DeleteWordRight(buffer))    \* d
    [] OTHER -> Ignored

ProcessCtrlChar(char) ==
  CASE char = 99 -> Stopped("ControlBreak")             \* c
    [] char = 100 /\ buffer.content = <<>> -> Stopped("ControlBreak")
    [] char = 100 /\ buffer.content # <<>> -> Edited(DeleteRight(buffer))
    [] char = 97 -> Edited(MoveToLineBeginning(buffer)) \* a
    [] char = 101 -> Edited(MoveToLineEnd(buffer))      \* e
    [] char = 98 -> Edited(MoveLeft(buffer))            \* b
    [] char = 102 -> Edited(MoveRight(buffer))          \* f
    [] char = 112 -> HistoryPrevious                    \* p
    [] char = 110 -> HistoryNext                        \* n
    [] OTHER -> Ignored

ProcessEnter ==
  IF IsMultiline /\ continueNl THEN Edited(Insert(buffer, <<LineFeed>>))
  ELSE Stopped("Finished")

ProcessPlain(key, char) ==
  CASE key = "Enter" -> ProcessEnter
    [] key = "UnicodeChar" -> Edited(Insert(buffer, <<char>>))
    [] OTHER -> ProcessKey(key)

(* The part of process_input between decoding and drawing. *)
Dispatched(decoded) ==
  LET mod == Normalized(decoded.mod)
      isChar == decoded.key = "UnicodeChar"
  IN CASE mod = {} -> ProcessPlain(decoded.key, decoded.unicode)
       [] mod = {"Alt"} /\ isChar -> ProcessAltChar(decoded.unicode)
       [] mod = {"Ctrl"} /\ isChar -> ProcessCtrlChar(decoded.unicode)
       [] mod \in {{"Alt"}, {"Ctrl"}} /\ ~isChar -> ProcessAltKey(decoded.key)
       [] OTHER -> Ignored

-----------------------------------------------------------------------------
(* Drawing.  The text is written line by line below the prompt, and the    *)
(* line with the cursor is found by counting its width down.               *)

PromptLen == WidthOf(Prompt)

DrawLine(d, text) ==
  LET first == d.count = 0
      below == IF first THEN d.screen ELSE ToColumn(NextRow(d.screen), PromptLen)
      line == IF first THEN d.line ELSE d.line + 1
      width == WidthOf(text)
      here == ~d.found /\ d.cursor <= width
  IN [screen |-> Put(below, text),
      count |-> d.count + 1,
      line |-> line,
      found |-> d.found \/ here,
      cursor |-> IF d.found \/ here THEN d.cursor ELSE d.cursor - (width + 1),
      row |-> IF here THEN line ELSE d.row,
      col |-> IF here THEN PromptLen + d.cursor ELSE d.col]

\* Mutant: the rows below the prompt are not gone up.
ClearedHere(s) == ClearDown(ToColumn(s, PromptLen))

Cleared(s) ==
  ClearDown(ToColumn(IF cursorLine = 0 THEN s ELSE MoveUpRows(s, cursorLine), PromptLen))

LineBreak(s) == ToColumn(NextRow(s), 0)

DrawLines(start, lines) ==
  LET d[n \in 0 .. Len(lines)] == IF n = 0 THEN start ELSE DrawLine(d[n - 1], lines[n])
  IN d[Len(lines)]

(* The screen and m_cursor_line after the drawing of buffer b. *)
Drawn(b, why) ==
  LET cursor == WidthOf(SubSeq(b.content, 1, b.cursor))
      d == DrawLines([screen |-> Cleared(screen), count |-> 0, line |-> 0,
                      found |-> FALSE, cursor |-> cursor, row |-> 0, col |-> 0],
                     SplitLines(b.content))
      single == ToColumn(Put(Cleared(screen), b.content), PromptLen + cursor)
  IN CASE ~IsMultiline ->
            [screen |-> IF why = "Finished" THEN LineBreak(single) ELSE single, line |-> 0]
       [] IsMultiline /\ why = "Continue" ->
            [screen |-> ToColumn(IF d.row = d.line THEN d.screen
                                 ELSE MoveUpRows(d.screen, d.line - d.row), d.col),
             line |-> d.row]
       [] IsMultiline /\ why = "ControlBreak" -> [screen |-> d.screen, line |-> d.line]
       [] OTHER -> [screen |-> LineBreak(d.screen), line |-> d.line]

(* start_input, after the client's own output: the terminal scrolls, only  *)
(* one row above the prompt is kept.                                       *)
Above == <<45, 45>>

Prompted(s) ==
  Put(Screen(<<Above>> \o SubSeq(s.rows, s.r, Len(s.rows)), 2, 0), Prompt)

StartInput ==
  /\ buffer' = EmptyBuffer
  /\ continueNl' = FALSE
  /\ cursorLine' = 0

-----------------------------------------------------------------------------
(* process_input, which advance_input and the loop of input call until it  *)
(* needs more input or the line is finished.                               *)

Waiting == IF stepping THEN "idle" ELSE "read"

NeedMoreInput ==
  /\ pc = "process" /\ DecodeInput(input).len = 0
  /\ state' = "NeedMoreInputData"
  /\ pc' = Waiting
  /\ UNCHANGED <<buffer, input, cursorLine, continueNl, file, screen, typed, remains,
                 historyVars, terminal, bounds>>

Redraw(e) ==
  \E drawn \in {Drawn(e.buffer, e.state)} :
    /\ screen' = drawn.screen
    /\ cursorLine' = drawn.line
    /\ continueNl' = IsOpen(e.buffer.content)
    /\ remains' = FALSE

ProcessInput ==
  \E decoded \in {DecodeInput(input)} :
    /\ pc = "process" /\ decoded.len # 0
    /\ input' = SubSeq(input, decoded.len + 1, Len(input))
    /\ typed' = SubSeq(typed, 2, Len(typed))
    /\ \E e \in {Dispatched(decoded)} :
         /\ buffer' = e.buffer
         /\ state' = e.state
         /\ history' = e.history
         /\ historyCursor' = e.cursor
         /\ origBuffer' = e.orig
         /\ pc' = IF e.state = "Continue" THEN "process" ELSE "finish"
         /\ IF e.redraw THEN Redraw(e)
            ELSE UNCHANGED <<screen, cursorLine, continueNl, remains>>
    /\ UNCHANGED <<file, terminal, bounds>>

(* read_input, or feed_input with what the page received: any part of what *)
(* the terminal sent.  A character may be cut in two, an escape sequence   *)
(* is sent as one.                                                         *)
MayCut(bytes, n) == n = 0 \/ SplitsSequences \/ bytes[1] # Escape

Receive ==
  /\ pc = Waiting /\ tty # <<>>
  /\ \E n \in 0 .. Len(tty) :
       \E part \in 0 .. (IF n < Len(tty) THEN Len(tty[n + 1]) - 1 ELSE 0) :
         LET rest == SubSeq(tty, n + 1, Len(tty))
         IN /\ n + part > 0
            /\ part > 0 => MayCut(rest[1], part)
            /\ input' = input \o FlattenSeq(SubSeq(tty, 1, n))
                          \o (IF part = 0 THEN <<>> ELSE SubSeq(rest[1], 1, part))
            /\ tty' = IF part = 0 THEN rest
                      ELSE <<SubSeq(rest[1], part + 1, Len(rest[1]))>> \o Tail(rest)
  /\ pc' = "process"
  /\ UNCHANGED <<state, buffer, cursorLine, continueNl, file, screen, closed, typed,
                 remains, count, historyVars, bounds>>

(* read_input at the end of the file: input() returns what there is. *)
EndOfInput ==
  /\ pc = "read" /\ tty = <<>> /\ closed
  /\ pc' = "finish"
  /\ UNCHANGED <<state, buffer, input, cursorLine, continueNl, file, screen, typed,
                 remains, historyVars, terminal, bounds>>

-----------------------------------------------------------------------------
(* finish_input, then the client: it remembers the line (evaluate_input,   *)
(* add_history), runs it, and asks for the next one; repl_loop ends after  *)
(* a cancelled line.                                                       *)

\* Mutant: a line is compared with the first item of the history.
RepeatsFirst(line) == history # <<>> /\ history[1] = line

Repeats(line) == history # <<>> /\ Last(history) = line

Evaluate(line) ==
  IF line = <<>> \/ Repeats(line) THEN UNCHANGED <<history, file>>
  ELSE /\ history' = Append(history, line)
       /\ file' = file \o Written(line)

FinishInput == historyCursor' = -1 /\ origBuffer' = <<>>

\* Mutant: after a line the rest of the input is left for the next call.
ResumesWaiting == Waiting

Resumes == IF stepping THEN "process" ELSE "read"

NextLine ==
  /\ pc = "finish"
  /\ stepping \/ state # "ControlBreak"
  /\ FinishInput
  /\ IF state = "ControlBreak" THEN UNCHANGED <<history, file>>
     ELSE Evaluate(Stripped(buffer.content))
  /\ StartInput
  /\ screen' = Prompted(screen)
  /\ remains' = (state # "Finished")
  /\ pc' = Resumes
  /\ UNCHANGED <<state, input, typed, terminal, bounds>>

Leave ==
  /\ pc = "finish" /\ state = "ControlBreak" /\ ~stepping
  /\ FinishInput
  /\ pc' = "left"
  /\ UNCHANGED <<state, buffer, input, cursorLine, continueNl, history, file, screen,
                 typed, remains, terminal, bounds>>

(* The program is killed and started again: the history is what the file   *)
(* holds.                                                                  *)
Restart ==
  /\ restarts < MaxRestarts
  /\ restarts' = restarts + 1
  /\ history' = Loaded(file)
  /\ FinishInput
  /\ StartInput
  /\ state' = "NeedMoreInputData"
  /\ input' = <<>>
  /\ screen' = Prompted(Screen(<<Above, <<>>>>, 2, 0))
  /\ tty' = <<>> /\ typed' = <<>>
  /\ remains' = FALSE
  /\ pc' = Waiting
  /\ UNCHANGED <<stepping, keyboard, file, closed, count>>

-----------------------------------------------------------------------------
(* The user.  That the program waits is no loss: to type while it runs is  *)
(* to type once it waits again, it does not look at the terminal before.   *)

Type ==
  /\ pc = Waiting /\ ~closed /\ count < MaxKeys /\ Len(tty) < MaxPending
  /\ \E key \in keyboard : typed' = Append(typed, key) /\ tty' = Append(tty, Encoding(key))
  /\ count' = count + 1
  /\ UNCHANGED <<pc, state, buffer, input, cursorLine, continueNl, file, screen, closed,
                 remains, historyVars, bounds>>

HangUp ==
  /\ pc = "read" /\ ~closed
  /\ closed' = TRUE
  /\ UNCHANGED <<pc, state, buffer, input, cursorLine, continueNl, file, screen, tty,
                 typed, remains, count, historyVars, bounds>>

-----------------------------------------------------------------------------
Init ==
  /\ stepping \in BOOLEAN /\ keyboard \in Keyboards
  /\ file \in FirstFiles
  /\ history = Loaded(file) /\ historyCursor = -1 /\ origBuffer = <<>>
  /\ buffer = EmptyBuffer /\ cursorLine = 0 /\ continueNl = FALSE
  /\ state = "NeedMoreInputData"
  /\ input = <<>>
  /\ screen = Prompted(Screen(<<Above, <<>>>>, 2, 0))
  /\ pc = Waiting
  /\ tty = <<>> /\ closed = FALSE /\ typed = <<>> /\ count = 0
  /\ remains = FALSE /\ restarts = 0

Program == ProcessInput \/ NeedMoreInput \/ EndOfInput \/ NextLine \/ Leave

Next == Type \/ HangUp \/ Receive \/ Program \/ Restart

(* The program runs, and it receives what the terminal has sent.  The      *)
(* first is WF_vars(Program) with ENABLED <<Program>>_vars written out.    *)
CanRun == pc \in {"process", "finish"} \/ (pc = "read" /\ tty = <<>> /\ closed)

Fairness ==
  /\ []<>~CanRun \/ []<><<Program>>_vars
  /\ WF_vars(Receive)

Spec == Init /\ [][Next]_vars /\ Fairness

-----------------------------------------------------------------------------
(* The terminal shows the prompt with the text, each line below the one    *)
(* before, nothing else below, the cursor where the next character will    *)
(* be put, and the row above is as it was.  (process_input redraws from    *)
(* the prompt on, with moves relative to the row it left the cursor on.)   *)
ShowsContent ==
  LET lines == SplitLines(buffer.content)
      before == SplitLines(SubSeq(buffer.content, 1, buffer.cursor))
      Expected(i) == (IF i = 1 THEN Cells(Prompt) ELSE Padding(<<>>, PromptLen))
                       \o Cells(lines[i])
  IN pc \in {"process", "read", "idle"} /\ ~remains =>
       /\ screen.rows[1] = Above
       /\ Len(screen.rows) = 1 + Len(lines)
       /\ \A i \in DOMAIN lines : Shown(screen.rows[i + 1]) = Shown(Expected(i))
       /\ screen.r = 1 + Len(before)
       /\ screen.c = PromptLen + WidthOf(Last(before))

(* The editor does what the user relies on, keys in order, lines and       *)
(* history kept, also for the next session (EditLine.h: "history: managed  *)
(* in memory, new items appended to a file and loaded next time").         *)
AbstractPhase ==
  CASE pc = "finish" /\ state = "ControlBreak" -> "cancelled"
    [] pc = "finish" /\ state # "ControlBreak" -> "entered"
    [] pc = "left" -> "left"
    [] OTHER -> "editing"

AllLines ==
  IF historyCursor = -1 THEN Append(history, buffer.content)
  ELSE Append([history EXCEPT ![historyCursor + 1] = buffer.content], origBuffer)

EditedLine == IF historyCursor = -1 THEN Len(history) + 1 ELSE historyCursor + 1

KeptLine == IF historyCursor = -1 THEN <<>> ELSE history[historyCursor + 1]

IsAscii(char) == char < 128

E == INSTANCE Editor WITH
       Keys <- UNION Keyboards,
       Pasts <- {Loaded(f) : f \in FirstFiles},
       IsWord <- IsWordChar,
       IsPlain <- IsAscii,
       Trimmed <- Stripped,
       keys <- typed,
       past <- Loaded(file),
       lines <- AllLines,
       at <- EditedLine,
       kept <- KeptLine,
       pos <- buffer.cursor,
       phase <- AbstractPhase

Implements == E!Spec

(* Every key has its effect sooner or later, when the client is fed (code: *)
(* the loop of repl_step, which goes on with the keys left in the buffer). *)
KeysHandled == stepping => ((typed # <<>>) ~> (typed = <<>>))

(* A byte that is no UTF-8 does not hold up the keys after it              *)
(* (TermCtl.cpp: "consume the first byte of corrupted UTF-8").             *)
CorruptedByteConsumed == stepping => ((Len(typed) >= 2) ~> (Len(typed) < 2))
=============================================================================
