----------------------------- MODULE LineEditor ------------------------------
(***************************************************************************)
(* The line editor of a MockIosDevice: the arms of send() that edit the    *)
(* line being typed, recall lines from the history and keep the client's   *)
(* terminal in step.                                                       *)
(*                                                                         *)
(* The editor keeps the line (input_buffer) and a cursor, and never looks  *)
(* at the terminal: it sends characters, cursor movements and erasures     *)
(* that are right if the terminal shows what it believes.  The terminal    *)
(* here is one row of cells and a column, and does what it is told.        *)
(* Escape sequences arrive byte by byte.                                   *)
(***************************************************************************)
EXTENDS Naturals, Sequences, SequencesExt

CONSTANTS
    Char,        \* printable characters, " " among them
    Keyword,     \* keywords of the command trees that Tab may complete to
    MaxLen,      \* bound: characters of a line that is typed or completed
    MaxHistory,  \* bound: lines in the history
    MaxRow       \* bound: the column up to which Ctrl-C starts another prompt

ASSUME EditorAssumption ==
    /\ " " \in Char /\ Keyword \subseteq Seq(Char \ {" "})
    /\ MaxLen \in Nat /\ MaxHistory \in Nat /\ MaxRow \in Nat

VARIABLES
    buffer,  \* input_buffer
    cursor,  \* cursor_pos
    history, \* command_history
    index,   \* history_index: 0 when not recalling, or 1.. Len(history)
    esc,     \* esc_state
    row,     \* the terminal: the cells of the current row
    col,     \* the terminal: cells left of its cursor
    start,   \* the terminal: where the line after the last prompt starts
    torn     \* history: a key was used that leaves the terminal out of step

editor   == <<buffer, cursor, history, index, esc>>
terminal == <<row, col, start, torn>>
vars     == <<editor, terminal>>

PromptCell == "#"
prompt == <<PromptCell>>
NotRecalling == 0

-----------------------------------------------------------------------------
(* What the terminal does with output: a state is <<row, col>>.            *)

Cells(r, n) == [i \in 1..n |-> IF i <= Len(r) THEN r[i] ELSE " "]

Put(t, cells) ==
    <<Cells(t[1], t[2]) \o cells \o SubSeq(t[1], t[2] + Len(cells) + 1, Len(t[1])),
      t[2] + Len(cells)>>

Back(t, n)    == <<t[1], IF n <= t[2] THEN t[2] - n ELSE 0>>
Forward(t, n) == <<t[1], t[2] + n>>
EraseRight(t) == <<Cells(t[1], t[2]), t[2]>>
Return(t)     == <<t[1], 0>>
NewRow        == <<<<>>, 0>>

(* A terminal that is out of step is not followed until the next redraw. *)
ShowsUnless(t, tears) ==
    /\ torn' = tears
    /\ row' = IF tears THEN <<>> ELSE t[1]
    /\ col' = IF tears THEN 0 ELSE t[2]

Shows(t) == ShowsUnless(t, torn)

Screen == <<row, col>>

(* A fault for mutation: what a longer line left on the row stays. *)
NothingErased(t, b, c) == Back(Put(t, SubSeq(b, c + 1, Len(b))), Len(b) - c)

(* redraw_from_cursor(): the tail of line b at cursor c, back to c. *)
RedrawFromCursor(t, b, c) ==
    Back(EraseRight(Put(t, SubSeq(b, c + 1, Len(b)))), Len(b) - c)

(* redraw_line(): the whole line, from the start of the row. *)
RedrawLine(b) ==
    /\ start' = 1
    /\ ShowsUnless(EraseRight(Put(Return(Screen), prompt \o b)), FALSE)
    /\ cursor' = Len(b)

-----------------------------------------------------------------------------
(* Keys.  All but the bytes of an escape sequence are for esc = "Normal".  *)

Key == esc = "Normal" /\ UNCHANGED <<history, esc>>

(* Any other byte: echoed at the end, or inserted and the tail redrawn. *)
TypeChar ==
    /\ Key /\ Len(buffer) < MaxLen
    /\ \E c \in Char :
         /\ buffer' = InsertAt(buffer, cursor + 1, c)
         /\ Shows(IF cursor = Len(buffer)
                    THEN Put(Screen, <<c>>)
                    ELSE RedrawFromCursor(Put(Screen, <<c>>), buffer', cursor + 1))
    /\ cursor' = cursor + 1
    /\ UNCHANGED <<index, start>>

Backspace ==
    /\ Key /\ cursor > 0
    /\ buffer' = RemoveAt(buffer, cursor)
    /\ cursor' = cursor - 1
    /\ Shows(RedrawFromCursor(Back(Screen, 1), buffer', cursor'))
    /\ UNCHANGED <<index, start>>

(* On an empty line Ctrl-D ends the session instead. *)
CtrlD ==
    /\ Key /\ cursor < Len(buffer)
    /\ buffer' = RemoveAt(buffer, cursor + 1)
    /\ Shows(RedrawFromCursor(Screen, buffer', cursor))
    /\ UNCHANGED <<cursor, index, start>>

(* Ctrl-B and the left arrow; Ctrl-F and the right arrow. *)
MoveLeft ==
    /\ cursor > 0 /\ cursor' = cursor - 1 /\ Shows(Back(Screen, 1))
    /\ UNCHANGED <<buffer, history, index, start>>

MoveRight ==
    /\ cursor < Len(buffer) /\ cursor' = cursor + 1 /\ Shows(Forward(Screen, 1))
    /\ UNCHANGED <<buffer, history, index, start>>

CtrlB == Key /\ MoveLeft
CtrlF == Key /\ MoveRight

CtrlA ==
    /\ Key /\ cursor' = 0 /\ Shows(Back(Screen, cursor))
    /\ UNCHANGED <<buffer, index, start>>

CtrlE ==
    /\ Key /\ cursor' = Len(buffer) /\ Shows(Forward(Screen, Len(buffer) - cursor))
    /\ UNCHANGED <<buffer, index, start>>

CtrlK ==
    /\ Key /\ buffer' = SubSeq(buffer, 1, cursor) /\ Shows(EraseRight(Screen))
    /\ UNCHANGED <<cursor, index, start>>

(* A fault for mutation: the cursor stays where the erased text ended. *)
CursorNotReset ==
    /\ Key /\ cursor > 0
    /\ buffer' = SubSeq(buffer, cursor + 1, Len(buffer))
    /\ Shows(Put(Return(Screen), prompt \o buffer'))
    /\ start' = 1
    /\ UNCHANGED <<cursor, index>>

(* Ctrl-U: the row is written anew and padded where the line got shorter,  *)
(* and the terminal's cursor left at the end of the line.                  *)
CtrlU ==
    /\ Key /\ cursor > 0
    /\ buffer' = SubSeq(buffer, cursor + 1, Len(buffer))
    /\ cursor' = 0
    /\ LET pad == [i \in 1..cursor |-> " "]
       IN  ShowsUnless(Back(Put(Return(Screen), prompt \o buffer' \o pad), cursor),
                       torn \/ start # 1 \/ cursor < Len(buffer))
    /\ start' = 1
    /\ UNCHANGED index

(* Ctrl-W: blanks left of the cursor, then the word before them. *)
SkippedBlanks(p) ==
    /\ \A i \in p + 1..cursor : buffer[i] = " "
    /\ p > 0 => buffer[p] # " "

SkippedWord(p, pos) ==
    /\ \A i \in pos + 1..p : buffer[i] # " "
    /\ pos > 0 => buffer[pos] = " "

(* A fault for mutation: the text right of the cursor goes as well. *)
WordTruncates ==
    /\ Key
    /\ \E p \in 0..cursor : \E pos \in 0..p :
         /\ SkippedBlanks(p) /\ SkippedWord(p, pos) /\ pos < cursor
         /\ buffer' = SubSeq(buffer, 1, pos)
         /\ cursor' = pos
         /\ Shows(RedrawFromCursor(Back(Screen, cursor - pos), buffer', pos))
    /\ UNCHANGED <<index, start>>

CtrlW ==
    /\ Key
    /\ \E p \in 0..cursor : \E pos \in 0..p :
         /\ SkippedBlanks(p) /\ SkippedWord(p, pos) /\ pos < cursor
         /\ buffer' = SubSeq(buffer, 1, pos) \o SubSeq(buffer, cursor + 1, Len(buffer))
         /\ cursor' = pos
         /\ Shows(RedrawFromCursor(Back(Screen, cursor - pos), buffer', pos))
    /\ UNCHANGED <<index, start>>

(* Tab: send() asks try_tab_complete() for the keyword that the last word  *)
(* of the line is short for; which keywords there are depends on the trees *)
(* and the mode.  It erases as many characters as that word has left of    *)
(* the cursor, on the row also what is right of it, and appends the        *)
(* keyword and a blank to the line: meant for a cursor behind the word.    *)
(* Without a keyword it beeps.                                             *)
IsLastWord(s, e) ==
    /\ \A i \in s + 1..e : buffer[i] # " "
    /\ \A i \in e + 1..Len(buffer) : buffer[i] = " "
    /\ s > 0 => buffer[s] = " "

TabKeyword ==
    /\ Key /\ Len(buffer) < MaxLen
    /\ \E e \in 1..Len(buffer), keyword \in Keyword : \E s \in 0..e - 1 :
         /\ IsLastWord(s, e) /\ IsStrictPrefix(SubSeq(buffer, s + 1, e), keyword)
         /\ LET erased == IF e - s <= cursor THEN e - s ELSE cursor
                insert == Append(keyword, " ")
            IN  /\ buffer' = SubSeq(buffer, 1, cursor - erased)
                               \o SubSeq(buffer, cursor + 1, Len(buffer)) \o insert
                /\ ShowsUnless(Put(EraseRight(Back(Screen, erased)), insert),
                               torn \/ cursor < Len(buffer))
    /\ cursor' = Len(buffer')
    /\ UNCHANGED <<index, start>>

(* The last word is a keyword and nothing follows: a blank. *)
TabBlank ==
    /\ Key /\ Len(buffer) < MaxLen
    /\ \E s \in 0..Len(buffer) - 1 :
         IsLastWord(s, Len(buffer)) /\ SubSeq(buffer, s + 1, Len(buffer)) \in Keyword
    /\ buffer' = Append(buffer, " ")
    /\ cursor' = Len(buffer')
    /\ ShowsUnless(Put(Screen, <<" ">>), torn \/ cursor < Len(buffer))
    /\ UNCHANGED <<index, start>>

(* ?: help, then the prompt and the whole line on a row of their own; the  *)
(* cursor is not moved to their end.                                       *)
Question ==
    /\ Key
    /\ ShowsUnless(Put(NewRow, prompt \o buffer), cursor < Len(buffer))
    /\ start' = 1
    /\ UNCHANGED <<buffer, cursor, index>>

(* Ctrl-C: a new prompt after whatever the row shows; also Ctrl-Z in the   *)
(* exec modes.                                                             *)
CtrlC ==
    /\ Key /\ col <= MaxRow
    /\ buffer' = <<>> /\ cursor' = 0 /\ index' = NotRecalling
    /\ ShowsUnless(Put(Screen, prompt), torn \/ cursor < Len(buffer))
    /\ start' = IF torn' THEN 1 ELSE col + 1

(* Ctrl-Z in the configuration modes: the prompt has a row of its own. *)
CtrlZ ==
    /\ Key
    /\ buffer' = <<>> /\ cursor' = 0 /\ index' = NotRecalling
    /\ start' = 1
    /\ ShowsUnless(Put(NewRow, prompt), FALSE)

(* CR: the line goes to handle_line(), whose output ends in a prompt on a  *)
(* row of its own, and to the history.                                     *)
IsBlank(line) == \A i \in 1..Len(line) : line[i] = " "

Remembered(line) ==
    IF IsBlank(line) \/ (history # <<>> /\ Last(history) = line)
      THEN history
      ELSE Append(history, line)

Submit ==
    /\ esc = "Normal" /\ Len(Remembered(buffer)) <= MaxHistory
    /\ history' = Remembered(buffer)
    /\ buffer' = <<>> /\ cursor' = 0 /\ index' = NotRecalling
    /\ start' = 1
    /\ ShowsUnless(Put(NewRow, prompt), FALSE)
    /\ UNCHANGED esc

-----------------------------------------------------------------------------
(* Escape sequences: ESC, "[", and a letter.                               *)

Escape ==
    /\ esc = "Normal" /\ esc' = "GotEsc"
    /\ UNCHANGED <<buffer, cursor, history, index, terminal>>

Bracket ==
    /\ esc = "GotEsc" /\ esc' \in {"GotBracket", "Normal"}
    /\ UNCHANGED <<buffer, cursor, history, index, terminal>>

Letter == esc = "GotBracket" /\ esc' = "Normal"

Recall(line) == buffer' = line /\ RedrawLine(line)

Up ==
    /\ Letter /\ history # <<>>
    /\ index' = CASE index = NotRecalling -> Len(history)
                  [] index = 1            -> 1
                  [] OTHER                -> index - 1
    /\ Recall(history[index'])
    /\ UNCHANGED history

Down ==
    /\ Letter /\ index # NotRecalling
    /\ index' = (IF index + 1 > Len(history) THEN NotRecalling ELSE index + 1)
    /\ Recall(IF index' = NotRecalling THEN <<>> ELSE history[index'])
    /\ UNCHANGED history

LeftArrow  == Letter /\ MoveLeft
RightArrow == Letter /\ MoveRight

(* An arrow that cannot move, or a letter without meaning. *)
NoKey == Letter /\ UNCHANGED <<buffer, cursor, history, index, terminal>>

-----------------------------------------------------------------------------
Init ==
    /\ buffer = <<>> /\ cursor = 0 /\ history = <<>> /\ index = NotRecalling
    /\ esc = "Normal"
    /\ row = prompt /\ col = 1 /\ start = 1 /\ torn = FALSE

Next ==
    \/ TypeChar \/ Backspace \/ CtrlD \/ CtrlB \/ CtrlF \/ CtrlA \/ CtrlE
    \/ CtrlK \/ CtrlU \/ CtrlW \/ TabKeyword \/ TabBlank \/ Question
    \/ CtrlC \/ CtrlZ \/ Submit
    \/ Escape \/ Bracket \/ Up \/ Down \/ LeftArrow \/ RightArrow \/ NoKey

Spec == Init /\ [][Next]_vars

-----------------------------------------------------------------------------
(* Properties. *)

Line == Seq(Char)

(* The editor holds what its types allow. *)
TypeOK ==
    /\ buffer \in Line /\ history \in Seq(Line)
    /\ cursor \in Nat /\ index \in Nat
    /\ esc \in {"Normal", "GotEsc", "GotBracket"}

(* The cursor never leaves the line and the recalled index never leaves    *)
(* the history: input_buffer.insert(), remove() and drain() and            *)
(* command_history[] would panic, the session's task with them.            *)
NoPanic == cursor <= Len(buffer) /\ index <= Len(history)

(* The terminal shows the line, with nothing but blanks after it, and its  *)
(* cursor stands where the editor's does, whichever keys edited it; only   *)
(* Ctrl-U, Ctrl-C, Tab and ? with text right of the cursor, and Ctrl-U on  *)
(* a row that Ctrl-C has left two prompts on, break it until a key that    *)
(* writes the whole line anew: an arrow that recalls, ? at its end, CR.    *)
TerminalShowsLine ==
    ~torn =>
      /\ col = start + cursor
      /\ Len(row) >= start + Len(buffer)
      /\ \A i \in 1..(Len(row) - start) :
           row[start + i] = IF i <= Len(buffer) THEN buffer[i] ELSE " "

(* No line is remembered twice in a row.                                   *)
NoRepeats == \A i \in 2..Len(history) : history[i] # history[i - 1]

(* Every key does what it promises to the text left and right of the       *)
(* cursor, and the arrows recall only lines that were submitted.           *)
Text == INSTANCE LineBuffer WITH
    left  <- SubSeq(buffer, 1, cursor),
    right <- SubSeq(buffer, cursor + 1, Len(buffer)),
    lines <- ToSet(history)

LineBufferSpec == Text!Spec
=============================================================================
