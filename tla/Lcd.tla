------------------------------- MODULE Lcd --------------------------------
(***************************************************************************)
(* The display: lcd20x4_i2c.c over I2C.c, at the grain of one I2C_write,   *)
(* which carries one command or one character.                             *)
(*                                                                         *)
(* Whoever holds displayMutex writes texts, one after the other.           *)
(* deleteModel of post_requestThread clears the display without the mutex, *)
(* also in the middle of a text.  A write may fail g_max_retries times, and *)
(* the display ignores what comes while it is clearing itself.             *)
(*                                                                         *)
(* A text is a sequence of marks, as far as the line breaks depend on it.  *)
(***************************************************************************)
EXTENDS Integers, Sequences

CONSTANTS
    Letter, Space,  \* the marks
    Texts,          \* what the program shows: how, where and which marks
    MaxTexts,       \* bound: texts shown
    MaxHarm         \* bound: clears of post_requestThread and lost writes

_LCD_COLS == 20
_LCD_ROWS == 4

Rows    == 0 .. _LCD_ROWS - 1
Columns == 0 .. _LCD_COLS - 1

\* Row 2 of the glass continues row 0 in the memory of the display, and row 3 row 1.
Cells   == 0 .. _LCD_ROWS * _LCD_COLS - 1
RowStart == [row \in Rows |-> <<0, 40, 20, 60>>[row + 1]]
Cell(row, col) == RowStart[row] + col

LcdAssumption ==
    /\ Letter # Space
    /\ Texts \subseteq [how : {"puts", "print"}, row : Rows, col : Columns,
                        marks : Seq({Letter, Space})]
    /\ \A t \in Texts : t.marks # <<>>
    /\ MaxTexts \in Nat /\ MaxHarm \in Nat

ASSUME LcdAssumption

VARIABLES
    screen,      \* the memory of the display
    cursor,      \* its address counter
    text,        \* the text being shown, or shown last
    next,        \* i of lcd20x4_i2c_puts and lcd20x4_i2c_print: the marks sent
    left,        \* letters of the present word to be sent without another look
    currentX, currentY,
    turn,        \* newline: setCursor is due before the next mark
    before,      \* history: the screen when the text began
    harmed,      \* history: the text may have been spoilt
    count,       \* how many texts have been begun
    harm         \* counter for the bound

position == <<next, left, currentX, currentY, turn>>
vars     == <<screen, cursor, text, position, before, harmed, count, harm>>

Blank == <<>>
Clear == [c \in Cells |-> Blank]

\* What shows a mark: letters of different texts and places differ.
Shown(i) == IF text.marks[i] = Space THEN Blank ELSE <<count, i>>

Init ==
    /\ screen = Clear /\ cursor = 0
    /\ text = [how |-> "print", row |-> 0, col |-> 0, marks |-> <<>>]
    /\ next = 0 /\ left = 0 /\ currentX = 0 /\ currentY = 0 /\ turn = FALSE
    /\ before = Clear /\ harmed = FALSE /\ count = 0 /\ harm = 0

Finished == next = Len(text.marks) /\ ~turn

-----------------------------------------------------------------------------
(* The display *)

\* (col & 0x0F) | row_offsets[row]: 0x14 and 0x54 share a bit with some columns.
Address(row, col) ==
    LET low == col % 16
    IN  Cell(row, low) - (IF row \in {2, 3} /\ low % 8 >= 4 THEN 4 ELSE 0)

\* Every text of the program begins at a column that the address holds.
PlacesAssumption == \A t \in Texts : Address(t.row, t.col) = Cell(t.row, t.col)

ASSUME PlacesAssumption

\* A write arrives, or is lost.
Arrives == UNCHANGED <<harmed, harm>>
Lost    == /\ harm < MaxHarm /\ harm' = harm + 1 /\ harmed' = TRUE
           /\ UNCHANGED <<screen, cursor>>

SetCursor(x, y) ==
    LET row == IF x > 3 THEN 0 ELSE x
        col == IF y > 19 THEN 0 ELSE y
    IN  \/ cursor' = Address(row, col) /\ UNCHANGED screen /\ Arrives
        \/ Lost

SendData(c) ==
    \/ /\ screen' = [screen EXCEPT ![cursor] = c]
       /\ cursor' = (cursor + 1) % (_LCD_ROWS * _LCD_COLS)
       /\ Arrives
    \/ Lost

-----------------------------------------------------------------------------
(* The thread that holds displayMutex *)

\* lcd20x4_i2c_puts and lcd20x4_i2c_print begin by setting the cursor.
BeginText(t) ==
    /\ Finished /\ count < MaxTexts
    /\ text' = t /\ count' = count + 1
    /\ next' = 0 /\ left' = 0 /\ turn' = FALSE
    /\ IF t.how = "puts" THEN currentX' = t.row /\ currentY' = t.col
                         ELSE UNCHANGED <<currentX, currentY>>
    /\ before' = screen
    /\ LET to == Address(t.row, t.col)
       IN  \/ cursor' = to /\ harmed' = FALSE /\ UNCHANGED <<screen, harm>>
           \/ Lost

\* lcd20x4_i2c_clear
ClearDisplay ==
    /\ Finished /\ count < MaxTexts
    /\ \/ screen' = Clear /\ cursor' = 0 /\ Arrives
       \/ Lost
    /\ count' = count + 1
    /\ text' = [text EXCEPT !.marks = <<>>] /\ next' = 0
    /\ before' = screen'
    /\ UNCHANGED <<left, currentX, currentY, turn>>

Mark == text.marks[next + 1]

\* A plausible slip: a word goes on to the end of the text.
WordLength_Whole(i) == Len(text.marks) - i + 1

\* wordLength(&str[i])
WordLength(i) ==
    LET marks == text.marks
        Ends  == {j \in i .. Len(marks) : j = Len(marks) \/ marks[j + 1] = Space}
    IN  (CHOOSE j \in Ends : \A k \in Ends : j <= k) - i + 1

\* A plausible slip: only the first letter has to fit.
BreakDue_Late == currentY + 1 >= _LCD_COLS

\* The word would reach the last column.
BreakDue == currentY + WordLength(next + 1) >= _LCD_COLS

Writing == next < Len(text.marks) /\ ~turn

\* lcd20x4_i2c_print breaks no lines.
PrintMark ==
    /\ Writing /\ text.how = "print"
    /\ SendData(Shown(next + 1))
    /\ next' = next + 1
    /\ UNCHANGED <<left, currentX, currentY, turn>>

PutSpace ==
    /\ Writing /\ text.how = "puts" /\ Mark = Space
    /\ SendData(Blank)
    /\ next' = next + 1
    /\ IF currentY < _LCD_COLS
       THEN currentY' = currentY + 1 /\ UNCHANGED <<currentX, turn>>
       ELSE currentY' = 0 /\ currentX' = currentX + 1 /\ turn' = TRUE
    /\ UNCHANGED left

\* setCursor of a space behind the last column.
TurnLine ==
    /\ turn /\ turn' = FALSE
    /\ SetCursor(currentX, currentY)
    /\ UNCHANGED <<next, left, currentX, currentY>>

BreakLine ==
    /\ Writing /\ text.how = "puts" /\ Mark = Letter /\ left = 0 /\ BreakDue
    /\ currentY' = 0 /\ currentX' = currentX + 1
    /\ left' = WordLength(next + 1)
    /\ SetCursor(currentX', 0)
    /\ UNCHANGED <<next, turn>>

PutLetter ==
    /\ Writing /\ text.how = "puts" /\ Mark = Letter /\ (left = 0 => ~BreakDue)
    /\ SendData(Shown(next + 1))
    /\ next' = next + 1 /\ currentY' = currentY + 1
    /\ left' = (IF left = 0 THEN WordLength(next + 1) ELSE left) - 1
    /\ UNCHANGED <<currentX, turn>>

ShowText ==
    /\ PrintMark \/ PutSpace \/ TurnLine \/ BreakLine \/ PutLetter
    /\ UNCHANGED <<text, before, count>>

-----------------------------------------------------------------------------
(* post_requestThread: deleteModel clears the display *)

ClearedByDeletion ==
    /\ harm < MaxHarm /\ harm' = harm + 1
    /\ screen' = Clear /\ cursor' = 0
    /\ harmed' = TRUE
    /\ UNCHANGED <<text, position, before, count>>

Next ==
    \/ \E t \in Texts : BeginText(t)
    \/ ClearDisplay
    \/ ShowText
    \/ ClearedByDeletion

Spec == Init /\ [][Next]_vars

-----------------------------------------------------------------------------
(* Properties *)

TypeOK ==
    /\ screen \in [Cells -> {Blank} \cup Nat \X Nat]
    /\ before \in [Cells -> {Blank} \cup Nat \X Nat]
    /\ cursor \in Cells
    /\ text \in [how : {"puts", "print"}, row : Rows, col : Columns,
                 marks : Seq({Letter, Space})]
    /\ next \in 0 .. Len(text.marks)
    /\ left \in Nat /\ currentX \in Nat /\ currentY \in Nat
    /\ turn \in BOOLEAN /\ harmed \in BOOLEAN
    /\ count \in Nat /\ harm \in Nat

OfText(mark) == mark # Blank /\ mark[1] = count
IsLetter(i)  == i \in DOMAIN text.marks /\ text.marks[i] = Letter

\* Mark i of the text is shown at a place of the glass.
At(i, row, col) == screen[Cell(row, col)] = <<count, i>>

\* A place is read before another one.
Before(row1, col1, row2, col2) == row1 < row2 \/ (row1 = row2 /\ col1 < col2)

\* Whoever reads the glass finds nothing of the text but its letters, each of them,
\* in their order and therefore once, and words in one piece.
OnlyLetters ==
    \A row \in Rows, col \in Columns :
        OfText(screen[Cell(row, col)]) => IsLetter(screen[Cell(row, col)][2])

EveryLetter ==
    \A i \in DOMAIN text.marks :
        text.marks[i] = Letter => \E row \in Rows, col \in Columns : At(i, row, col)

InOrder ==
    \A row1, row2 \in Rows : \A col1, col2 \in Columns :
        /\ OfText(screen[Cell(row1, col1)]) /\ OfText(screen[Cell(row2, col2)])
        /\ Before(row1, col1, row2, col2)
        => screen[Cell(row1, col1)][2] < screen[Cell(row2, col2)][2]

WordsWhole ==
    \A row \in Rows, col \in Columns :
        LET mark == screen[Cell(row, col)]
        IN  OfText(mark) /\ IsLetter(mark[2] + 1) =>
                col + 1 \in Columns /\ At(mark[2] + 1, row, col + 1)

Readable == OnlyLetters /\ EveryLetter /\ InOrder /\ WordsWhole

\* The rows that lcd20x4_i2c_puts has gone through, or lcd20x4_i2c_print.
Touched == IF text.how = "puts" /\ currentY > 0 THEN text.row .. currentX
           ELSE IF text.how = "puts" THEN text.row .. currentX - 1
           ELSE {text.row}

\* The other rows keep what they show; a second space behind a full row may only
\* blank the first column of another one.
RestKept ==
    \A row \in Rows \ Touched, col \in Columns :
        \/ screen[Cell(row, col)] = before[Cell(row, col)]
        \/ col = 0 /\ screen[Cell(row, col)] = Blank

\* The next mark has a place: the text has not left the last row, no word is longer
\* than a row, and lcd20x4_i2c_print stays in its row.  Behind a full row 2 or 3 the
\* memory goes on in a row above.
Room ==
    Writing =>
        IF text.how = "print" THEN text.col + next < _LCD_COLS
        ELSE /\ currentX \in Rows
             /\ Mark = Letter => WordLength(next + 1) <= _LCD_COLS
             /\ Mark = Space /\ currentY = _LCD_COLS => currentX \in {0, 1}

\* A text that was not spoilt can be read: it is all there, no word is torn at the
\* end of a row, and no other row has been overwritten.  A write that was lost and a
\* clear by post_requestThread spoil nothing but the text they fall into and what
\* was on the display before: the next one is right again, wherever they have left
\* the cursor (lcd20x4_i2c_puts, FP_delete.c:14).
TextShown == Finished /\ ~harmed => Readable /\ RestKept
\* A word of the text that may have to go to another row is not longer than w: in
\* the row where the text begins a word stays if it ends before the last column.
LateWords(t, w) ==
    \A i, j \in DOMAIN t.marks :
        /\ i <= j /\ t.col + j >= _LCD_COLS
        /\ \A k \in i..j : t.marks[k] = Letter
        => j - i < w

\* There are no two spaces together.
OneSpace(t) == \A i \in DOMAIN t.marks \ {1} : t.marks[i] = Letter \/ t.marks[i - 1] = Letter

\* Seen from the text alone: a row that is left loses fewer than w + 1 columns, so
\* the rest of them is enough.  What remains is a space behind a full row.
HasRoom(t) ==
    LET rows == _LCD_ROWS - t.row
        size == t.col + Len(t.marks)
    IN  IF t.how = "print" THEN size <= _LCD_COLS
        ELSE \E w \in 0.._LCD_COLS :
                /\ LateWords(t, w)
                /\ size + w * (rows - 1) < _LCD_COLS * rows
                /\ \/ rows = 1
                   \/ size + w * (rows - 2) <= _LCD_COLS * (rows - 1)
                   \/ w < _LCD_COLS /\ OneSpace(t)

TextsFit == \A t \in Texts : HasRoom(t)
=============================================================================
