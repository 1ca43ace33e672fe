----------------------------- MODULE Lcd_proofs ------------------------------
(***************************************************************************)
(* Proofs about Lcd: a text that has room on the display and is not        *)
(* spoilt can be read on it, whatever it says, and keeps to its rows.      *)
(*                                                                         *)
(* The argument.  While a text is not harmed, the cursor is where the code *)
(* believes it (Placed), everything sent so far stands before it in the    *)
(* order of reading (Behind), in its order and in whole words (Sent).      *)
(* The rest of a word that has been begun has room in the row (WordInv).   *)
(* That there is a row for it follows from the text alone: its marks and   *)
(* what its rows waste are counted (Spent).                                *)
(***************************************************************************)
EXTENDS Lcd, WellFoundedInduction, TLAPS

-----------------------------------------------------------------------------
(* The invariant *)

\* Where the code believes the cursor to be.
Row == IF text.how = "puts" THEN currentX ELSE text.row
Col == IF text.how = "puts" THEN currentY ELSE text.col + next

\* What of the text is on the display: letters sent, all of them, in their order
\* and in one piece as far as their words have been sent.
SentOnly ==
    \A row \in Rows, col \in Columns :
        OfText(screen[Cell(row, col)]) =>
            /\ screen[Cell(row, col)][2] \in 1 .. next
            /\ text.marks[screen[Cell(row, col)][2]] = Letter

SentAll ==
    \A i \in 1 .. next :
        text.marks[i] = Letter => \E row \in Rows, col \in Columns : At(i, row, col)

SentWhole ==
    \A row \in Rows, col \in Columns : \A i \in 1 .. next :
        At(i, row, col) /\ i + 1 <= next /\ text.marks[i + 1] = Letter =>
            col + 1 \in Columns /\ At(i + 1, row, col + 1)

Sent == SentOnly /\ SentAll /\ InOrder /\ SentWhole

\* It stands before the place the code believes the cursor to be at.
Behind ==
    \A row \in Rows, col \in Columns :
        OfText(screen[Cell(row, col)]) => Before(row, col, Row, Col)

\* The address counter after the place.
Spot(row, col) == IF col < _LCD_COLS THEN Cell(row, col)
                  ELSE (Cell(row, _LCD_COLS - 1) + 1) % (_LCD_ROWS * _LCD_COLS)

Placed == Writing /\ Row \in Rows => cursor = Spot(Row, Col)

\* The letter before the next one of the same word.
Joint ==
    next >= 1 /\ IsLetter(next) /\ IsLetter(next + 1) =>
        /\ Col >= 1 /\ Col - 1 \in Columns /\ At(next, Row, Col - 1)
        /\ text.how = "puts" => left > 0

\* What the code has in hand, harmed or not.
WordInv ==
    /\ left > 0 => /\ IsLetter(next + 1) /\ left = WordLength(next + 1)
                   /\ currentY + left <= _LCD_COLS
                   /\ text.how = "puts" /\ ~turn
    /\ turn => currentY = 0 /\ text.how = "puts"
    /\ text.how = "puts" => text.row <= currentX /\ currentY <= _LCD_COLS

\* No mark of a text to come is on the display.
NoneToCome ==
    \A row \in Rows, col \in Columns :
        screen[Cell(row, col)] # Blank => screen[Cell(row, col)][1] <= count

ShownInv == ~harmed => Sent /\ Behind /\ Placed /\ Joint /\ RestKept

IInv == TypeOK /\ WordInv /\ NoneToCome /\ ShownInv

-----------------------------------------------------------------------------
(* Lemmas: the display *)

LEMMA Sizes ==
    /\ Rows = {0, 1, 2, 3} /\ Columns = 0 .. 19 /\ Cells = 0 .. 79
    /\ _LCD_COLS = 20 /\ _LCD_ROWS = 4
  BY DEF Rows, Columns, Cells, _LCD_COLS, _LCD_ROWS

LEMMA CellValue ==
    ASSUME NEW col
    PROVE  /\ Cell(0, col) = 0 + col /\ Cell(1, col) = 40 + col
           /\ Cell(2, col) = 20 + col /\ Cell(3, col) = 60 + col
  <1>1. /\ RowStart[0] = <<0, 40, 20, 60>>[1] /\ RowStart[1] = <<0, 40, 20, 60>>[2]
        /\ RowStart[2] = <<0, 40, 20, 60>>[3] /\ RowStart[3] = <<0, 40, 20, 60>>[4]
    BY Sizes DEF RowStart
  <1>2. /\ RowStart[0] = 0 /\ RowStart[1] = 40 /\ RowStart[2] = 20 /\ RowStart[3] = 60
    BY <1>1
  <1> QED
    BY <1>2 DEF Cell

\* The places of the glass are different cells.
LEMMA CellFacts ==
    ASSUME NEW row1 \in Rows, NEW col1 \in Columns, NEW row2 \in Rows, NEW col2 \in Columns
    PROVE  /\ Cell(row1, col1) \in Cells
           /\ Cell(row1, col1) = Cell(row2, col2) => row1 = row2 /\ col1 = col2
  <1>1. /\ col1 \in Int /\ 0 <= col1 /\ col1 <= 19 /\ col2 \in Int /\ 0 <= col2 /\ col2 <= 19
    BY Sizes
  <1>2. /\ row1 = 0 \/ row1 = 1 \/ row1 = 2 \/ row1 = 3
        /\ row2 = 0 \/ row2 = 1 \/ row2 = 2 \/ row2 = 3
    BY Sizes
  <1>3. /\ Cell(row1, col1) = (IF row1 = 0 THEN 0 ELSE IF row1 = 1 THEN 40
                               ELSE IF row1 = 2 THEN 20 ELSE 60) + col1
        /\ Cell(row2, col2) = (IF row2 = 0 THEN 0 ELSE IF row2 = 1 THEN 40
                               ELSE IF row2 = 2 THEN 20 ELSE 60) + col2
    BY <1>2, CellValue
  <1>4. Cell(row1, col1) \in 0 .. 79
    BY <1>1, <1>2, <1>3
  <1>5. Cell(row1, col1) = Cell(row2, col2) => row1 = row2 /\ col1 = col2
    BY <1>1, <1>2, <1>3
  <1> QED
    BY <1>4, <1>5, Sizes

\* Every address is one of the memory's; the first column's is right.
LEMMA AddressFacts ==
    ASSUME NEW row \in Rows
    PROVE  /\ \A col \in Columns : Address(row, col) \in Cells
           /\ Address(row, 0) = Cell(row, 0)
  <1>1. row = 0 \/ row = 1 \/ row = 2 \/ row = 3
    BY Sizes
  <1>2. ASSUME NEW col \in Columns PROVE Address(row, col) \in Cells
    <2>1. PICK low \in 0 .. 15 : low = col % 16
      BY Sizes
    <2>2. Cell(row, low) = (IF row = 0 THEN 0 ELSE IF row = 1 THEN 40
                            ELSE IF row = 2 THEN 20 ELSE 60) + low
      BY <1>1, CellValue
    <2>3. Address(row, col) = Cell(row, low) - (IF row \in {2, 3} /\ low % 8 >= 4 THEN 4 ELSE 0)
      BY <2>1 DEF Address
    <2>4. Address(row, col) \in 0 .. 79
      BY <1>1, <2>2, <2>3
    <2> QED
      BY <2>4, Sizes
  <1>3. Address(row, 0) = Cell(row, 0)
    <2>1. 0 % 16 = 0 /\ 0 % 8 = 0
      OBVIOUS
    <2>2. Address(row, 0) = Cell(row, 0) - 0
      BY <2>1 DEF Address
    <2>3. Cell(row, 0) \in Int
      BY <1>1, CellValue
    <2> QED
      BY <2>2, <2>3
  <1> QED
    BY <1>2, <1>3

-----------------------------------------------------------------------------
(* Lemmas: words *)

LessThan == {p \in Nat \X Nat : p[1] < p[2]}

LEMMA Least ==
    ASSUME NEW T \in SUBSET Nat, T # {}
    PROVE  \E x \in T : \A y \in T : x <= y
  <1>1. OpToRel(<, Nat) = LessThan
    BY DEF OpToRel, LessThan
  <1>2. PICK x \in T : \A y \in T : <<y, x>> \notin LessThan
    BY <1>1, NatLessThanWellFounded, WFMin
  <1>3. ASSUME NEW y \in T PROVE x <= y
    <2>1. x \in Nat /\ y \in Nat
      BY <1>2
    <2>2. y < x => <<y, x>> \in LessThan
      BY <2>1 DEF LessThan
    <2> QED
      BY <1>2, <2>1, <2>2
  <1> QED
    BY <1>2, <1>3

\* The places where a word that has a letter at i may end.
Ends(i) == {j \in i .. Len(text.marks) : j = Len(text.marks) \/ text.marks[j + 1] = Space}

LEMMA WordEnd ==
    ASSUME TypeOK, NEW i \in 1 .. Len(text.marks)
    PROVE  \E j \in Ends(i) : (\A k \in Ends(i) : j <= k) /\ WordLength(i) = j - i + 1
  <1>1. Len(text.marks) \in Nat
    BY DEF TypeOK
  <1>2. Len(text.marks) \in Ends(i) /\ Ends(i) \in SUBSET Nat
    BY <1>1 DEF Ends
  <1>3. \E j \in Ends(i) : \A k \in Ends(i) : j <= k
    BY <1>2, Least
  <1> DEFINE last == CHOOSE j \in Ends(i) : \A k \in Ends(i) : j <= k
  <1>4. last \in Ends(i) /\ \A k \in Ends(i) : last <= k
    BY <1>3
  <1>5. WordLength(i) = last - i + 1
    BY DEF WordLength, Ends
  <1> QED
    BY <1>4, <1>5

\* A word is a letter and the rest of it.
LEMMA WordFacts ==
    ASSUME TypeOK, NEW i \in 1 .. Len(text.marks)
    PROVE  /\ WordLength(i) \in Nat /\ WordLength(i) >= 1
           /\ WordLength(i) = 1 => i = Len(text.marks) \/ text.marks[i + 1] = Space
           /\ WordLength(i) > 1 =>
                 /\ i + 1 \in 1 .. Len(text.marks) /\ text.marks[i + 1] = Letter
                 /\ WordLength(i + 1) = WordLength(i) - 1
  <1>1. PICK j \in Ends(i) : (\A k \in Ends(i) : j <= k) /\ WordLength(i) = j - i + 1
    BY WordEnd
  <1>2. Len(text.marks) \in Nat /\ text.marks \in Seq({Letter, Space})
    BY DEF TypeOK
  <1>3. j \in i .. Len(text.marks) /\ (j = Len(text.marks) \/ text.marks[j + 1] = Space)
    BY <1>1 DEF Ends
  <1>4. WordLength(i) \in Nat /\ WordLength(i) >= 1
    BY <1>1, <1>2, <1>3
  <1>5. ASSUME WordLength(i) = 1 PROVE i = Len(text.marks) \/ text.marks[i + 1] = Space
    <2>1. j = i
      BY <1>1, <1>2, <1>3, <1>5
    <2> QED
      BY <1>3, <2>1
  <1>6. ASSUME WordLength(i) > 1
        PROVE  /\ i + 1 \in 1 .. Len(text.marks) /\ text.marks[i + 1] = Letter
               /\ WordLength(i + 1) = WordLength(i) - 1
    <2>1. j > i /\ j \in Nat /\ i \in Nat
      BY <1>1, <1>2, <1>3, <1>6
    <2>2. i \notin Ends(i)
      BY <1>1, <2>1
    <2>3. i # Len(text.marks) /\ text.marks[i + 1] # Space
      BY <1>2, <2>2 DEF Ends
    <2>4. i + 1 \in 1 .. Len(text.marks)
      BY <1>2, <1>3, <2>1, <2>3
    <2>5. text.marks[i + 1] = Letter
      <3>1. text.marks[i + 1] \in {Letter, Space}
        BY <1>2, <2>4
      <3> QED
        BY <2>3, <3>1
    <2>6. PICK m \in Ends(i + 1) :
              (\A k \in Ends(i + 1) : m <= k) /\ WordLength(i + 1) = m - (i + 1) + 1
      BY <2>4, WordEnd
    <2>7. m = j
      <3>1. j \in Ends(i + 1)
        BY <1>2, <1>3, <2>1 DEF Ends
      <3>2. m \in Ends(i)
        BY <1>2, <2>1, <2>6 DEF Ends
      <3>3. m \in Nat
        BY <1>2, <2>4, <2>6 DEF Ends
      <3> QED
        BY <1>1, <2>1, <2>6, <3>1, <3>2, <3>3
    <2> QED
      BY <1>1, <2>1, <2>4, <2>5, <2>6, <2>7
  <1> QED
    BY <1>4, <1>5, <1>6

-----------------------------------------------------------------------------
(* The type invariant *)

LEMMA Marked ==
    ASSUME NEW a, NEW b
    PROVE  <<a, b>> # Blank /\ <<a, b>>[1] = a /\ <<a, b>>[2] = b
  BY DEF Blank

LEMMA TextFacts ==
    ASSUME NEW t \in Texts
    PROVE  /\ t \in [how : {"puts", "print"}, row : Rows, col : Columns,
                     marks : Seq({Letter, Space})]
           /\ Address(t.row, t.col) = Cell(t.row, t.col)
  BY LcdAssumption, PlacesAssumption DEF LcdAssumption, PlacesAssumption

LEMMA ClearType == Clear \in [Cells -> {Blank} \cup Nat \X Nat] /\ 0 \in Cells /\ 0 \in Rows /\ 0 \in Columns
  BY Sizes DEF Clear

LEMMA TypeInit == Init => TypeOK
  <1> SUFFICES ASSUME Init PROVE TypeOK
    OBVIOUS
  <1>1. <<>> \in Seq({Letter, Space}) /\ Len(<<>>) = 0
    OBVIOUS
  <1>2. text \in [how : {"puts", "print"}, row : Rows, col : Columns, marks : Seq({Letter, Space})]
    BY <1>1, ClearType DEF Init
  <1>3. next \in 0 .. Len(text.marks)
    BY <1>1 DEF Init
  <1> QED
    BY <1>2, <1>3, ClearType DEF Init, TypeOK

LEMMA ShownType ==
    ASSUME TypeOK, NEW i \in Nat
    PROVE  Shown(i) \in {Blank} \cup Nat \X Nat
  BY DEF Shown, TypeOK

\* The display keeps its types, whatever is sent to it.
LEMMA TypeSent ==
    ASSUME TypeOK, NEW c \in {Blank} \cup Nat \X Nat, SendData(c)
    PROVE  /\ screen' \in [Cells -> {Blank} \cup Nat \X Nat] /\ cursor' \in Cells
           /\ harmed' \in BOOLEAN /\ harm' \in Nat
  <1>1. CASE Lost
    BY <1>1 DEF Lost, TypeOK
  <1>2. CASE screen' = [screen EXCEPT ![cursor] = c]
             /\ cursor' = (cursor + 1) % (_LCD_ROWS * _LCD_COLS) /\ Arrives
    <2>1. cursor' \in Cells
      BY <1>2, Sizes DEF TypeOK
    <2> QED
      BY <1>2, <2>1 DEF TypeOK, Arrives
  <1> QED
    BY <1>1, <1>2 DEF SendData

LEMMA TypeSet ==
    ASSUME TypeOK, NEW x \in Nat, NEW y \in Nat, SetCursor(x, y)
    PROVE  /\ screen' = screen /\ cursor' \in Cells
           /\ harmed' \in BOOLEAN /\ harm' \in Nat
  <1>1. CASE Lost
    BY <1>1 DEF Lost, TypeOK
  <1>2. CASE ~Lost
    <2> DEFINE row == IF x > 3 THEN 0 ELSE x
               col == IF y > 19 THEN 0 ELSE y
    <2>1. row \in Rows /\ col \in Columns
      BY Sizes
    <2>2. cursor' = Address(row, col) /\ screen' = screen /\ Arrives
      BY <1>2 DEF SetCursor
    <2>3. cursor' \in Cells
      BY <2>1, <2>2, AddressFacts
    <2> QED
      BY <2>2, <2>3 DEF Arrives, TypeOK
  <1> QED
    BY <1>1, <1>2

LEMMA TypeBegin ==
    ASSUME TypeOK, NEW t \in Texts, BeginText(t)
    PROVE  TypeOK'
  <1>1. /\ text' = t /\ count' = count + 1 /\ next' = 0 /\ left' = 0 /\ turn' = FALSE
        /\ before' = screen
    BY DEF BeginText
  <1>2. Len(t.marks) \in Nat /\ t.row \in Rows /\ t.col \in Columns
    BY TextFacts
  <1>3. currentX' \in Nat /\ currentY' \in Nat
    <2>1. \/ currentX' = t.row /\ currentY' = t.col
          \/ currentX' = currentX /\ currentY' = currentY
      BY DEF BeginText
    <2>2. currentX \in Nat /\ currentY \in Nat
      BY DEF TypeOK
    <2>3. t.row \in Nat /\ t.col \in Nat
      BY <1>2, Sizes
    <2> QED
      BY <2>1, <2>2, <2>3
  <1>4. /\ screen' \in [Cells -> {Blank} \cup Nat \X Nat] /\ cursor' \in Cells
        /\ harmed' \in BOOLEAN /\ harm' \in Nat
    <2>1. CASE Lost
      BY <2>1 DEF Lost, TypeOK
    <2>2. CASE ~Lost
      <3>1. cursor' = Address(t.row, t.col) /\ harmed' = FALSE /\ screen' = screen /\ harm' = harm
        BY <2>2 DEF BeginText
      <3> QED
        BY <1>2, <3>1, AddressFacts DEF TypeOK
    <2> QED
      BY <2>1, <2>2
  <1> QED
    <2>1. text' \in [how : {"puts", "print"}, row : Rows, col : Columns,
                     marks : Seq({Letter, Space})]
      BY <1>1, TextFacts
    <2>2. next' \in 0 .. Len(text'.marks) /\ left' \in Nat
      BY <1>1, <1>2
    <2>3. turn' \in BOOLEAN
      BY <1>1
    <2>4. count' \in Nat /\ before' \in [Cells -> {Blank} \cup Nat \X Nat]
      BY <1>1 DEF TypeOK
    <2> QED
      BY <2>1, <2>2, <2>3, <2>4, <1>3, <1>4 DEF TypeOK

LEMMA TypeClear ==
    ASSUME TypeOK, ClearDisplay
    PROVE  TypeOK'
  <1>1. /\ text' = [text EXCEPT !.marks = <<>>] /\ next' = 0 /\ count' = count + 1
        /\ before' = screen'
        /\ left' = left /\ currentX' = currentX /\ currentY' = currentY /\ turn' = turn
    BY DEF ClearDisplay
  <1>2. <<>> \in Seq({Letter, Space}) /\ Len(<<>>) = 0
    OBVIOUS
  <1>3. /\ text' \in [how : {"puts", "print"}, row : Rows, col : Columns,
                      marks : Seq({Letter, Space})]
        /\ text'.marks = <<>>
    BY <1>1, <1>2 DEF TypeOK
  <1>4. /\ screen' \in [Cells -> {Blank} \cup Nat \X Nat] /\ cursor' \in Cells
        /\ harmed' \in BOOLEAN /\ harm' \in Nat
    <2>1. CASE Lost
      BY <2>1 DEF Lost, TypeOK
    <2>2. CASE screen' = Clear /\ cursor' = 0 /\ Arrives
      BY <2>2, ClearType DEF Arrives, TypeOK
    <2> QED
      BY <2>1, <2>2 DEF ClearDisplay
  <1> QED
    BY <1>1, <1>2, <1>3, <1>4 DEF TypeOK

LEMMA TypeShow ==
    ASSUME TypeOK, ShowText
    PROVE  TypeOK'
  <1>1. text' = text /\ before' = before /\ count' = count
    BY DEF ShowText
  <1>2. Len(text.marks) \in Nat /\ next \in Nat
    BY DEF TypeOK
  <1>3. Blank \in {Blank} \cup Nat \X Nat /\ Shown(next + 1) \in {Blank} \cup Nat \X Nat
    BY <1>2, ShownType
  <1> SUFFICES /\ screen' \in [Cells -> {Blank} \cup Nat \X Nat] /\ cursor' \in Cells
               /\ harmed' \in BOOLEAN /\ harm' \in Nat
               /\ next' \in 0 .. Len(text.marks)
               /\ left' \in Nat /\ currentX' \in Nat /\ currentY' \in Nat /\ turn' \in BOOLEAN
    BY <1>1 DEF TypeOK
  <1>4. CASE PrintMark
    <2>1. SendData(Shown(next + 1)) /\ next' = next + 1 /\ next < Len(text.marks)
          /\ UNCHANGED <<left, currentX, currentY, turn>>
      BY <1>4 DEF PrintMark, Writing
    <2> QED
      BY <1>2, <1>3, <2>1, TypeSent DEF TypeOK
  <1>5. CASE PutSpace
    <2>1. SendData(Blank) /\ next' = next + 1 /\ next < Len(text.marks) /\ left' = left
      BY <1>5 DEF PutSpace, Writing
    <2>2. currentX' \in Nat /\ currentY' \in Nat /\ turn' \in BOOLEAN
      <3>1. \/ currentY' = currentY + 1 /\ currentX' = currentX /\ turn' = turn
            \/ currentY' = 0 /\ currentX' = currentX + 1 /\ turn' = TRUE
        BY <1>5 DEF PutSpace
      <3>2. currentX \in Nat /\ currentY \in Nat
        BY DEF TypeOK
      <3>3. currentX' \in Nat /\ currentY' \in Nat
        BY <3>1, <3>2
      <3>4. turn' \in BOOLEAN
        BY <3>1 DEF TypeOK
      <3> QED
        BY <3>3, <3>4
    <2> QED
      BY <1>2, <1>3, <2>1, <2>2, TypeSent DEF TypeOK
  <1>6. CASE TurnLine
    <2>1. SetCursor(currentX, currentY) /\ turn' = FALSE
          /\ UNCHANGED <<next, left, currentX, currentY>>
      BY <1>6 DEF TurnLine
    <2> QED
      BY <2>1, TypeSet DEF TypeOK
  <1>7. CASE BreakLine
    <2>1. /\ next < Len(text.marks) /\ currentY' = 0 /\ currentX' = currentX + 1
          /\ left' = WordLength(next + 1) /\ SetCursor(currentX + 1, 0)
          /\ UNCHANGED <<next, turn>>
      BY <1>7 DEF BreakLine, Writing
    <2>2. WordLength(next + 1) \in Nat
      BY <1>2, <2>1, WordFacts
    <2>3. currentX + 1 \in Nat /\ 0 \in Nat
      BY DEF TypeOK
    <2> QED
      BY <2>1, <2>2, <2>3, TypeSet DEF TypeOK
  <1>8. CASE PutLetter
    <2>1. /\ next < Len(text.marks) /\ SendData(Shown(next + 1))
          /\ next' = next + 1 /\ currentY' = currentY + 1
          /\ left' = (IF left = 0 THEN WordLength(next + 1) ELSE left) - 1
          /\ UNCHANGED <<currentX, turn>>
      BY <1>8 DEF PutLetter, Writing
    <2>2. WordLength(next + 1) \in Nat /\ WordLength(next + 1) >= 1
      BY <1>2, <2>1, WordFacts
    <2>3. left' \in Nat /\ currentY' \in Nat
      BY <2>1, <2>2 DEF TypeOK
    <2> QED
      BY <1>2, <1>3, <2>1, <2>3, TypeSent DEF TypeOK
  <1> QED
    BY <1>4, <1>5, <1>6, <1>7, <1>8 DEF ShowText

LEMMA TypeNext == TypeOK /\ [Next]_vars => TypeOK'
  <1> SUFFICES ASSUME TypeOK, [Next]_vars PROVE TypeOK'
    OBVIOUS
  <1>1. CASE ClearedByDeletion
    BY <1>1, ClearType DEF ClearedByDeletion, TypeOK, position
  <1>2. CASE UNCHANGED vars
    BY <1>2 DEF vars, position, TypeOK
  <1> QED
    BY <1>1, <1>2, TypeBegin, TypeClear, TypeShow DEF Next

\* Every variable keeps its type for any texts: the address counter stays in the
\* memory of the display, and no letter is counted below nothing (lcd20x4_i2c_puts).
THEOREM TypeCorrect == Spec => []TypeOK
  <1> QED
    BY TypeInit, TypeNext, PTL DEF Spec

-----------------------------------------------------------------------------
(* The words, and the marks of texts to come, whatever happens to the display *)

LEMMA WordsKept ==
    ASSUME text' = text
    PROVE  WordLength(next + 1)' = WordLength(next' + 1) /\ IsLetter(next + 1)' = IsLetter(next' + 1)
  BY DEF WordLength, IsLetter

LEMMA WordBegin ==
    ASSUME TypeOK, WordInv, NEW t \in Texts, BeginText(t)
    PROVE  WordInv'
  <1>1. text' = t /\ left' = 0 /\ turn' = FALSE
    BY DEF BeginText
  <1>2. t.how = "puts" => currentX' = t.row /\ currentY' = t.col
    BY DEF BeginText
  <1>3. t.row \in Int /\ t.col \in Int /\ t.col <= 19
    BY TextFacts, Sizes, SMTT(30)
  <1> QED
    BY <1>1, <1>2, <1>3, Sizes DEF WordInv

LEMMA WordClear ==
    ASSUME TypeOK, WordInv, ClearDisplay
    PROVE  WordInv'
  <1>1. /\ text' = [text EXCEPT !.marks = <<>>]
        /\ left' = left /\ currentX' = currentX /\ currentY' = currentY /\ turn' = turn
        /\ next = Len(text.marks) /\ turn = FALSE
    BY DEF ClearDisplay, Finished, TypeOK
  <1>2. text'.how = text.how /\ text'.row = text.row
    BY <1>1 DEF TypeOK
  <1>3. ~ IsLetter(next + 1)
    BY <1>1 DEF IsLetter, TypeOK
  <1>4. ~ (left > 0)
    BY <1>3 DEF WordInv
  <1> QED
    BY <1>1, <1>2, <1>4 DEF WordInv

LEMMA WordShow ==
    ASSUME TypeOK, WordInv, Room, ShowText
    PROVE  WordInv'
  <1>1. text' = text /\ Letter # Space
    BY LcdAssumption DEF ShowText, LcdAssumption
  <1>2. /\ Len(text.marks) \in Nat /\ next \in Nat /\ left \in Nat
        /\ currentX \in Nat /\ currentY \in Nat
    BY DEF TypeOK
  <1>0. text.row \in Int
    BY Sizes DEF TypeOK
  <1>3. WordLength(next + 1)' = WordLength(next' + 1) /\ IsLetter(next + 1)' = IsLetter(next' + 1)
    BY <1>1, WordsKept
  <1>4. CASE PrintMark
    <2>1. text.how = "print" /\ turn' = turn /\ left' = left /\ ~turn
      BY <1>4 DEF PrintMark, Writing
    <2>2. ~ (left > 0)
      BY <2>1 DEF WordInv
    <2> QED
      BY <1>1, <2>1, <2>2 DEF WordInv
  <1>5. CASE PutSpace
    <2>1. left' = left /\ ~turn /\ text.marks[next + 1] = Space /\ text.how = "puts"
      BY <1>5 DEF PutSpace, Writing, Mark
    <2>2. ~ (left > 0)
      BY <1>1, <2>1 DEF WordInv, IsLetter
    <2>3. text.row <= currentX /\ currentY <= 20
      BY <2>1, Sizes DEF WordInv
    <2>4. \/ currentY < 20 /\ currentY' = currentY + 1 /\ currentX' = currentX /\ turn' = turn
          \/ currentY' = 0 /\ currentX' = currentX + 1 /\ turn' = TRUE
      BY <1>5, Sizes DEF PutSpace
    <2>5. text.row <= currentX' /\ currentY' <= 20 /\ (turn' => currentY' = 0)
      BY <1>2, <1>0, <2>1, <2>3, <2>4
    <2> QED
      BY <1>1, <2>1, <2>2, <2>5, Sizes DEF WordInv
  <1>6. CASE TurnLine
    <2>1. turn /\ turn' = FALSE /\ UNCHANGED <<next, left, currentX, currentY>>
      BY <1>6 DEF TurnLine
    <2>2. ~ (left > 0)
      BY <2>1 DEF WordInv
    <2> QED
      BY <1>1, <2>1, <2>2 DEF WordInv
  <1>7. CASE BreakLine
    <2>1. /\ next < Len(text.marks) /\ ~turn /\ text.marks[next + 1] = Letter
          /\ text.how = "puts" /\ currentY' = 0 /\ currentX' = currentX + 1
          /\ left' = WordLength(next + 1) /\ UNCHANGED <<next, turn>>
      BY <1>7 DEF BreakLine, Writing, Mark
    <2>2. WordLength(next + 1) <= 20 /\ WordLength(next + 1) \in Nat
      BY <1>2, <1>7, <2>1, WordFacts, Sizes DEF Room, Mark, BreakLine
    <2>3. IsLetter(next + 1)
      BY <1>2, <2>1 DEF IsLetter, TypeOK
    <2>4. text.row <= currentX
      BY <2>1 DEF WordInv
    <2>5. /\ 0 + left' <= 20 /\ text.row <= currentX' /\ 0 <= 20
          /\ left' = WordLength(next + 1)' /\ IsLetter(next + 1)'
      BY <1>2, <1>3, <1>0, <2>1, <2>2, <2>3, <2>4
    <2> QED
      BY <1>1, <2>1, <2>5, Sizes DEF WordInv
  <1>8. CASE PutLetter
    <2>1. /\ next < Len(text.marks) /\ ~turn /\ text.marks[next + 1] = Letter
          /\ text.how = "puts" /\ next' = next + 1 /\ currentY' = currentY + 1
          /\ left' = (IF left = 0 THEN WordLength(next + 1) ELSE left) - 1
          /\ (left = 0 => ~BreakDue) /\ UNCHANGED <<currentX, turn>>
      BY <1>8 DEF PutLetter, Writing, Mark
    <2> DEFINE word == WordLength(next + 1)
    <2>2. /\ word \in Nat /\ word >= 1
          /\ word > 1 => /\ IsLetter(next + 2)
                         /\ WordLength(next + 2) = word - 1
      <3>1. next + 1 \in 1 .. Len(text.marks) /\ (next + 1) + 1 = next + 2
        BY <1>2, <2>1
      <3>2. DOMAIN text.marks = 1 .. Len(text.marks)
        BY DEF TypeOK
      <3> QED
        BY <3>1, <3>2, WordFacts DEF IsLetter
    <2>3. left' = word - 1 /\ currentY + word <= 20
      <3>1. CASE left = 0
        BY <1>2, <2>1, <2>2, <3>1, Sizes DEF BreakDue
      <3>2. CASE left # 0
        <4>1. left = word /\ currentY + left <= 20
          BY <1>2, <3>2, Sizes DEF WordInv
        <4> QED
          BY <2>1, <3>2, <4>1
      <3> QED
        BY <3>1, <3>2
    <2> HIDE DEF word
    <2>4. left' > 0 => /\ IsLetter(next + 1)' /\ left' = WordLength(next + 1)'
                       /\ currentY' + left' <= 20
      <3>1. next' + 1 = next + 2
        BY <1>2, <2>1
      <3> QED
        BY <1>2, <1>3, <2>1, <2>2, <2>3, <3>1
    <2>5. currentY' <= 20 /\ text.row <= currentX'
      BY <1>2, <1>0, <2>1, <2>2, <2>3 DEF WordInv
    <2> QED
      BY <1>1, <2>1, <2>4, <2>5, Sizes DEF WordInv
  <1> QED
    BY <1>4, <1>5, <1>6, <1>7, <1>8 DEF ShowText

LEMMA WordNext == TypeOK /\ WordInv /\ Room /\ [Next]_vars => WordInv'
  <1> SUFFICES ASSUME TypeOK, WordInv, Room, [Next]_vars PROVE WordInv'
    OBVIOUS
  <1>1. CASE ClearedByDeletion \/ UNCHANGED vars
    <2>1. UNCHANGED <<text, next, left, currentX, currentY, turn>>
      BY <1>1 DEF ClearedByDeletion, vars, position
    <2>2. WordLength(next + 1)' = WordLength(next' + 1) /\ IsLetter(next + 1)' = IsLetter(next' + 1)
      BY <2>1, WordsKept
    <2> QED
      BY <2>1, <2>2 DEF WordInv
  <1> QED
    BY <1>1, WordBegin, WordClear, WordShow DEF Next

LEMMA GlassType ==
    ASSUME TypeOK
    PROVE  /\ \A row \in Rows, col \in Columns : screen[Cell(row, col)] \in {Blank} \cup Nat \X Nat
           /\ count \in Nat /\ next \in Nat
  BY CellFacts DEF TypeOK

LEMMA NoneSent ==
    ASSUME TypeOK, NoneToCome, NEW c, SendData(c), count' = count, c # Blank => c[1] = count
    PROVE  NoneToCome'
  <1>1. CASE Lost
    BY <1>1 DEF Lost, NoneToCome
  <1>2. CASE screen' = [screen EXCEPT ![cursor] = c]
    <2>1. ASSUME NEW row \in Rows, NEW col \in Columns, screen'[Cell(row, col)] # Blank
          PROVE  screen'[Cell(row, col)][1] <= count
      <3>1. screen'[Cell(row, col)] = c \/ screen'[Cell(row, col)] = screen[Cell(row, col)]
        BY <1>2, CellFacts DEF TypeOK
      <3>2. count \in Nat
        BY DEF TypeOK
      <3> QED
        BY <2>1, <3>1, <3>2 DEF NoneToCome
    <2> QED
      BY <2>1 DEF NoneToCome
  <1> QED
    BY <1>1, <1>2 DEF SendData

LEMMA NoneCleared ==
    ASSUME screen' = Clear
    PROVE  NoneToCome'
  BY CellFacts DEF Clear, NoneToCome

LEMMA NoneKept ==
    ASSUME TypeOK, NoneToCome, screen' = screen, count' = count \/ count' = count + 1
    PROVE  NoneToCome'
  <1>1. ASSUME NEW row \in Rows, NEW col \in Columns, screen[Cell(row, col)] # Blank
        PROVE  screen[Cell(row, col)][1] <= count'
    <2>1. screen[Cell(row, col)] \in Nat \X Nat /\ count \in Nat
      BY <1>1, GlassType
    <2>2. screen[Cell(row, col)][1] \in Nat /\ screen[Cell(row, col)][1] <= count
      BY <1>1, <2>1 DEF NoneToCome
    <2> QED
      BY <2>1, <2>2
  <1> QED
    BY <1>1 DEF NoneToCome

LEMMA NoneNext == TypeOK /\ NoneToCome /\ [Next]_vars => NoneToCome'
  <1> SUFFICES ASSUME TypeOK, NoneToCome, [Next]_vars PROVE NoneToCome'
    OBVIOUS
  <1>1. ASSUME NEW t \in Texts, BeginText(t) PROVE NoneToCome'
    BY <1>1, NoneKept DEF BeginText, Lost
  <1>2. CASE ClearDisplay
    BY <1>2, NoneKept, NoneCleared DEF ClearDisplay, Lost
  <1>3. CASE ShowText
    <2>1. count' = count
      BY <1>3 DEF ShowText
    <2>2. Shown(next + 1) # Blank => Shown(next + 1)[1] = count
      BY DEF Shown
    <2>3. CASE PrintMark \/ PutLetter
      BY <2>1, <2>2, <2>3, NoneSent DEF PrintMark, PutLetter
    <2>4. CASE PutSpace
      BY <2>1, <2>4, NoneSent DEF PutSpace
    <2>5. CASE TurnLine \/ BreakLine
      BY <2>1, <2>5, NoneKept DEF TurnLine, BreakLine, SetCursor, Lost
    <2> QED
      BY <1>3, <2>3, <2>4, <2>5 DEF ShowText
  <1>4. CASE ClearedByDeletion
    BY <1>4, NoneCleared DEF ClearedByDeletion
  <1>5. CASE UNCHANGED vars
    BY <1>5, NoneKept DEF vars
  <1> QED
    BY <1>1, <1>2, <1>3, <1>4, <1>5 DEF Next

-----------------------------------------------------------------------------
(* A mark that arrives at its place *)

LEMMA Advance ==
    ASSUME NEW row \in Rows, NEW col \in Columns
    PROVE  Cell(row, col) = Spot(row, col) /\ (Spot(row, col) + 1) % 80 = Spot(row, col + 1)
  <1>1. row = 0 \/ row = 1 \/ row = 2 \/ row = 3
    BY Sizes
  <1>2. /\ col \in Int /\ 0 <= col /\ col <= 19
    BY Sizes
  <1>3. /\ \A c : Cell(row, c) = (IF row = 0 THEN 0 ELSE IF row = 1 THEN 40
                                  ELSE IF row = 2 THEN 20 ELSE 60) + c
    BY <1>1, CellValue
  <1>4. /\ Spot(row, col) = Cell(row, col)
        /\ Spot(row, col + 1) = IF col < 19 THEN Cell(row, col + 1) ELSE (Cell(row, 19) + 1) % 80
    BY <1>2, Sizes DEF Spot
  <1>5. CASE col < 19
    <2>1. Cell(row, col) + 1 = Cell(row, col + 1) /\ Cell(row, col) + 1 \in 0 .. 79
      BY <1>1, <1>2, <1>3, <1>5
    <2> QED
      BY <1>4, <1>5, <2>1
  <1>6. CASE col = 19
    BY <1>4, <1>6
  <1> QED
    BY <1>2, <1>4, <1>5, <1>6

\* Behind a full row 0 or 1 the address counter is at the start of the row two below.
LEMMA Spill ==
    ASSUME NEW row \in {0, 1}
    PROVE  Spot(row, 20) = Cell(row + 2, 0)
  BY CellValue, Sizes DEF Spot

\* What the lemmas below speak of: one more mark of the same text.
OneMore == text' = text /\ count' = count /\ next' = next + 1 /\ before' = before

LEMMA LetterSent ==
    ASSUME TypeOK, Sent, Behind, Joint, OneMore, IsLetter(next + 1),
           NEW row0 \in Rows, NEW col0 \in Columns, Row = row0, Col = col0,
           Row' = row0, Col' = col0 + 1,
           screen' = [screen EXCEPT ![Cell(row0, col0)] = <<count, next + 1>>]
    PROVE  Sent' /\ Behind' /\ screen'[Cell(row0, col0)] = <<count', next'>>
  <1> DEFINE Here(row, col) == row = row0 /\ col = col0
             Mark0(row, col) == screen[Cell(row, col)]
             Mark1(row, col) == screen'[Cell(row, col)]
  <1>1. \A row \in Rows, col \in Columns :
            Mark1(row, col) = IF Here(row, col) THEN <<count, next + 1>> ELSE Mark0(row, col)
    BY CellFacts DEF TypeOK
  <1>2. /\ text' = text /\ count' = count /\ next' = next + 1 /\ next \in Nat
        /\ text.marks[next + 1] = Letter /\ Rows \in SUBSET Int /\ Columns \in SUBSET Int
    BY Sizes DEF OneMore, TypeOK, IsLetter
  <1>3. \A row \in Rows, col \in Columns :
            OfText(Mark0(row, col)) => Before(row, col, row0, col0)
    BY DEF Behind
  <1>4. \A row \in Rows, col \in Columns : OfText(Mark0(row, col)) => ~ Here(row, col)
    BY <1>2, <1>3 DEF Before
  <1>5. \A row \in Rows, col \in Columns :
            /\ ~ Here(row, col) => Mark1(row, col) = Mark0(row, col)
            /\ Here(row, col) => /\ Mark1(row, col) = <<count, next + 1>>
                                 /\ Mark1(row, col)[1] = count /\ Mark1(row, col)[2] = next + 1
                                 /\ Mark1(row, col) # Blank
    BY <1>1, Marked
  <1> HIDE DEF Mark0, Mark1
  <1>6. SentOnly'
    <2>1. ASSUME NEW row \in Rows, NEW col \in Columns,
                 Mark1(row, col) # Blank, Mark1(row, col)[1] = count
          PROVE  Mark1(row, col)[2] \in 1 .. next + 1 /\ text.marks[Mark1(row, col)[2]] = Letter
      <3>1. CASE Here(row, col)
        BY <1>2, <1>5, <3>1
      <3>2. CASE ~ Here(row, col)
        <4>1. Mark1(row, col) = Mark0(row, col) /\ OfText(Mark0(row, col))
          BY <1>5, <2>1, <3>2 DEF OfText
        <4>2. Mark0(row, col)[2] \in 1 .. next /\ text.marks[Mark0(row, col)[2]] = Letter
          BY <4>1 DEF Sent, SentOnly, Mark0
        <4> QED
          BY <1>2, <4>1, <4>2
      <3> QED
        BY <3>1, <3>2
    <2> QED
      BY <1>2, <2>1 DEF SentOnly, OfText, Mark1
  <1>7. SentAll'
    <2>1. ASSUME NEW i \in 1 .. next + 1, text.marks[i] = Letter
          PROVE  \E row \in Rows, col \in Columns : Mark1(row, col) = <<count, i>>
      <3>1. CASE i = next + 1
        BY <1>5, <3>1
      <3>2. CASE i # next + 1
        <4>1. i \in 1 .. next
          BY <1>2, <3>2
        <4>2. PICK row \in Rows, col \in Columns : Mark0(row, col) = <<count, i>>
          BY <2>1, <4>1 DEF Sent, SentAll, At, Mark0
        <4>3. OfText(Mark0(row, col))
          BY <4>2, Marked DEF OfText
        <4> QED
          BY <1>4, <1>5, <4>2, <4>3
      <3> QED
        BY <3>1, <3>2
    <2> QED
      BY <1>2, <2>1 DEF SentAll, At, Mark1
  <1>8. InOrder'
    <2>1. ASSUME NEW row1 \in Rows, NEW row2 \in Rows, NEW col1 \in Columns, NEW col2 \in Columns,
                 Mark1(row1, col1) # Blank, Mark1(row1, col1)[1] = count,
                 Mark1(row2, col2) # Blank, Mark1(row2, col2)[1] = count,
                 Before(row1, col1, row2, col2)
          PROVE  Mark1(row1, col1)[2] < Mark1(row2, col2)[2]
      <3>1. /\ row1 \in Int /\ row2 \in Int /\ col1 \in Int /\ col2 \in Int
            /\ row0 \in Int /\ col0 \in Int
        BY <1>2
      <3>2. CASE Here(row1, col1)
        <4>1. ~ Here(row2, col2)
          BY <2>1, <3>1, <3>2 DEF Before
        <4>2. OfText(Mark0(row2, col2))
          BY <1>5, <2>1, <4>1 DEF OfText
        <4>3. Before(row2, col2, row0, col0)
          BY <1>3, <4>2
        <4> QED
          BY <2>1, <3>1, <3>2, <4>3 DEF Before
      <3>3. CASE ~ Here(row1, col1) /\ Here(row2, col2)
        <4>1. OfText(Mark0(row1, col1)) /\ Mark1(row1, col1) = Mark0(row1, col1)
          BY <1>5, <2>1, <3>3 DEF OfText
        <4>2. Mark0(row1, col1)[2] \in 1 .. next
          BY <4>1 DEF Sent, SentOnly, Mark0
        <4>3. Mark1(row2, col2)[2] = next + 1
          BY <1>5, <3>3
        <4> QED
          BY <1>2, <4>1, <4>2, <4>3
      <3>4. CASE ~ Here(row1, col1) /\ ~ Here(row2, col2)
        <4>1. /\ OfText(Mark0(row1, col1)) /\ Mark1(row1, col1) = Mark0(row1, col1)
              /\ OfText(Mark0(row2, col2)) /\ Mark1(row2, col2) = Mark0(row2, col2)
          BY <1>5, <2>1, <3>4 DEF OfText
        <4> QED
          BY <2>1, <4>1 DEF Sent, InOrder, Mark0
      <3> QED
        BY <3>2, <3>3, <3>4
    <2> QED
      BY <1>2, <2>1 DEF InOrder, OfText, Mark1, Before
  <1>9. SentWhole'
    <2>1. ASSUME NEW row \in Rows, NEW col \in Columns, NEW i \in 1 .. next + 1,
                 Mark1(row, col) = <<count, i>>, i + 1 <= next + 1, text.marks[i + 1] = Letter
          PROVE  col + 1 \in Columns /\ Mark1(row, col + 1) = <<count, i + 1>>
      <3>1. i \in 1 .. next
        BY <1>2, <2>1
      <3>2. ~ Here(row, col)
        <4>1. <<count, i>>[2] = i
          BY Marked
        <4> QED
          BY <1>2, <1>5, <2>1, <3>1, <4>1
      <3>3. Mark0(row, col) = <<count, i>> /\ OfText(Mark0(row, col))
        BY <1>5, <2>1, <3>2, Marked DEF OfText
      <3>4. CASE i + 1 <= next
        <4>1. col + 1 \in Columns /\ Mark0(row, col + 1) = <<count, i + 1>>
          BY <2>1, <3>1, <3>3, <3>4 DEF Sent, SentWhole, At, Mark0
        <4>2. OfText(Mark0(row, col + 1))
          BY <4>1, Marked DEF OfText
        <4> QED
          BY <1>4, <1>5, <4>1, <4>2
      <3>5. CASE i = next
        <4>1. IsLetter(next)
          <5>1. text.marks[Mark0(row, col)[2]] = Letter
            BY <3>3 DEF Sent, SentOnly, Mark0
          <5>2. text.marks[next] = Letter /\ next \in 1 .. Len(text.marks)
            BY <3>1, <3>3, <3>5, <5>1, Marked DEF TypeOK
          <5> QED
            BY <5>2 DEF IsLetter, TypeOK
        <4>2. /\ col0 >= 1 /\ col0 - 1 \in Columns /\ Mark0(row0, col0 - 1) = <<count, next>>
          BY <1>2, <3>1, <3>5, <4>1 DEF Joint, At, Mark0
        <4>3. row = row0 /\ col = col0 - 1
          <5>1. OfText(Mark0(row0, col0 - 1)) /\ Mark0(row0, col0 - 1)[2] = next
            BY <4>2, Marked DEF OfText
          <5>2. Mark0(row, col)[2] = next
            BY <3>3, <3>5, Marked
          <5>3. ~ Before(row, col, row0, col0 - 1) /\ ~ Before(row0, col0 - 1, row, col)
            BY <1>2, <3>3, <4>2, <5>1, <5>2 DEF Sent, InOrder, Mark0
          <5>4. row \in Int /\ col \in Int /\ row0 \in Int /\ col0 \in Int
            BY <1>2
          <5> QED
            BY <5>3, <5>4 DEF Before
        <4>4. col + 1 = col0
          BY <1>2, <4>3
        <4>5. Mark1(row0, col0) = <<count, next + 1>>
          BY <1>5
        <4> QED
          BY <3>5, <4>3, <4>4, <4>5
      <3> QED
        BY <1>2, <3>1, <3>4, <3>5
    <2> QED
      BY <1>2, <2>1 DEF SentWhole, At, Mark1
  <1>10. Behind'
    <2>1. ASSUME NEW row \in Rows, NEW col \in Columns,
                 Mark1(row, col) # Blank, Mark1(row, col)[1] = count
          PROVE  Before(row, col, row0, col0 + 1)
      <3>1. CASE Here(row, col)
        BY <1>2, <3>1 DEF Before
      <3>2. CASE ~ Here(row, col)
        <4>1. OfText(Mark0(row, col))
          BY <1>5, <2>1, <3>2 DEF OfText
        <4> QED
          BY <1>2, <1>3, <4>1 DEF Before
      <3> QED
        BY <3>1, <3>2
    <2> QED
      BY <1>2, <2>1 DEF Behind, Before, OfText, Mark1
  <1>11. screen'[Cell(row0, col0)] = <<count', next'>>
    BY <1>2, <1>5 DEF Mark1
  <1> QED
    BY <1>6, <1>7, <1>8, <1>9, <1>10, <1>11 DEF Sent

\* A blank where nothing of the text stands.
LEMMA BlankSent ==
    ASSUME TypeOK, Sent, Behind, OneMore, next < Len(text.marks), text.marks[next + 1] = Space,
           NEW row0 \in Rows, NEW col0 \in Columns, ~ OfText(screen[Cell(row0, col0)]),
           screen' = [screen EXCEPT ![Cell(row0, col0)] = Blank],
           Row \in Int, Col \in Int,
           (Row' = Row /\ Col' = Col + 1) \/ Row' = Row + 1
    PROVE  Sent' /\ Behind'
  <1> DEFINE Here(row, col) == row = row0 /\ col = col0
             Mark0(row, col) == screen[Cell(row, col)]
             Mark1(row, col) == screen'[Cell(row, col)]
  <1>1. \A row \in Rows, col \in Columns :
            Mark1(row, col) = IF Here(row, col) THEN Blank ELSE Mark0(row, col)
    BY CellFacts DEF TypeOK
  <1>2. /\ text' = text /\ count' = count /\ next' = next + 1 /\ next \in Nat
        /\ text.marks[next + 1] # Letter /\ Rows \in SUBSET Int /\ Columns \in SUBSET Int
    BY Sizes, LcdAssumption DEF OneMore, TypeOK, LcdAssumption
  <1>3. \A row \in Rows, col \in Columns :
            OfText(Mark0(row, col)) => Mark1(row, col) = Mark0(row, col)
    BY <1>1
  <1>4. \A row \in Rows, col \in Columns :
            Mark1(row, col) # Blank /\ Mark1(row, col)[1] = count =>
                Mark1(row, col) = Mark0(row, col) /\ OfText(Mark0(row, col))
    BY <1>1 DEF OfText
  <1>5. \A row \in Rows, col \in Columns, i \in Nat :
            Mark1(row, col) = <<count, i>> <=> Mark0(row, col) = <<count, i>>
    <2>1. ASSUME NEW row \in Rows, NEW col \in Columns, NEW i \in Nat
          PROVE  Mark1(row, col) = <<count, i>> <=> Mark0(row, col) = <<count, i>>
      <3>1. <<count, i>> # Blank /\ <<count, i>>[1] = count
        BY Marked
      <3> HIDE DEF Mark0, Mark1
      <3>2. Mark1(row, col) = <<count, i>> => Mark0(row, col) = <<count, i>>
        BY <1>4, <3>1
      <3>3. Mark0(row, col) = <<count, i>> => Mark1(row, col) = <<count, i>>
        BY <1>3, <3>1 DEF OfText
      <3> QED
        BY <3>2, <3>3
    <2> QED
      BY <2>1
  <1> HIDE DEF Mark0, Mark1
  <1>6. SentOnly'
    <2>1. ASSUME NEW row \in Rows, NEW col \in Columns,
                 Mark1(row, col) # Blank, Mark1(row, col)[1] = count
          PROVE  Mark1(row, col)[2] \in 1 .. next + 1 /\ text.marks[Mark1(row, col)[2]] = Letter
      <3>1. Mark0(row, col)[2] \in 1 .. next /\ text.marks[Mark0(row, col)[2]] = Letter
        BY <1>4, <2>1 DEF Sent, SentOnly, Mark0
      <3> QED
        BY <1>2, <1>4, <2>1, <3>1
    <2> QED
      BY <1>2, <2>1 DEF SentOnly, OfText, Mark1
  <1>7. SentAll'
    <2>1. ASSUME NEW i \in 1 .. next + 1, text.marks[i] = Letter
          PROVE  \E row \in Rows, col \in Columns : Mark1(row, col) = <<count, i>>
      <3>1. i \in 1 .. next /\ i \in Nat
        BY <1>2, <2>1
      <3>2. PICK row \in Rows, col \in Columns : Mark0(row, col) = <<count, i>>
        BY <2>1, <3>1 DEF Sent, SentAll, At, Mark0
      <3> QED
        BY <1>5, <3>1, <3>2
    <2> QED
      BY <1>2, <2>1 DEF SentAll, At, Mark1
  <1>8. InOrder'
    <2>1. ASSUME NEW row1 \in Rows, NEW row2 \in Rows, NEW col1 \in Columns, NEW col2 \in Columns,
                 Mark1(row1, col1) # Blank, Mark1(row1, col1)[1] = count,
                 Mark1(row2, col2) # Blank, Mark1(row2, col2)[1] = count,
                 Before(row1, col1, row2, col2)
          PROVE  Mark1(row1, col1)[2] < Mark1(row2, col2)[2]
      BY <1>4, <2>1 DEF Sent, InOrder, Mark0
    <2> QED
      BY <1>2, <2>1 DEF InOrder, OfText, Mark1, Before
  <1>9. SentWhole'
    <2>1. ASSUME NEW row \in Rows, NEW col \in Columns, NEW i \in 1 .. next',
                 Mark1(row, col) = <<count', i>>, i + 1 <= next', text'.marks[i + 1] = Letter
          PROVE  col + 1 \in Columns /\ Mark1(row, col + 1) = <<count', i + 1>>
      <3>1. /\ i \in 1 .. next /\ i \in Nat /\ i + 1 \in Nat /\ i + 1 <= next
            /\ text.marks[i + 1] = Letter /\ Mark1(row, col) = <<count, i>>
        BY <1>2, <2>1
      <3>2. Mark0(row, col) = <<count, i>>
        BY <1>5, <3>1
      <3>3. col + 1 \in Columns /\ Mark0(row, col + 1) = <<count, i + 1>>
        BY <3>1, <3>2 DEF Sent, SentWhole, At, Mark0
      <3>4. Mark1(row, col + 1) = <<count, i + 1>>
        BY <1>5, <3>1, <3>3
      <3> QED
        BY <1>2, <3>3, <3>4
    <2> QED
      BY <2>1 DEF SentWhole, At, Mark1
  <1>10. Behind'
    <2>1. ASSUME NEW row \in Rows, NEW col \in Columns,
                 Mark1(row, col) # Blank, Mark1(row, col)[1] = count
          PROVE  Before(row, col, Row', Col')
      <3>1. Before(row, col, Row, Col)
        BY <1>4, <2>1 DEF Behind, Mark0
      <3>2. row \in Int /\ col \in Int
        BY <1>2
      <3> QED
        BY <3>1, <3>2 DEF Before
    <2> QED
      BY <1>2, <2>1 DEF Behind, Before, OfText, Mark1
  <1> QED
    BY <1>6, <1>7, <1>8, <1>9, <1>10 DEF Sent

\* A line break changes nothing that has been sent.
LEMMA LineTurned ==
    ASSUME Sent, Behind, UNCHANGED <<screen, text, count, next>>, Row \in Int, Col \in Int,
           (Row' = Row /\ Col' = Col) \/ Row' = Row + 1
    PROVE  Sent' /\ Behind'
  <1>1. Sent'
    BY DEF Sent, SentOnly, SentAll, InOrder, SentWhole, OfText, At, Before
  <1>2. ASSUME NEW row \in Rows, NEW col \in Columns, Before(row, col, Row, Col)
        PROVE  Before(row, col, Row', Col')
    <2>1. row \in Int /\ col \in Int
      BY Sizes
    <2> QED
      BY <1>2, <2>1 DEF Before
  <1>3. Behind'
    BY <1>2 DEF Behind, OfText, Before
  <1> QED
    BY <1>1, <1>3

\* The rows not gone through keep what they show.
LEMMA KeptSent ==
    ASSUME TypeOK, RestKept, before' = before, \A row \in Touched : row \in Touched',
           NEW row0 \in Rows, NEW col0 \in Columns, NEW c,
           screen' = [screen EXCEPT ![Cell(row0, col0)] = c],
           row0 \in Touched' \/ (col0 = 0 /\ c = Blank)
    PROVE  RestKept'
  <1>1. \A row \in Rows, col \in Columns :
            screen'[Cell(row, col)] =
                IF row = row0 /\ col = col0 THEN c ELSE screen[Cell(row, col)]
    BY CellFacts DEF TypeOK
  <1>2. ASSUME NEW row \in Rows \ Touched', NEW col \in Columns
        PROVE  \/ screen'[Cell(row, col)] = before[Cell(row, col)]
               \/ col = 0 /\ screen'[Cell(row, col)] = Blank
    <2>1. row \in Rows \ Touched
      BY <1>2
    <2> QED
      BY <1>1, <1>2, <2>1 DEF RestKept
  <1> QED
    BY <1>2 DEF RestKept

LEMMA KeptTurned ==
    ASSUME RestKept, screen' = screen, before' = before, \A row \in Touched : row \in Touched'
    PROVE  RestKept'
  BY DEF RestKept

-----------------------------------------------------------------------------
(* What is on the display: one lemma per action *)

LEMMA ArrivesHere ==
    ASSUME NEW c, SendData(c), ~ harmed'
    PROVE  ~ harmed /\ screen' = [screen EXCEPT ![cursor] = c] /\ cursor' = (cursor + 1) % 80
  BY Sizes DEF SendData, Lost, Arrives

LEMMA ShownBegin ==
    ASSUME TypeOK, NoneToCome, NEW t \in Texts, BeginText(t)
    PROVE  ShownInv'
  <1> SUFFICES ASSUME ~ harmed' PROVE Sent' /\ Behind' /\ Placed' /\ Joint' /\ RestKept'
    BY DEF ShownInv
  <1>1. /\ text' = t /\ count' = count + 1 /\ next' = 0 /\ turn' = FALSE /\ before' = screen
        /\ screen' = screen /\ cursor' = Cell(t.row, t.col)
    BY TextFacts DEF BeginText, Lost
  <1>2. \A row \in Rows, col \in Columns :
            ~ (screen'[Cell(row, col)] # Blank /\ screen'[Cell(row, col)][1] = count')
    <2>1. ASSUME NEW row \in Rows, NEW col \in Columns, screen[Cell(row, col)] # Blank
          PROVE  screen[Cell(row, col)][1] # count + 1
      <3>1. screen[Cell(row, col)] \in Nat \X Nat /\ count \in Nat
        BY <2>1, GlassType
      <3>2. screen[Cell(row, col)][1] \in Nat /\ screen[Cell(row, col)][1] <= count
        BY <2>1, <3>1 DEF NoneToCome
      <3> QED
        BY <3>1, <3>2
    <2> QED
      BY <1>1, <2>1
  <1>3. Sent' /\ Behind'
    BY <1>1, <1>2 DEF Sent, SentOnly, SentAll, InOrder, SentWhole, Behind, OfText
  <1>4. Placed'
    <2>1. t.row \in Rows /\ t.col \in Columns
      BY TextFacts
    <2>2. Row' = t.row /\ Col' = t.col
      <3>1. t.how = "puts" => currentX' = t.row /\ currentY' = t.col
        BY DEF BeginText
      <3>2. t.col + 0 = t.col
        BY <2>1, Sizes
      <3> QED
        BY <1>1, <3>1, <3>2 DEF Row, Col
    <2>3. Spot(t.row, t.col) = Cell(t.row, t.col)
      BY <2>1, Advance
    <2> QED
      BY <1>1, <2>2, <2>3 DEF Placed, Spot
  <1>5. Joint'
    BY <1>1 DEF Joint
  <1>6. RestKept'
    BY <1>1 DEF RestKept
  <1> QED
    BY <1>3, <1>4, <1>5, <1>6

LEMMA ShownClear ==
    ASSUME TypeOK, ClearDisplay
    PROVE  ShownInv'
  <1> SUFFICES ASSUME ~ harmed' PROVE Sent' /\ Behind' /\ Placed' /\ Joint' /\ RestKept'
    BY DEF ShownInv
  <1>1. /\ text' = [text EXCEPT !.marks = <<>>] /\ next' = 0 /\ before' = screen'
        /\ screen' = Clear
    BY DEF ClearDisplay, Lost
  <1>2. text'.marks = <<>> /\ Len(<<>>) = 0
    BY <1>1 DEF TypeOK
  <1>3. \A row \in Rows, col \in Columns : screen'[Cell(row, col)] = Blank
    BY <1>1, CellFacts DEF Clear
  <1>4. Sent' /\ Behind'
    BY <1>1, <1>3 DEF Sent, SentOnly, SentAll, InOrder, SentWhole, Behind, OfText
  <1>5. Placed' /\ Joint'
    BY <1>1, <1>2 DEF Placed, Joint, Writing
  <1>6. RestKept'
    BY <1>1 DEF RestKept
  <1> QED
    BY <1>4, <1>5, <1>6

LEMMA ShownPrint ==
    ASSUME TypeOK, Room, ShownInv, PrintMark, UNCHANGED <<text, before, count>>
    PROVE  ShownInv'
  <1> SUFFICES ASSUME ~ harmed' PROVE Sent' /\ Behind' /\ Placed' /\ Joint' /\ RestKept'
    BY DEF ShownInv
  <1>1. /\ Writing /\ text.how = "print" /\ SendData(Shown(next + 1)) /\ next' = next + 1
        /\ text' = text /\ before' = before /\ count' = count /\ turn' = turn
    BY DEF PrintMark
  <1>2. /\ ~ harmed /\ screen' = [screen EXCEPT ![cursor] = Shown(next + 1)]
        /\ cursor' = (cursor + 1) % 80
    BY <1>1, ArrivesHere
  <1>3. Sent /\ Behind /\ Placed /\ Joint /\ RestKept
    BY <1>2 DEF ShownInv
  <1>4. PICK row0 \in Rows, col0 \in Columns :
            row0 = text.row /\ col0 = text.col + next /\ row0 \in Int /\ col0 \in Int
    <2>1. text.row \in Rows /\ text.col \in Columns /\ next \in Nat
      BY DEF TypeOK
    <2>2. text.col + next < 20
      BY <1>1, Sizes DEF Room
    <2> QED
      BY <2>1, <2>2, Sizes
  <1>5. Row = row0 /\ Col = col0 /\ Row' = row0 /\ Col' = col0 + 1
    <2>1. text.col \in Int /\ next \in Int
      BY Sizes DEF TypeOK
    <2> QED
      BY <1>1, <1>4, <2>1 DEF Row, Col
  <1>6. cursor = Cell(row0, col0) /\ cursor' = Spot(row0, col0 + 1)
    <2>1. cursor = Spot(row0, col0)
      BY <1>1, <1>3, <1>5 DEF Placed
    <2> QED
      BY <1>2, <2>1, Advance
  <1>7. /\ next \in Nat /\ next < Len(text.marks) /\ next + 1 \in DOMAIN text.marks
        /\ text.marks[next + 1] = Letter \/ text.marks[next + 1] = Space
    BY <1>1 DEF TypeOK, Writing
  <1>8. OneMore
    BY <1>1 DEF OneMore
  <1>9. Sent' /\ Behind' /\ (IsLetter(next + 1) => screen'[Cell(row0, col0)] = <<count', next'>>)
    <2>1. CASE text.marks[next + 1] = Letter
      <3>1. IsLetter(next + 1)
        BY <1>7, <2>1 DEF IsLetter
      <3>2. screen' = [screen EXCEPT ![Cell(row0, col0)] = <<count, next + 1>>]
        BY <1>2, <1>6, <2>1, LcdAssumption DEF Shown, LcdAssumption
      <3> QED
        BY <1>3, <1>5, <1>8, <3>1, <3>2, LetterSent
    <2>2. CASE text.marks[next + 1] = Space
      <3>1. ~ IsLetter(next + 1)
        BY <2>2, LcdAssumption DEF IsLetter, LcdAssumption
      <3>2. screen' = [screen EXCEPT ![Cell(row0, col0)] = Blank]
        BY <1>2, <1>6, <2>2 DEF Shown
      <3>3. ~ OfText(screen[Cell(row0, col0)])
        BY <1>3, <1>4, <1>5 DEF Behind, Before
      <3>4. Row \in Int /\ Col \in Int /\ Row' = Row /\ Col' = Col + 1
        BY <1>4, <1>5
      <3> QED
        BY <1>3, <1>7, <1>8, <2>2, <3>1, <3>2, <3>3, <3>4, BlankSent
    <2> QED
      BY <1>7, <2>1, <2>2
  <1>10. Placed'
    BY <1>5, <1>6 DEF Placed, Spot
  <1>11. Joint'
    <2>1. IsLetter(next)' => IsLetter(next + 1)
      BY <1>1 DEF IsLetter
    <2>2. col0 + 1 >= 1 /\ (col0 + 1) - 1 = col0
      BY <1>4, Sizes
    <2> QED
      BY <1>1, <1>5, <1>9, <2>1, <2>2 DEF Joint, At
  <1>12. RestKept'
    <2>1. Touched' = {row0} /\ Touched = {row0}
      BY <1>1, <1>4 DEF Touched
    <2> QED
      BY <1>1, <1>2, <1>3, <1>6, <2>1, KeptSent
  <1> QED
    BY <1>9, <1>10, <1>11, <1>12

LEMMA ShownLetter ==
    ASSUME TypeOK, WordInv, Room, ShownInv, PutLetter, UNCHANGED <<text, before, count>>
    PROVE  ShownInv'
  <1> SUFFICES ASSUME ~ harmed' PROVE Sent' /\ Behind' /\ Placed' /\ Joint' /\ RestKept'
    BY DEF ShownInv
  <1>1. /\ Writing /\ text.how = "puts" /\ text.marks[next + 1] = Letter
        /\ SendData(Shown(next + 1)) /\ next' = next + 1 /\ currentY' = currentY + 1
        /\ left' = (IF left = 0 THEN WordLength(next + 1) ELSE left) - 1
        /\ (left = 0 => ~ BreakDue)
        /\ text' = text /\ before' = before /\ count' = count
        /\ turn' = turn /\ currentX' = currentX
    BY DEF PutLetter, Mark
  <1>2. /\ ~ harmed /\ screen' = [screen EXCEPT ![cursor] = Shown(next + 1)]
        /\ cursor' = (cursor + 1) % 80
    BY <1>1, ArrivesHere
  <1>3. Sent /\ Behind /\ Placed /\ Joint /\ RestKept
    BY <1>2 DEF ShownInv
  <1>4. /\ next \in Nat /\ next < Len(text.marks) /\ next + 1 \in 1 .. Len(text.marks)
        /\ currentX \in Nat /\ currentY \in Nat /\ left \in Nat
    BY <1>1 DEF TypeOK, Writing
  <1>5. IsLetter(next + 1)
    BY <1>1, <1>4 DEF IsLetter, TypeOK
  <1> DEFINE word == WordLength(next + 1)
  <1>6. /\ word \in Nat /\ word >= 1
        /\ word = 1 => ~ IsLetter(next + 2)
    <2>1. (next + 1) + 1 = next + 2
      BY <1>4
    <2>2. next + 1 = Len(text.marks) \/ text.marks[next + 2] = Space => ~ IsLetter(next + 2)
      <3>1. DOMAIN text.marks = 1 .. Len(text.marks) /\ Letter # Space
        BY LcdAssumption DEF TypeOK, LcdAssumption
      <3>2. Len(text.marks) \in Nat
        BY DEF TypeOK
      <3> QED
        BY <1>4, <3>1, <3>2 DEF IsLetter
    <2> QED
      BY <1>4, <2>1, <2>2, WordFacts
  <1>7. left' = word - 1 /\ currentY + word <= 20
    <2>1. CASE left = 0
      BY <1>1, <1>4, <1>6, <2>1, Sizes DEF BreakDue
    <2>2. CASE left # 0
      <3>1. left = word /\ currentY + left <= 20
        BY <1>4, <2>2, Sizes DEF WordInv
      <3> QED
        BY <1>1, <2>2, <3>1
    <2> QED
      BY <2>1, <2>2
  <1> HIDE DEF word
  <1>8. PICK row0 \in Rows, col0 \in Columns :
            row0 = currentX /\ col0 = currentY /\ row0 \in Int /\ col0 \in Int
    <2>1. currentX \in Rows
      BY <1>1 DEF Room
    <2>2. currentY \in 0 .. 19
      BY <1>4, <1>6, <1>7
    <2> QED
      BY <1>4, <2>1, <2>2, Sizes
  <1>9. Row = row0 /\ Col = col0 /\ Row' = row0 /\ Col' = col0 + 1
    BY <1>1, <1>8 DEF Row, Col
  <1>10. cursor = Cell(row0, col0) /\ cursor' = Spot(row0, col0 + 1)
    <2>1. cursor = Spot(row0, col0)
      BY <1>1, <1>3, <1>9 DEF Placed
    <2> QED
      BY <1>2, <2>1, Advance
  <1>11. Sent' /\ Behind' /\ screen'[Cell(row0, col0)] = <<count', next'>>
    <2>1. screen' = [screen EXCEPT ![Cell(row0, col0)] = <<count, next + 1>>]
      BY <1>1, <1>2, <1>10, LcdAssumption DEF Shown, LcdAssumption
    <2>2. OneMore
      BY <1>1 DEF OneMore
    <2> QED
      BY <1>3, <1>5, <1>9, <2>1, <2>2, LetterSent
  <1>12. Placed'
    BY <1>9, <1>10 DEF Placed, Spot
  <1>13. Joint'
    <2>1. IsLetter(next + 1)' => IsLetter(next + 2)
      <3>1. next' + 1 = next + 2
        BY <1>1, <1>4
      <3> QED
        BY <1>1, <3>1 DEF IsLetter
    <2>2. IsLetter(next + 2) => left' > 0
      BY <1>6, <1>7
    <2>3. col0 + 1 >= 1 /\ (col0 + 1) - 1 = col0
      BY <1>8, Sizes
    <2> QED
      BY <1>1, <1>9, <1>11, <2>1, <2>2, <2>3 DEF Joint, At
  <1>14. RestKept'
    <2>1. text.row \in Int /\ text.row <= currentX /\ currentY + 1 > 0
      BY <1>1, <1>4, Sizes DEF WordInv, TypeOK
    <2>2. Touched' = text.row .. currentX
      BY <1>1, <2>1 DEF Touched
    <2>3. \A row \in Touched : row \in Touched'
      BY <1>1, <1>4, <2>1, <2>2 DEF Touched
    <2>4. row0 \in Touched'
      BY <1>8, <2>1, <2>2
    <2> QED
      BY <1>1, <1>2, <1>3, <1>10, <2>3, <2>4, KeptSent
  <1> QED
    BY <1>11, <1>12, <1>13, <1>14

LEMMA ShownSpace ==
    ASSUME TypeOK, WordInv, Room, ShownInv, PutSpace, UNCHANGED <<text, before, count>>
    PROVE  ShownInv'
  <1> SUFFICES ASSUME ~ harmed' PROVE Sent' /\ Behind' /\ Placed' /\ Joint' /\ RestKept'
    BY DEF ShownInv
  <1>1. /\ Writing /\ text.how = "puts" /\ text.marks[next + 1] = Space
        /\ SendData(Blank) /\ next' = next + 1
        /\ text' = text /\ before' = before /\ count' = count
    BY DEF PutSpace, Mark
  <1>2. /\ ~ harmed /\ screen' = [screen EXCEPT ![cursor] = Blank]
        /\ cursor' = (cursor + 1) % 80
    BY <1>1, ArrivesHere
  <1>3. Sent /\ Behind /\ Placed /\ Joint /\ RestKept
    BY <1>2 DEF ShownInv
  <1>4. /\ next \in Nat /\ next < Len(text.marks)
        /\ currentX \in Nat /\ currentY \in Nat
    BY <1>1 DEF TypeOK, Writing
  <1>5. text.row \in Int /\ text.row <= currentX /\ currentY <= 20 /\ currentX \in Rows
    BY <1>1, Sizes DEF WordInv, TypeOK, Room
  <1>6. Row = currentX /\ Col = currentY /\ Row' = currentX' /\ Col' = currentY'
    BY <1>1 DEF Row, Col
  <1>7. OneMore
    BY <1>1 DEF OneMore
  <1>8. Joint'
    <2>1. ~ IsLetter(next)'
      BY <1>1, LcdAssumption DEF IsLetter, LcdAssumption
    <2> QED
      BY <2>1 DEF Joint
  <1>9. cursor = Spot(currentX, currentY)
    BY <1>1, <1>3, <1>5, <1>6 DEF Placed
  <1>10. CASE currentY < 20
    <2>1. currentY' = currentY + 1 /\ currentX' = currentX /\ turn' = turn
      BY <1>10, Sizes DEF PutSpace
    <2>2. PICK row0 \in Rows, col0 \in Columns : row0 = currentX /\ col0 = currentY
      BY <1>4, <1>5, <1>10, Sizes
    <2>3. cursor = Cell(row0, col0) /\ cursor' = Spot(row0, col0 + 1)
      BY <1>2, <1>9, <2>2, Advance
    <2>4. Sent' /\ Behind'
      <3>1. screen' = [screen EXCEPT ![Cell(row0, col0)] = Blank]
        BY <1>2, <2>3
      <3>2. ~ OfText(screen[Cell(row0, col0)])
        <4>1. ~ Before(row0, col0, Row, Col)
          BY <1>4, <1>6, <2>2 DEF Before
        <4> QED
          BY <1>3, <4>1 DEF Behind
      <3>3. Row \in Int /\ Col \in Int /\ Row' = Row /\ Col' = Col + 1
        BY <1>4, <1>6, <2>1
      <3> QED
        BY <1>1, <1>3, <1>4, <1>7, <3>1, <3>2, <3>3, BlankSent
    <2>5. Placed'
      BY <1>6, <2>1, <2>2, <2>3 DEF Placed, Spot
    <2>6. RestKept'
      <3>1. Touched' = text.row .. currentX
        BY <1>1, <1>4, <2>1 DEF Touched
      <3>2. Touched = text.row .. currentX \/ Touched = text.row .. currentX - 1
        BY <1>1 DEF Touched
      <3>3. \A row \in Touched : row \in Touched'
        BY <1>4, <1>5, <3>1, <3>2
      <3>4. row0 \in Touched'
        BY <1>4, <1>5, <2>2, <3>1
      <3> QED
        BY <1>1, <1>2, <1>3, <2>3, <3>3, <3>4, KeptSent
    <2> QED
      BY <1>8, <2>4, <2>5, <2>6
  <1>11. CASE currentY = 20
    <2>1. currentY' = 0 /\ currentX' = currentX + 1 /\ turn' = TRUE
      BY <1>11, Sizes DEF PutSpace
    <2>2. currentX \in {0, 1}
      BY <1>1, <1>11, Sizes DEF Room, Mark
    <2>3. PICK row0 \in Rows : row0 = currentX + 2
      BY <2>2, Sizes
    <2>4. cursor = Cell(row0, 0) /\ 0 \in Columns
      BY <1>9, <1>11, <2>2, <2>3, Spill, Sizes
    <2>5. Sent' /\ Behind'
      <3>1. screen' = [screen EXCEPT ![Cell(row0, 0)] = Blank]
        BY <1>2, <2>4
      <3>2. ~ OfText(screen[Cell(row0, 0)])
        <4>1. ~ Before(row0, 0, Row, Col)
          BY <1>4, <1>6, <2>3 DEF Before
        <4> QED
          BY <1>3, <2>4, <4>1 DEF Behind
      <3>3. Row \in Int /\ Col \in Int /\ Row' = Row + 1
        BY <1>4, <1>6, <2>1
      <3> QED
        BY <1>1, <1>3, <1>4, <1>7, <2>4, <3>1, <3>2, <3>3, BlankSent
    <2>6. Placed'
      BY <2>1 DEF Placed, Writing
    <2>7. RestKept'
      <3>1. Touched = text.row .. currentX
        BY <1>1, <1>11 DEF Touched
      <3>2. Touched' = text.row .. currentX
        BY <1>1, <1>4, <2>1 DEF Touched
      <3> QED
        BY <1>1, <1>2, <1>3, <2>4, <3>1, <3>2, KeptSent
    <2> QED
      BY <1>8, <2>5, <2>6, <2>7
  <1> QED
    BY <1>4, <1>5, <1>10, <1>11

\* setCursor, when it arrives, with a row of the glass and the first column.
LEMMA CursorSet ==
    ASSUME NEW x \in Nat, SetCursor(x, 0), ~ harmed'
    PROVE  ~ harmed /\ screen' = screen /\ (x \in Rows => cursor' = Cell(x, 0))
  <1>1. cursor' = Address(IF x > 3 THEN 0 ELSE x, 0) /\ screen' = screen /\ harmed' = harmed
    BY DEF SetCursor, Lost, Arrives
  <1>2. x \in Rows => ~ (x > 3)
    BY Sizes
  <1> QED
    BY <1>1, <1>2, AddressFacts

LEMMA ShownTurn ==
    ASSUME TypeOK, WordInv, ShownInv, TurnLine, UNCHANGED <<text, before, count>>
    PROVE  ShownInv'
  <1> SUFFICES ASSUME ~ harmed' PROVE Sent' /\ Behind' /\ Placed' /\ Joint' /\ RestKept'
    BY DEF ShownInv
  <1>1. /\ turn /\ SetCursor(currentX, currentY) /\ text' = text /\ before' = before
        /\ count' = count /\ next' = next /\ left' = left
        /\ currentX' = currentX /\ currentY' = currentY
    BY DEF TurnLine
  <1>2. currentY = 0 /\ text.how = "puts" /\ currentX \in Nat
    BY <1>1 DEF WordInv, TypeOK
  <1>3. ~ harmed /\ screen' = screen /\ (currentX \in Rows => cursor' = Cell(currentX, 0))
    BY <1>1, <1>2, CursorSet
  <1>4. Sent /\ Behind /\ Joint /\ RestKept
    BY <1>3 DEF ShownInv
  <1>5. Row = currentX /\ Col = 0 /\ Row' = currentX /\ Col' = 0
    BY <1>1, <1>2 DEF Row, Col
  <1>6. Sent' /\ Behind'
    BY <1>1, <1>2, <1>3, <1>4, <1>5, LineTurned
  <1>7. Placed'
    BY <1>3, <1>5, Sizes, Advance DEF Placed, Spot
  <1>8. Joint'
    BY <1>1, <1>3, <1>4, <1>5 DEF Joint, IsLetter, At
  <1>9. RestKept'
    BY <1>1, <1>3, <1>4, KeptTurned DEF Touched
  <1> QED
    BY <1>6, <1>7, <1>8, <1>9

LEMMA ShownBreak ==
    ASSUME TypeOK, WordInv, ShownInv, BreakLine, UNCHANGED <<text, before, count>>
    PROVE  ShownInv'
  <1> SUFFICES ASSUME ~ harmed' PROVE Sent' /\ Behind' /\ Placed' /\ Joint' /\ RestKept'
    BY DEF ShownInv
  <1>1. /\ Writing /\ text.how = "puts" /\ text.marks[next + 1] = Letter /\ left = 0
        /\ currentY' = 0 /\ currentX' = currentX + 1 /\ SetCursor(currentX + 1, 0)
        /\ text' = text /\ before' = before /\ count' = count /\ next' = next
    BY DEF BreakLine, Mark
  <1>2. currentX \in Nat /\ currentY \in Nat /\ currentX + 1 \in Nat /\ next \in Nat
        /\ next < Len(text.marks)
    BY <1>1 DEF TypeOK, Writing
  <1>3. /\ ~ harmed /\ screen' = screen
        /\ (currentX + 1 \in Rows => cursor' = Cell(currentX + 1, 0))
    BY <1>1, <1>2, CursorSet
  <1>4. Sent /\ Behind /\ Joint /\ RestKept
    BY <1>3 DEF ShownInv
  <1>5. Row = currentX /\ Col = currentY /\ Row' = currentX + 1 /\ Col' = 0
    BY <1>1 DEF Row, Col
  <1>6. Sent' /\ Behind'
    <2>1. Row \in Int /\ Col \in Int /\ Row' = Row + 1
      BY <1>2, <1>5
    <2> QED
      BY <1>1, <1>3, <1>4, <2>1, LineTurned
  <1>7. Placed'
    BY <1>3, <1>5, Sizes, Advance DEF Placed, Spot
  <1>8. Joint'
    <2>1. ~ (next >= 1 /\ IsLetter(next))
      <3>1. IsLetter(next + 1)
        BY <1>1, <1>2 DEF IsLetter, TypeOK
      <3> QED
        BY <1>1, <1>4, <3>1 DEF Joint
    <2> QED
      BY <1>1, <2>1 DEF Joint, IsLetter
  <1>9. RestKept'
    <2>1. Touched' = text.row .. (currentX + 1) - 1
      BY <1>1 DEF Touched
    <2>2. text.row \in Int
      BY Sizes DEF TypeOK
    <2>3. \A row \in Touched : row \in Touched'
      BY <1>1, <1>2, <2>1, <2>2 DEF Touched
    <2> QED
      BY <1>1, <1>3, <1>4, <2>3, KeptTurned
  <1> QED
    BY <1>6, <1>7, <1>8, <1>9

LEMMA ShownNext == IInv /\ Room /\ [Next]_vars => ShownInv'
  <1> SUFFICES ASSUME IInv, Room, [Next]_vars PROVE ShownInv'
    OBVIOUS
  <1>1. TypeOK /\ WordInv /\ NoneToCome /\ ShownInv
    BY DEF IInv
  <1>2. CASE ShowText
    BY <1>1, <1>2, ShownPrint, ShownLetter, ShownSpace, ShownTurn, ShownBreak DEF ShowText
  <1>3. CASE ClearedByDeletion
    BY <1>3 DEF ClearedByDeletion, ShownInv
  <1>4. CASE UNCHANGED vars
    <2>1. UNCHANGED <<screen, cursor, text, next, left, currentX, currentY, turn>>
          /\ UNCHANGED <<before, harmed, count>>
      BY <1>4 DEF vars, position
    <2> SUFFICES ASSUME ~ harmed' PROVE Sent' /\ Behind' /\ Placed' /\ Joint' /\ RestKept'
      BY DEF ShownInv
    <2>2. Sent /\ Behind /\ Placed /\ Joint /\ RestKept
      BY <1>1, <2>1 DEF ShownInv
    <2>3. Row' = Row /\ Col' = Col
      BY <2>1 DEF Row, Col
    <2>4. Sent'
      BY <2>1, <2>2 DEF Sent, SentOnly, SentAll, InOrder, SentWhole, OfText, At, Before
    <2>5. Behind' /\ Placed' /\ Joint'
      BY <2>1, <2>2, <2>3 DEF Behind, Placed, Joint, OfText, IsLetter, At, Before, Spot, Writing
    <2>6. RestKept'
      BY <2>1, <2>2, KeptTurned DEF Touched
    <2> QED
      BY <2>2, <2>4, <2>5, <2>6
  <1> QED
    BY <1>1, <1>2, <1>3, <1>4, ShownBegin, ShownClear DEF Next

LEMMA InitIInv == Init => IInv
  <1> SUFFICES ASSUME Init PROVE WordInv /\ NoneToCome /\ ShownInv
    BY TypeInit DEF IInv
  <1>1. /\ screen = Clear /\ before = Clear /\ next = 0 /\ left = 0 /\ turn = FALSE
        /\ text.how = "print" /\ text.marks = <<>> /\ Len(<<>>) = 0
    BY DEF Init
  <1>2. \A row \in Rows, col \in Columns : screen[Cell(row, col)] = Blank
    BY <1>1, CellFacts DEF Clear
  <1>3. WordInv /\ NoneToCome
    BY <1>1, <1>2 DEF WordInv, NoneToCome
  <1>4. Sent /\ Behind
    BY <1>1, <1>2 DEF Sent, SentOnly, SentAll, InOrder, SentWhole, Behind, OfText
  <1>5. Placed /\ Joint /\ RestKept
    BY <1>1 DEF Placed, Joint, RestKept, Writing
  <1> QED
    BY <1>3, <1>4, <1>5 DEF ShownInv

LEMMA NextIInv == IInv /\ Room /\ [Next]_vars => IInv'
  BY TypeNext, WordNext, NoneNext, ShownNext DEF IInv

LEMMA AllShown == IInv => TextShown
  <1> SUFFICES ASSUME IInv, Finished, ~ harmed PROVE Readable /\ RestKept
    BY DEF TextShown
  <1>1. TypeOK /\ Sent /\ RestKept
    BY DEF IInv, ShownInv
  <1>2. next = Len(text.marks) /\ next \in Nat /\ DOMAIN text.marks = 1 .. next
    BY <1>1 DEF Finished, TypeOK
  <1>3. OnlyLetters
    BY <1>1, <1>2 DEF OnlyLetters, Sent, SentOnly, IsLetter
  <1>4. EveryLetter
    BY <1>1, <1>2 DEF EveryLetter, Sent, SentAll
  <1>5. WordsWhole
    <2>1. ASSUME NEW row \in Rows, NEW col \in Columns,
                 OfText(screen[Cell(row, col)]), IsLetter(screen[Cell(row, col)][2] + 1)
          PROVE  col + 1 \in Columns /\ At(screen[Cell(row, col)][2] + 1, row, col + 1)
      <3>1. PICK i \in Nat : screen[Cell(row, col)] = <<count, i>>
        BY <1>1, <2>1, GlassType DEF OfText
      <3>2. screen[Cell(row, col)][2] = i
        BY <3>1, Marked
      <3>3. i \in 1 .. next
        BY <1>1, <2>1, <3>2 DEF Sent, SentOnly
      <3>4. i + 1 <= next /\ text.marks[i + 1] = Letter
        BY <1>2, <2>1, <3>2, <3>3 DEF IsLetter
      <3>5. col + 1 \in Columns /\ At(i + 1, row, col + 1)
        BY <1>1, <3>1, <3>3, <3>4 DEF Sent, SentWhole, At
      <3> QED
        BY <3>2, <3>5
    <2> QED
      BY <2>1 DEF WordsWhole
  <1> QED
    BY <1>1, <1>3, <1>4, <1>5 DEF Readable, Sent

\* Whatever the program shows, a text that has room on the display can be read when
\* it is finished, unless a write was lost or deleteModel cleared the display while
\* it was being shown; it keeps to its rows, and what came before it does no harm
\* (lcd20x4_i2c_puts, lcd20x4_i2c_print, lcd20x4_i2c_clear).
THEOREM RoomMeansShown == Spec /\ []Room => []TextShown
  <1> QED
    BY InitIInv, NextIInv, AllShown, PTL DEF Spec
-----------------------------------------------------------------------------
(* Room, from the texts alone *)

\* Every mark takes one place at most, and a row that is left wastes at most w.
Spent(w) ==
    _LCD_COLS * currentX + currentY
        <= _LCD_COLS * text.row + text.col + next + w * (currentX - text.row)

\* Only a space gets to the end of a row, if no word fills one.
RowEnd ==
    /\ left > 0 => currentY + left < _LCD_COLS
    /\ currentY = _LCD_COLS => next >= 1 /\ text.marks[next] = Space

SpentOrLonger(w) == LateWords(text, w) => Spent(w) /\ (w < _LCD_COLS => RowEnd)

Spending == \A w \in 0 .. _LCD_COLS : SpentOrLonger(w)

RoomInv ==
    text.marks # <<>> =>
        /\ text \in Texts
        /\ text.how = "puts" => currentX \in Rows /\ Spending

\* What the word of the next mark costs, if it reaches the last column.
LEMMA LateWord ==
    ASSUME TypeOK, next < Len(text.marks), text.marks[next + 1] = Letter,
           NEW w \in Nat, LateWords(text, w),
           text.col + next + WordLength(next + 1) >= _LCD_COLS
    PROVE  WordLength(next + 1) <= w
  <1>0. /\ text.marks \in Seq({Letter, Space})
        /\ next \in 0 .. Len(text.marks) /\ text.col \in Columns
    BY DEF TypeOK
  <1>1. /\ Len(text.marks) \in Nat /\ next \in Nat /\ text.col \in Int
        /\ text.marks \in Seq({Letter, Space}) /\ DOMAIN text.marks = 1 .. Len(text.marks)
    BY <1>0, Sizes, SMTT(30)
  <1> DEFINE i == next + 1
  <1>2. i \in 1 .. Len(text.marks)
    BY <1>1
  <1>3. PICK j \in Ends(i) : (\A k \in Ends(i) : j <= k) /\ WordLength(i) = j - i + 1
    BY <1>2, WordEnd
  <1>4. j \in i .. Len(text.marks) /\ j \in Nat
    BY <1>1, <1>3 DEF Ends
  <1>5. ASSUME NEW k \in i .. j PROVE text.marks[k] = Letter
    <2>1. CASE k = i
      BY <2>1
    <2>2. CASE k > i
      <3>1. k - 1 \in i .. Len(text.marks) /\ (k - 1) + 1 = k /\ ~ (j <= k - 1)
        BY <1>1, <1>4, <2>2
      <3>2. text.marks[k] # Space
        BY <1>3, <3>1 DEF Ends
      <3>3. k \in 1 .. Len(text.marks)
        BY <1>1, <1>4
      <3>4. text.marks[k] \in {Letter, Space}
        BY <1>1, <3>3
      <3> QED
        BY <3>2, <3>4
    <2> QED
      BY <1>1, <2>1, <2>2
  <1>6. i <= j /\ i \in DOMAIN text.marks /\ j \in DOMAIN text.marks
    BY <1>1, <1>2, <1>4
  <1>7. text.col + j >= _LCD_COLS
    BY <1>1, <1>3, <1>4, Sizes
  <1>8. j - i < w
    BY <1>5, <1>6, <1>7 DEF LateWords
  <1> QED
    BY <1>1, <1>3, <1>4, <1>8

\* The arithmetic of a row that is left, and of how many columns the rest has.
LEMMA OneRowMore ==
    ASSUME NEW w \in Int, NEW x \in Int, NEW row \in Int
    PROVE  /\ w * (x - row) \in Int
           /\ w * ((x + 1) - row) = w * (x - row) + w
  OBVIOUS

LEMMA WasteBound ==
    ASSUME NEW w \in 0 .. 20, NEW rows \in 0 .. 3
    PROVE  w * rows \in Int /\ w * rows <= 20 * rows
  <1>1. rows = 0 \/ rows = 1 \/ rows = 2 \/ rows = 3
    OBVIOUS
  <1> QED
    BY <1>1

\* The facts that the steps of a text begin with.
LEMMA RoomTypes ==
    ASSUME TypeOK
    PROVE  /\ Len(text.marks) \in Nat /\ next \in Nat /\ left \in Nat
           /\ currentX \in Nat /\ currentY \in Nat
           /\ text.row \in 0 .. 3 /\ text.col \in 0 .. 19
           /\ (next < Len(text.marks) => text.marks # <<>>)
  <1>1. text.marks \in Seq({Letter, Space}) /\ next \in Nat
    BY DEF TypeOK
  <1>2. Len(<<>>) = 0
    OBVIOUS
  <1>3. next < Len(text.marks) => text.marks # <<>>
    BY <1>1, <1>2
  <1> QED
    BY <1>1, <1>3, Sizes DEF TypeOK

\* What a text that has room is sure of.
LEMMA RoomOfText ==
    ASSUME TypeOK, RoomInv, TextsFit, text.marks # <<>>, text.how = "puts"
    PROVE  \E w \in 0 .. 20 :
               /\ LateWords(text, w) /\ Spent(w) /\ (w < 20 => RowEnd)
               /\ text.col + Len(text.marks) + w * (3 - text.row) < 20 * (4 - text.row)
               /\ \/ text.row = 3
                  \/ text.col + Len(text.marks) + w * (2 - text.row) <= 20 * (3 - text.row)
                  \/ w < 20 /\ OneSpace(text)
  <1>1. text \in Texts /\ Spending
    BY DEF RoomInv
  <1>2. HasRoom(text)
    BY <1>1 DEF TextsFit
  <1> DEFINE rows == 4 - text.row
  <1> DEFINE size == text.col + Len(text.marks)
  <1>3. PICK w \in 0 .. 20 :
            /\ LateWords(text, w)
            /\ size + w * (rows - 1) < 20 * rows
            /\ \/ rows = 1
               \/ size + w * (rows - 2) <= 20 * (rows - 1)
               \/ w < 20 /\ OneSpace(text)
    <2>1. text.how # "print" /\ _LCD_COLS = 20 /\ _LCD_ROWS = 4
      BY Sizes
    <2> QED
      BY <1>2, <2>1 DEF HasRoom
  <1>4. rows - 1 = 3 - text.row /\ rows - 2 = 2 - text.row /\ (rows = 1 => text.row = 3)
    BY RoomTypes
  <1>5. Spent(w) /\ (w < 20 => RowEnd)
    BY <1>1, <1>3, Sizes DEF Spending, SpentOrLonger
  <1> QED
    BY <1>3, <1>4, <1>5

\* Such a text has room for its next mark.
LEMMA RoomHere ==
    ASSUME TypeOK, WordInv, RoomInv, TextsFit
    PROVE  Room
  <1> SUFFICES ASSUME Writing
               PROVE  IF text.how = "print" THEN text.col + next < _LCD_COLS
                      ELSE /\ currentX \in Rows
                           /\ Mark = Letter => WordLength(next + 1) <= _LCD_COLS
                           /\ Mark = Space /\ currentY = _LCD_COLS => currentX \in {0, 1}
    BY DEF Room
  <1>1. /\ next < Len(text.marks) /\ text.marks # <<>>
        /\ Len(text.marks) \in Int /\ next \in Nat
        /\ currentX \in Nat /\ text.row \in Int /\ text.col \in Nat
    <2>1. text.row \in 0 .. 3 /\ text.col \in 0 .. 19 /\ Len(text.marks) \in Nat
      BY RoomTypes
    <2>2. next < Len(text.marks) /\ text.marks # <<>> /\ next \in Nat /\ currentX \in Nat
      BY RoomTypes DEF Writing
    <2>3. Len(text.marks) \in Int
      BY <2>1
    <2>4. text.row \in Int /\ text.col \in Nat
      BY <2>1
    <2> QED
      BY <2>2, <2>3, <2>4
  <1>2. CASE text.how = "print"
    <2>1. HasRoom(text)
      BY <1>1 DEF RoomInv, TextsFit
    <2>2. text.col + Len(text.marks) <= 20
      BY <1>2, <2>1, Sizes DEF HasRoom
    <2>3. text.col + next < 20
      BY <1>1, <2>2
    <2>4. text.col + next < _LCD_COLS
      BY <2>3 DEF _LCD_COLS
    <2> QED
      BY <1>2, <2>4
  <1>3. CASE text.how = "puts"
    <2>1. PICK w \in 0 .. 20 :
              /\ LateWords(text, w) /\ Spent(w) /\ (w < 20 => RowEnd)
              /\ text.col + Len(text.marks) + w * (3 - text.row) < 20 * (4 - text.row)
              /\ \/ text.row = 3
                 \/ text.col + Len(text.marks) + w * (2 - text.row) <= 20 * (3 - text.row)
                 \/ w < 20 /\ OneSpace(text)
      BY <1>1, <1>3, RoomOfText
    <2>2. currentX \in 0 .. 3 /\ text.row <= currentX
      BY <1>1, <1>3, Sizes DEF RoomInv, WordInv
    <2>3. ASSUME Mark = Letter PROVE WordLength(next + 1) <= 20
      <3>1. next + 1 \in 1 .. Len(text.marks)
        BY <1>1
      <3>2. WordLength(next + 1) \in Nat
        BY <3>1, WordFacts
      <3>3. text.col + next + WordLength(next + 1) >= _LCD_COLS => WordLength(next + 1) <= w
        <4>1. text.marks[next + 1] = Letter /\ w \in Nat /\ LateWords(text, w)
          BY <2>1, <2>3 DEF Mark
        <4> QED
          BY <1>1, <4>1, LateWord
      <3> QED
        BY <1>1, <3>2, <3>3, Sizes, SMTT(30)
    <2>4. ASSUME Mark = Space, currentY = 20, currentX = 3 PROVE FALSE
      \* The text would have used up all its rows.
      <3>1. w * (3 - text.row) \in Int /\ 20 * (4 - text.row) = 80 - 20 * text.row
        <4>1. \A row \in Int : w * (3 - row) \in Int /\ 20 * (4 - row) = 80 - 20 * row
          OBVIOUS
        <4> QED
          BY <1>1, <4>1
      <3>2. 20 * 3 + 20 <= 20 * text.row + text.col + next + w * (3 - text.row)
        BY <2>1, <2>4, Sizes DEF Spent
      <3>3. PICK row \in Int, col \in Int, size \in Int, waste \in Int :
                /\ 80 <= 20 * row + col + next + waste
                /\ col + size + waste < 80 - 20 * row
                /\ next < size
        <4>0. PICK waste \in Int : waste = w * (3 - text.row)
          BY <3>1
        <4>1. PICK row \in Int, col \in Int, size \in Int :
                  row = text.row /\ col = text.col /\ size = Len(text.marks)
          BY <1>1
        <4>2. 20 * 3 + 20 <= 20 * row + col + next + waste
          BY <3>2, <4>0, <4>1
        <4>3. col + size + waste < 80 - 20 * row
          BY <2>1, <3>1, <4>0, <4>1
        <4>4. next < size
          BY <1>1, <4>1
        <4> QED
          BY <4>2, <4>3, <4>4
      <3> QED
        BY <1>1, <3>3
    <2>5. ASSUME Mark = Space, currentY = 20, currentX = 2 PROVE FALSE
      <3>1. text.row # 3
        BY <2>2, <2>5
      <3>2. CASE text.col + Len(text.marks) + w * (2 - text.row) <= 20 * (3 - text.row)
        <4>1. w * (2 - text.row) \in Int /\ 20 * (3 - text.row) = 60 - 20 * text.row
          <5>1. \A row \in Int : w * (2 - row) \in Int /\ 20 * (3 - row) = 60 - 20 * row
            OBVIOUS
          <5> QED
            BY <1>1, <5>1
        <4>2. 20 * 2 + 20 <= 20 * text.row + text.col + next + w * (2 - text.row)
          BY <2>1, <2>5, Sizes DEF Spent
        <4>3. PICK row \in Int, col \in Int, size \in Int, waste \in Int :
                  /\ 60 <= 20 * row + col + next + waste
                  /\ col + size + waste <= 60 - 20 * row
                  /\ next < size
          <5>0. PICK waste \in Int : waste = w * (2 - text.row)
            BY <4>1
          <5>1. PICK row \in Int, col \in Int, size \in Int :
                    row = text.row /\ col = text.col /\ size = Len(text.marks)
            BY <1>1
          <5>2. 20 * 2 + 20 <= 20 * row + col + next + waste
            BY <4>2, <5>0, <5>1
          <5>3. col + size + waste <= 60 - 20 * row
            BY <3>2, <4>1, <5>0, <5>1
          <5>4. next < size
            BY <1>1, <5>1
          <5> QED
            BY <5>2, <5>3, <5>4
        <4> QED
          BY <1>1, <4>3
      <3>3. CASE w < 20 /\ OneSpace(text)
        <4>1. next >= 1 /\ text.marks[next] = Space
          BY <2>1, <2>5, <3>3, Sizes DEF RowEnd
        <4>2. next + 1 \in DOMAIN text.marks \ {1} /\ (next + 1) - 1 = next
          BY <1>1, <4>1 DEF TypeOK
        <4>3. text.marks[next + 1] = Letter \/ text.marks[next] = Letter
          BY <3>3, <4>2 DEF OneSpace
        <4> QED
          BY <2>5, <4>1, <4>3, LcdAssumption DEF Mark, LcdAssumption
      <3> QED
        BY <2>1, <3>1, <3>2, <3>3
    <2> QED
      BY <1>3, <2>2, <2>3, <2>4, <2>5, Sizes
  <1> QED
    BY <1>2, <1>3 DEF TypeOK

-----------------------------------------------------------------------------
(* Every step leaves room *)

\* As many columns as marks: the row goes on.
LEMMA SpentHere ==
    ASSUME TypeOK, NEW w \in 0 .. 20, Spent(w), text' = text, currentX' = currentX,
           next' \in Nat, currentY' \in Nat, currentY' - currentY <= next' - next
    PROVE  Spent(w)'
  <1>0. /\ text.row \in 0 .. 3 /\ text.col \in 0 .. 19
        /\ currentX \in Nat /\ currentY \in Nat /\ next \in Nat
    BY RoomTypes
  <1>1. PICK row \in Int, col \in Int : row = text.row /\ col = text.col
    BY <1>0
  <1>2. PICK x \in Int, y \in Int, n \in Int : x = currentX /\ y = currentY /\ n = next
    BY <1>0
  <1>3. PICK y1 \in Int, n1 \in Int : y1 = currentY' /\ n1 = next'
    OBVIOUS
  <1>4. PICK waste \in Int : waste = w * (x - row)
    BY OneRowMore
  <1>5. 20 * x + y <= 20 * row + col + n + waste
    BY <1>1, <1>2, <1>4, Sizes DEF Spent
  <1>6. y1 - y <= n1 - n
    BY <1>2, <1>3
  <1>7. 20 * x + y1 <= 20 * row + col + n1 + waste
    BY <1>5, <1>6
  <1> QED
    BY <1>1, <1>2, <1>3, <1>4, <1>7, Sizes DEF Spent

\* A row that is left costs no more than w columns.
LEMMA SpentRow ==
    ASSUME TypeOK, NEW w \in 0 .. 20, Spent(w), text' = text, currentX' = currentX + 1,
           next' \in Nat, currentY' = 0, 20 - currentY <= next' - next + w
    PROVE  Spent(w)'
  <1>0. /\ text.row \in 0 .. 3 /\ text.col \in 0 .. 19
        /\ currentX \in Nat /\ currentY \in Nat /\ next \in Nat
    BY RoomTypes
  <1>1. PICK row \in Int, col \in Int : row = text.row /\ col = text.col
    BY <1>0
  <1>2. PICK x \in Int, y \in Int, n \in Int : x = currentX /\ y = currentY /\ n = next
    BY <1>0
  <1>3. PICK n1 \in Int : n1 = next'
    OBVIOUS
  <1>4. PICK waste \in Int : waste = w * (x - row)
    BY OneRowMore
  <1>5. PICK more \in Int : more = w * ((x + 1) - row) /\ more = waste + w
    <2>1. w * ((x + 1) - row) = w * (x - row) + w
      BY OneRowMore
    <2> QED
      BY <1>4, <2>1
  <1>6. 20 * x + y <= 20 * row + col + n + waste
    BY <1>1, <1>2, <1>4, Sizes DEF Spent
  <1>7. 20 - y <= n1 - n + w
    BY <1>2, <1>3
  <1>8. 20 * (x + 1) + 0 <= 20 * row + col + n1 + more
    <2>1. 20 * (x + 1) + 0 <= 20 * row + col + n1 + (waste + w)
      BY <1>6, <1>7
    <2> QED
      BY <1>5, <2>1
  <1> QED
    BY <1>1, <1>2, <1>3, <1>5, <1>8, Sizes DEF Spent

LEMMA RoomKept ==
    ASSUME RoomInv, text' = text, currentX' = currentX, currentY' = currentY,
           next' = next, left' = left
    PROVE  RoomInv'
  BY DEF RoomInv, Spending, SpentOrLonger, Spent, RowEnd

LEMMA RoomBegin ==
    ASSUME NEW t \in Texts, BeginText(t)
    PROVE  RoomInv'
  <1>1. text' = t /\ next' = 0 /\ left' = 0 /\ t.row \in 0 .. 3 /\ t.col \in 0 .. 19
    BY TextFacts, Sizes DEF BeginText
  <1> SUFFICES ASSUME t.how = "puts"
               PROVE  currentX' \in Rows /\ Spending'
    BY <1>1 DEF RoomInv
  <1>2. currentX' = t.row /\ currentY' = t.col
    BY DEF BeginText
  <1>3. ASSUME NEW w \in 0 .. 20 PROVE Spent(w)'
    <2>1. w * (t.row - t.row) = 0
      BY <1>1
    <2>2. 20 * t.row + t.col <= 20 * t.row + t.col + 0 + 0
      BY <1>1
    <2> QED
      BY <1>1, <1>2, <2>1, <2>2, Sizes DEF Spent
  <1>4. RowEnd'
    BY <1>1, <1>2, Sizes DEF RowEnd
  <1> QED
    BY <1>1, <1>2, <1>3, <1>4, Sizes DEF Spending, SpentOrLonger

\* Each step of lcd20x4_i2c_puts, for what it does to a budget.
LEMMA RoomPuts ==
    ASSUME RoomInv, text' = text, currentX' \in Rows,
           \A w \in 0 .. 20 : SpentOrLonger(w) => SpentOrLonger(w)'
    PROVE  RoomInv'
  BY Sizes DEF RoomInv, Spending

LEMMA RoomSpace ==
    ASSUME TypeOK, WordInv, RoomInv, TextsFit, PutSpace, text' = text
    PROVE  RoomInv'
  <1>1. /\ Writing /\ text.how = "puts" /\ Mark = Space /\ next' = next + 1 /\ left' = left
        /\ next \in Nat /\ currentX \in 0 .. 3 /\ currentY \in 0 .. 20
        /\ text.marks # <<>>
    <2>1. Writing /\ text.how = "puts" /\ Mark = Space /\ next' = next + 1 /\ left' = left
      BY DEF PutSpace
    <2>2. text.marks # <<>>
      BY <2>1, RoomTypes DEF Writing
    <2>3. currentX \in 0 .. 3
      BY <2>1, <2>2, Sizes DEF RoomInv
    <2>4. currentY \in Nat /\ currentY <= 20 /\ next \in Nat
      BY <2>1, RoomTypes, Sizes DEF WordInv
    <2> QED
      BY <2>1, <2>2, <2>3, <2>4
  <1>2. left = 0
    <2>1. ~ IsLetter(next + 1)
      BY <1>1, LcdAssumption DEF IsLetter, Mark, LcdAssumption
    <2> QED
      BY <2>1, RoomTypes DEF WordInv
  <1>3. CASE currentY < 20
    <2>1. currentY' = currentY + 1 /\ currentX' = currentX
      BY <1>3, Sizes DEF PutSpace
    <2>2. ASSUME NEW w \in 0 .. 20, SpentOrLonger(w) PROVE SpentOrLonger(w)'
      <3>1. RowEnd'
        <4>1. next' >= 1 /\ text'.marks[next'] = Space
          BY <1>1 DEF Mark
        <4> QED
          BY <1>1, <1>2, <4>1 DEF RowEnd
      <3>2. Spent(w) => Spent(w)'
        <4>1. next' \in Nat /\ currentY' \in Nat /\ currentY' - currentY <= next' - next
          BY <1>1, <2>1
        <4> QED
          BY <2>1, <4>1, SpentHere
      <3> QED
        BY <2>2, <3>1, <3>2 DEF SpentOrLonger
    <2> QED
      BY <1>1, <2>1, <2>2, RoomPuts, Sizes
  <1>4. CASE currentY = 20
    <2>1. currentY' = 0 /\ currentX' = currentX + 1
      BY <1>4, Sizes DEF PutSpace
    <2>2. currentX \in {0, 1}
      BY <1>1, <1>4, RoomHere, Sizes DEF Room
    <2>3. ASSUME NEW w \in 0 .. 20, SpentOrLonger(w) PROVE SpentOrLonger(w)'
      <3>1. RowEnd'
        BY <1>1, <1>2, <2>1, Sizes DEF RowEnd
      <3>2. Spent(w) => Spent(w)'
        <4>1. next' \in Nat /\ 20 - currentY <= next' - next + w
          BY <1>1, <1>4
        <4> QED
          BY <2>1, <4>1, SpentRow
      <3> QED
        BY <2>3, <3>1, <3>2 DEF SpentOrLonger
    <2>4. currentX' \in Rows
      BY <2>1, <2>2, Sizes
    <2> QED
      BY <2>3, <2>4, RoomPuts
  <1> QED
    BY <1>1, <1>3, <1>4

\* A text is not shown further to the right than its marks take it.
LEMMA NotAhead ==
    ASSUME TypeOK, NEW w \in 0 .. 20, Spent(w), currentX \in 0 .. 3, text.row <= currentX
    PROVE  currentY <= text.col + next
  <1>0. text.row \in 0 .. 3 /\ text.col \in 0 .. 19 /\ currentY \in Nat /\ next \in Nat
    BY RoomTypes
  <1>1. PICK row \in Int, col \in Int : row = text.row /\ col = text.col
    BY <1>0
  <1>2. PICK x \in Int, y \in Int, n \in Int : x = currentX /\ y = currentY /\ n = next
    BY <1>0
  <1>3. PICK rows \in 0 .. 3 : rows = x - row
    BY <1>0, <1>1, <1>2
  <1>4. PICK waste \in Int : waste = w * rows /\ waste <= 20 * rows
    BY WasteBound
  <1>5. 20 * x + y <= 20 * row + col + n + waste
    BY <1>1, <1>2, <1>3, <1>4, Sizes DEF Spent
  <1>6. y <= col + n
    BY <1>3, <1>4, <1>5
  <1> QED
    BY <1>1, <1>2, <1>6

LEMMA RoomBreak ==
    ASSUME TypeOK, WordInv, RoomInv, TextsFit, BreakLine, text' = text
    PROVE  RoomInv'
  <1>1. /\ Writing /\ text.how = "puts" /\ Mark = Letter /\ BreakDue
        /\ currentY' = 0 /\ currentX' = currentX + 1
        /\ left' = WordLength(next + 1) /\ next' = next
    BY DEF BreakLine
  <1>2. next < Len(text.marks) /\ text.marks # <<>> /\ next \in Nat /\ Len(text.marks) \in Nat
    BY <1>1, RoomTypes DEF Writing
  <1>3. /\ currentX \in 0 .. 3 /\ currentY \in Nat /\ text.row \in 0 .. 3
        /\ text.row <= currentX /\ text.col \in 0 .. 19
    BY <1>1, <1>2, RoomTypes, Sizes DEF RoomInv, WordInv
  <1>4. PICK l \in Nat : l = WordLength(next + 1)
    BY <1>2, WordFacts
  <1>5. next + l <= Len(text.marks)
    <2>1. next + 1 \in 1 .. Len(text.marks)
      BY <1>2
    <2>2. PICK j \in Ends(next + 1) : WordLength(next + 1) = j - (next + 1) + 1
      BY <2>1, WordEnd
    <2>3. j \in Int /\ j <= Len(text.marks)
      BY <1>2, <2>2 DEF Ends
    <2> QED
      BY <1>2, <1>4, <2>2, <2>3, SMTT(30)
  <1>6. currentY + l >= 20
    BY <1>1, <1>4, Sizes DEF BreakDue
  <1>7. ASSUME NEW w \in 0 .. 20, LateWords(text, w), Spent(w)
        PROVE  l <= w
    <2>1. currentY <= text.col + next
      BY <1>3, <1>7, NotAhead
    <2>2. text.col + next + l >= 20
      <3>1. PICK y \in Int, n \in Int, col \in Int : y = currentY /\ n = next /\ col = text.col
        BY <1>2, <1>3
      <3>2. y <= col + n /\ y + l >= 20
        BY <1>6, <2>1, <3>1
      <3>3. col + n + l >= 20
        BY <3>2
      <3> QED
        BY <3>1, <3>3
    <2>3. text.col + next + WordLength(next + 1) >= _LCD_COLS
      BY <1>4, <2>2 DEF _LCD_COLS
    <2>4. text.marks[next + 1] = Letter /\ w \in Nat
      BY <1>1 DEF Mark
    <2> QED
      BY <1>2, <1>4, <1>7, <2>3, <2>4, LateWord
  \* The last row is long enough for what is left of the text.
  <1>8. ASSUME currentX = 3 PROVE FALSE
    <2>1. PICK w \in 0 .. 20 :
              /\ LateWords(text, w) /\ Spent(w)
              /\ text.col + Len(text.marks) + w * (3 - text.row) < 20 * (4 - text.row)
      BY <1>1, <1>2, RoomOfText
    <2>2. PICK row \in Int, col \in Int, size \in Int :
              row = text.row /\ col = text.col /\ size = Len(text.marks)
      BY <1>2, <1>3
    <2>3. PICK y \in Int, n \in Int : y = currentY /\ n = next
      BY <1>2, <1>3
    <2>4. PICK waste \in Int : waste = w * (3 - row)
      BY OneRowMore
    <2>5. 20 * 3 + y <= 20 * row + col + n + waste
      BY <1>8, <2>1, <2>2, <2>3, <2>4, Sizes DEF Spent
    <2>6. col + size + waste < 80 - 20 * row
      <3>1. 20 * (4 - row) = 80 - 20 * row
        OBVIOUS
      <3> QED
        BY <2>1, <2>2, <2>4, <3>1
    <2>7. n + l <= size /\ y + l >= 20
      BY <1>5, <1>6, <2>2, <2>3
    <2> QED
      BY <2>5, <2>6, <2>7
  <1>9. currentX' \in Rows
    BY <1>1, <1>3, <1>8, Sizes
  <1>10. ASSUME NEW w \in 0 .. 20, SpentOrLonger(w) PROVE SpentOrLonger(w)'
    <2> SUFFICES ASSUME LateWords(text, w)
                 PROVE  Spent(w)' /\ (w < 20 => RowEnd')
      BY Sizes DEF SpentOrLonger
    <2>1. Spent(w) /\ l <= w
      BY <1>7, <1>10 DEF SpentOrLonger
    <2>2. Spent(w)'
      <3>1. next' \in Nat /\ 20 - currentY <= next' - next + w
        BY <1>1, <1>2, <1>3, <1>6, <2>1
      <3> QED
        BY <1>1, <2>1, <3>1, SpentRow
    <2>3. w < 20 => RowEnd'
      BY <1>1, <1>4, <2>1, Sizes DEF RowEnd
    <2> QED
      BY <2>2, <2>3
  <1> QED
    BY <1>9, <1>10, RoomPuts

LEMMA RoomLetter ==
    ASSUME TypeOK, WordInv, RoomInv, PutLetter, text' = text
    PROVE  RoomInv'
  <1>1. /\ Writing /\ text.how = "puts" /\ (left = 0 => ~ BreakDue)
        /\ next' = next + 1 /\ currentY' = currentY + 1 /\ currentX' = currentX
        /\ left' = (IF left = 0 THEN WordLength(next + 1) ELSE left) - 1
    BY DEF PutLetter
  <1>2. next < Len(text.marks) /\ text.marks # <<>> /\ next \in Nat /\ Len(text.marks) \in Nat
    BY <1>1, RoomTypes DEF Writing
  <1>3. currentX \in Rows /\ currentY \in Nat /\ left \in Nat
    BY <1>1, <1>2, RoomTypes DEF RoomInv
  <1>4. PICK l \in Nat : l = WordLength(next + 1) /\ l >= 1
    BY <1>2, WordFacts
  <1>5. ASSUME NEW w \in 0 .. 20, SpentOrLonger(w) PROVE SpentOrLonger(w)'
    <2>1. RowEnd => RowEnd'
      <3>1. CASE left = 0
        <4>1. currentY + l < 20 /\ left' = l - 1
          BY <1>1, <1>3, <1>4, <3>1, Sizes DEF BreakDue
        <4>2. currentY' + left' < 20 /\ currentY' < 20
          BY <1>1, <1>3, <1>4, <4>1
        <4> QED
          BY <4>2, Sizes DEF RowEnd
      <3>2. CASE left > 0
        <4> SUFFICES ASSUME RowEnd PROVE RowEnd'
          OBVIOUS
        <4>1. currentY + left < 20 /\ left' = left - 1
          BY <1>1, <1>3, <3>2, Sizes DEF RowEnd
        <4>2. currentY' + left' < 20 /\ currentY' < 20
          BY <1>1, <1>3, <3>2, <4>1
        <4> QED
          BY <4>2, Sizes DEF RowEnd
      <3> QED
        BY <1>3, <3>1, <3>2
    <2>2. Spent(w) => Spent(w)'
      <3>1. next' \in Nat /\ currentY' \in Nat /\ currentY' - currentY <= next' - next
        BY <1>1, <1>2, <1>3
      <3> QED
        BY <1>1, <3>1, SpentHere
    <2> QED
      BY <1>5, <2>1, <2>2 DEF SpentOrLonger
  <1> QED
    BY <1>1, <1>3, <1>5, RoomPuts

LEMMA RoomShow ==
    ASSUME TypeOK, WordInv, RoomInv, TextsFit, ShowText
    PROVE  RoomInv'
  <1>0. text' = text
    BY DEF ShowText
  <1>1. CASE PrintMark
    BY <1>0, <1>1 DEF PrintMark, RoomInv
  <1>2. CASE TurnLine
    <2>1. next' = next /\ left' = left /\ currentX' = currentX /\ currentY' = currentY
      BY <1>2 DEF TurnLine
    <2> QED
      BY <1>0, <2>1, RoomKept
  <1> QED
    BY <1>0, <1>1, <1>2, RoomSpace, RoomBreak, RoomLetter DEF ShowText

LEMMA RoomNext == TypeOK /\ WordInv /\ RoomInv /\ TextsFit /\ [Next]_vars => RoomInv'
  <1> SUFFICES ASSUME TypeOK, WordInv, RoomInv, TextsFit, [Next]_vars PROVE RoomInv'
    OBVIOUS
  <1>1. CASE ClearDisplay
    <2>1. text' = [text EXCEPT !.marks = <<>>]
      BY <1>1 DEF ClearDisplay
    <2>2. text'.marks = <<>>
      BY <2>1 DEF TypeOK
    <2> QED
      BY <2>2 DEF RoomInv
  <1>2. CASE ClearedByDeletion \/ UNCHANGED vars
    <2>1. /\ text' = text /\ next' = next /\ left' = left
          /\ currentX' = currentX /\ currentY' = currentY
      BY <1>2 DEF ClearedByDeletion, vars, position
    <2> QED
      BY <2>1, RoomKept
  <1> QED
    BY <1>1, <1>2, RoomBegin, RoomShow DEF Next

LEMMA RoomInit == Init => RoomInv
  BY DEF Init, RoomInv

\* IInv holds whatever the texts are that fit.
LEMMA FitInit == Init => IInv /\ RoomInv
  BY InitIInv, RoomInit

LEMMA FitNext == TextsFit /\ IInv /\ RoomInv /\ [Next]_vars => (IInv /\ RoomInv)'
  <1> SUFFICES ASSUME TextsFit, IInv, RoomInv, [Next]_vars PROVE IInv' /\ RoomInv'
    OBVIOUS
  <1>1. TypeOK /\ WordInv
    BY DEF IInv
  <1>2. Room
    BY <1>1, RoomHere
  <1> QED
    BY <1>1, <1>2, NextIInv, RoomNext

LEMMA FitRoom == TextsFit /\ IInv /\ RoomInv => Room
  BY RoomHere DEF IInv

\* Texts that fit have room at every mark, whatever was on the display before, wherever
\* the cursor stands and whatever is lost: lcd20x4_i2c_puts leaves no row but for a word
\* that would reach the last column and for a space behind it, so that the length of
\* the text and of its longest late word say that the last row is not left.
THEOREM FittingTextsHaveRoom == TextsFit /\ Spec => []Room
  <1> SUFFICES ASSUME TextsFit PROVE Spec => []Room
    OBVIOUS
  <1>1. IInv /\ RoomInv /\ [Next]_vars => (IInv /\ RoomInv)'
    BY FitNext
  <1>2. IInv /\ RoomInv => Room
    BY FitRoom
  <1> QED
    BY FitInit, <1>1, <1>2, PTL DEF Spec

\* Such texts can be read when they are finished, each letter once, in order, words
\* whole, no other row overwritten, unless a write was lost or deleteModel cleared
\* the display in the middle (lcd20x4_i2c_puts, lcd20x4_i2c_print).
THEOREM FittingTextsShown == TextsFit /\ Spec => []TextShown
  <1> QED
    BY FittingTextsHaveRoom, RoomMeansShown, PTL
=============================================================================
