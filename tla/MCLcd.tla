------------------------------- MODULE MCLcd --------------------------------
(***************************************************************************)
(* Lcd with texts of the program: their words and the spaces between them. *)
(***************************************************************************)
EXTENDS Lcd

\* n marks.
Run(mark, n) == [i \in 1..n |-> mark]

\* Words and gaps in turn, beginning with a gap.
Marks(lengths) ==
    LET marks[n \in 0..Len(lengths)] ==
            IF n = 0 THEN <<>>
            ELSE marks[n - 1] \o Run(IF n % 2 = 1 THEN Space ELSE Letter, lengths[n])
    IN  marks[Len(lengths)]

Puts(row, col, lengths)  == [how |-> "puts", row |-> row, col |-> col, marks |-> Marks(lengths)]
Prints(row, col, lengths) == [how |-> "print", row |-> row, col |-> col, marks |-> Marks(lengths)]

MCTexts ==
    { Puts(0, 3, <<0, 5, 1, 8>>),                        \* the time
      Puts(1, 3, <<0, 16, 2, 1>>),                       \* a message of the configuration
      Puts(3, 1, <<0, 7, 5, 6>>),                        \* 1-Entry     3-Exit
      Prints(1, 9, <<0, 3>>),                             \* the number being typed
      Puts(1, 0, <<0, 6, 1, 4, 1, 6, 1, 4, 1, 3, 1, 6>>),\* Remove your finger from the sensor
      Puts(0, 0, <<0, 7, 1, 2, 1, 7, 1, 6, 1, 5, 1, 3, 1, 4, 1, 6>>) } \* Invalid ID length. ...

\* All the texts of the program, with numbers of up to three digits.
ProgramTexts ==
    MCTexts
    \cup { Puts(1, 3, <<0, 4, 1, 4, 1, 5>>),             \* Real Time Group
           Prints(0, 0, <<0, 5, 1, 3, 1>>),              \* Enter ID:
           Prints(2, 0, <<0, 1, 1, 13>>),                \* * delete/cancel
           Prints(3, 0, <<0, 1, 1, 7>>),                 \* # confirm
           Puts(2, 0, <<0, 1, 1, 3, 3, 1, 1, 2>>),       \* * yes   # no
           Puts(3, 0, <<0, 4, 1, 2>>), Puts(3, 0, <<0, 4, 1, 3>>),   \* sign in, sign out
           Puts(1, 0, <<0, 6, 1, 3, 1, 10>>),            \* cancel the operation?
           Puts(1, 0, <<0, 2, 1, 8, 1, 2, 1, 3, 1, 7>>), \* No matching in the library
           Puts(1, 0, <<0, 6, 1, 2, 1, 5, 1, 2, 1, 8>>), \* Failed to write to database
           Puts(1, 0, <<0, 9, 1, 7>>),                   \* Enrolling failed.
           Puts(1, 0, <<0, 7, 1, 6, 1, 2, 1, 6>>),       \* Waiting finger to enroll
           Puts(1, 0, <<0, 8, 1, 3, 1, 6, 1, 3, 1, 7>>), \* Timeout: One minute has passed.
           Puts(1, 0, <<0, 6, 1, 10, 1, 7>>),            \* Finger collection success
           Puts(1, 0, <<0, 5, 1, 4, 1, 9, 1, 7>>),       \* Error when receiving package
           Puts(1, 0, <<0, 5, 1, 6, 1, 6>>),             \* Can't detect finger
           Puts(1, 0, <<0, 4, 1, 2, 1, 7, 1, 6, 1>>),    \* Fail to collect finger, also with a space
           Puts(1, 0, <<0, 11, 1, 7, 1, 6>>),            \* Fingerprint already exists
           Puts(1, 0, <<0, 3, 1, 4, 1, 6, 1, 4, 1, 5>>), \* Put your finger down again
           \* Connection error. The new employee ID were not saved, after a space
           Puts(0, 0, <<1, 10, 1, 6, 1, 3, 1, 3, 1, 8, 1, 2, 1, 4, 1, 3, 1, 5>>) }
    \cup UNION { { Puts(1, 0, <<0, 5, 2, 2, 1, 1 + n>>), \* Hello  ID #123
                   Puts(1, 0, <<0, 7, 2, 2, 1, 1 + n>>), \* Goodbye  ID #123
                   Puts(1, 0, <<0, 5, 1, 2, 1, 1 + n>>), \* Hello ID #123
                   Puts(1, 0, <<0, 7, 1, 2, 1, 1 + n>>), \* Goodbye ID #123
                   Puts(0, 0, <<0, 8, 1, n, 1, 5, 1, 13>>), \* Employee 123 added successfully.
                   \* The entered ID  #123 does not exist
                   Puts(0, 0, <<0, 3, 1, 7, 1, 2, 2, 1 + n, 1, 4, 1, 3, 1, 5>>) } : n \in 1..3 }

ASSUME ProgramTextsFit == \A t \in ProgramTexts : HasRoom(t) /\ Address(t.row, t.col) = Cell(t.row, t.col)
=============================================================================
