------------------------------ MODULE Keyboard ------------------------------
(***************************************************************************)
(* The two consumers of the keyboard, both in the main thread: the menu of *)
(* fingerPrint with the sequence *# of checkNewEmployeeSequence (main.c),  *)
(* and the line editor of enter_ID_keypad (keypad.c), which takes over     *)
(* while an employee types a number.  Each keeps indices into a fixed      *)
(* buffer in globals or locals that outlive a key.                         *)
(*                                                                         *)
(* The keyboard is opened with VMIN = 1 and without an overall time limit: *)
(* UART_read waits until a key is pressed.  When it fails in the menu,     *)
(* fingerPrint goes on with an uninitialised input, which can be any       *)
(* character: the same step as a key, so MenuKey stands for both.          *)
(***************************************************************************)
EXTENDS Integers

CONSTANTS
    Digits,           \* the digit keys
    MAX_LENGTH_ID     \* the digits of an employee number

KeyboardAssumption ==
    /\ Digits \subseteq 0..9
    /\ MAX_LENGTH_ID \in Nat \ {0}

ASSUME KeyboardAssumption

SEQ_LENGTH == 2

\* The other characters convert_to_char returns, and the '_' of the display.
Star  == 10
Hash  == 11
Nul   == 12
Blank == 13

Keys == Digits \cup {Star, Hash, Nul}

\* convert_to_char('1') and ('3'): sign in and sign out.
SignKeys == Digits \cap {1, 3}

\* #define CANCEL, #define ERROR.
CANCEL == 0
ERROR  == -1

VARIABLES
    place,          \* where the main thread is
    inputSequence,  \* the buffer of the sequence
    seqIndex,       \* the number of characters in it
    code,           \* the line on the display
    digit_count,    \* local of enter_ID_keypad
    expired,        \* max_execution_time has passed since it was entered
    result,         \* what enter_ID_keypad returned last
    armed,          \* history: the last star or hash of the menu was a star
    heard           \* history: the key enter_ID_keypad has read last, and whether
                    \* the number of keys it has read is odd

seqVars  == <<inputSequence, seqIndex, armed>>
lineVars == <<code, digit_count, expired>>
vars     == <<place, seqVars, lineVars, result, heard>>

BlankLine == [i \in 0..MAX_LENGTH_ID - 1 |-> Blank]

Init ==
    /\ place = "menu"
    /\ inputSequence = [i \in 0..SEQ_LENGTH - 1 |-> Nul] /\ seqIndex = 0
    /\ code = BlankLine /\ digit_count = 0 /\ expired = FALSE
    /\ result = CANCEL
    /\ armed = FALSE /\ heard = [key |-> Nul, turn |-> 0]

-----------------------------------------------------------------------------
(* The menu *)

\* A store into an array, wherever the index points.
Put(array, i, x) == [j \in DOMAIN array \cup {i} |-> IF j = i THEN x ELSE array[j]]

\* memmove(inputSequence, inputSequence + 1, SEQ_LENGTH - 1)
Shifted(seq) == [seq EXCEPT ![0] = seq[1]]

\* A plausible slip: the index is not moved back with the buffer.
IndexAfterShift_Kept(i) == i

\* seqIndex--
IndexAfterShift(i) == i - 1

\* Another one: the index is moved back after *#, too.
IndexAfterMatch_MovedBack(i) == i - 1

\* seqIndex = 0
IndexAfterMatch(i) == 0

\* checkNewEmployeeSequence(input) with the buffer and the index it finds: the
\* buffer and index it leaves and what it returns.
CheckNewEmployeeSequence(seq, i, input) ==
    LET filled == IF i < SEQ_LENGTH THEN Put(seq, i, input) ELSE seq
        n      == IF i < SEQ_LENGTH THEN i + 1 ELSE i
    IN  IF n # SEQ_LENGTH
        THEN [seq |-> filled, index |-> n, found |-> FALSE]
        ELSE IF filled[0] = Star /\ filled[1] = Hash
             THEN [seq |-> filled, index |-> IndexAfterMatch(n), found |-> TRUE]
             ELSE [seq |-> Shifted(filled), index |-> IndexAfterShift(n), found |-> FALSE]

\* case '*'
StarKey ==
    /\ inputSequence' = Put(inputSequence, 0, Star) /\ seqIndex' = 1
    /\ armed' = TRUE
    /\ UNCHANGED <<place, lineVars>>

\* case '#'
HashKey ==
    /\ LET c == CheckNewEmployeeSequence(Put(inputSequence, seqIndex, Hash), seqIndex + 1, Hash)
       IN  /\ inputSequence' = c.seq /\ seqIndex' = c.index
           /\ place' = IF c.found THEN "enrol" ELSE "menu"
    /\ armed' = FALSE
    /\ UNCHANGED lineVars

\* case '1' and case '3': when findFinger returns FAILED, enter_ID_keypad begins
\* with beginDisplay; otherwise the key has been handled.
SignKey ==
    /\ \/ place' = "loop" /\ code' = BlankLine /\ digit_count' = 0 /\ expired' = FALSE
       \/ UNCHANGED <<place, lineVars>>
    /\ UNCHANGED seqVars

MenuKey(k) ==
    /\ place = "menu"
    /\ CASE k = Star        -> StarKey
         [] k = Hash        -> HashKey
         [] k \in SignKeys  -> SignKey
         [] OTHER           -> UNCHANGED <<place, seqVars, lineVars>>
    /\ UNCHANGED <<result, heard>>

\* The enrolment that *# starts reads no key.
EnrolDone ==
    /\ place = "enrol"
    /\ place' = "menu"
    /\ UNCHANGED <<seqVars, lineVars, result, heard>>

-----------------------------------------------------------------------------
(* enter_ID_keypad *)

\* It returns r.
Return(r) ==
    /\ place' = "menu" /\ result' = r
    /\ digit_count' = 0 /\ expired' = FALSE
    /\ UNCHANGED code

\* A minute has passed.
Expire ==
    /\ place \in {"loop", "read", "ask"} /\ ~expired
    /\ expired' = TRUE
    /\ UNCHANGED <<place, seqVars, code, digit_count, result, heard>>

\* The top of the loop looks at the clock, then waits for a key.
LoopTop ==
    /\ place = "loop"
    /\ IF expired THEN Return(ERROR) ELSE place' = "read" /\ UNCHANGED <<lineVars, result>>
    /\ UNCHANGED <<seqVars, heard>>

\* UART_read fails: once more around the loop.
ReadFails ==
    /\ place = "read"
    /\ place' = "loop"
    /\ UNCHANGED <<seqVars, lineVars, result, heard>>

\* Back to the top of the loop with the given line.
Loop(line, count) ==
    /\ place' = "loop" /\ code' = line /\ digit_count' = count
    /\ UNCHANGED <<expired, result>>

\* It has read k.
Hear(k) == heard' = [key |-> k, turn |-> 1 - heard.turn]

\* A plausible slip: the last place is kept for the terminating '\0'.
DigitKey_LastLost(k) ==
    IF digit_count < MAX_LENGTH_ID - 1
    THEN Loop([code EXCEPT ![digit_count] = k], digit_count + 1)
    ELSE Loop(code, digit_count)

\* A digit; those after the last place are ignored.
DigitKey(k) ==
    IF digit_count < MAX_LENGTH_ID
    THEN Loop([code EXCEPT ![digit_count] = k], digit_count + 1)
    ELSE Loop(code, digit_count)

\* code[--digit_count] = '_'
Erased == [code EXCEPT ![digit_count - 1] = Blank]

\* A star erases, or asks whether to cancel when there is nothing to erase.
EraseKey ==
    IF digit_count > 0
    THEN Loop(Erased, digit_count - 1)
    ELSE place' = "ask" /\ UNCHANGED <<lineVars, result>>

\* atoi(code): the digits up to the first character that is none.
atoi(line) ==
    LET n == CHOOSE m \in 0..MAX_LENGTH_ID :
                 /\ \A i \in 0..m - 1 : line[i] \in Digits
                 /\ m = MAX_LENGTH_ID \/ line[m] \notin Digits
        value[i \in 0..n] == IF i = 0 THEN 0 ELSE 10 * value[i - 1] + line[i - 1]
    IN  value[n]

\* A hash confirms a complete line and discards a shorter one.
ConfirmKey ==
    IF digit_count = MAX_LENGTH_ID THEN Return(atoi(code))
                                   ELSE Loop(BlankLine, 0)

\* The key UART_read returns, however long it took.
EntryKey(k) ==
    /\ place = "read"
    /\ CASE k = Star -> EraseKey
         [] k = Hash -> ConfirmKey
         [] k = Nul  -> Return(ERROR)
         [] OTHER    -> DigitKey(k)
    /\ Hear(k)
    /\ UNCHANGED seqVars

\* "cancel the operation?": star returns, hash starts over, others are ignored.
CancelKey(k) ==
    /\ place = "ask"
    /\ CASE k = Star -> Return(CANCEL)
         [] k = Hash -> Loop(BlankLine, digit_count)
         [] OTHER    -> UNCHANGED <<place, lineVars, result>>
    /\ Hear(k)
    /\ UNCHANGED seqVars

-----------------------------------------------------------------------------
Next ==
    \/ \E k \in Keys : MenuKey(k) \/ EntryKey(k) \/ CancelKey(k)
    \/ EnrolDone \/ LoopTop \/ ReadFails \/ Expire

Spec == Init /\ [][Next]_vars

-----------------------------------------------------------------------------
(* Properties *)

Editing == place \in {"loop", "read", "ask"}

\* Type invariant.  It bounds every index: no sequence of keys, read from the
\* menu and from the editor in turn, makes the code write outside inputSequence
\* or code, or leaves seqIndex where the next key would.
TypeOK ==
    /\ place \in {"menu", "enrol", "loop", "read", "ask"}
    /\ DOMAIN inputSequence = 0..SEQ_LENGTH - 1
    /\ \A i \in DOMAIN inputSequence : inputSequence[i] \in {Star, Hash, Nul}
    /\ seqIndex \in 0..SEQ_LENGTH - 1
    /\ DOMAIN code = 0..MAX_LENGTH_ID - 1
    /\ \A i \in DOMAIN code : code[i] \in Digits \cup {Blank}
    /\ digit_count \in 0..MAX_LENGTH_ID
    /\ expired \in BOOLEAN
    /\ armed \in BOOLEAN
    /\ heard \in [key : Keys, turn : {0, 1}]

\* The sequence *# is recognised exactly when the last of the keys star and hash
\* in the menu was a star, whatever was signed in, typed, erased or confirmed in
\* between: the shifting buffer amounts to one bit.
SequenceIsArmed ==
    armed <=> seqIndex = 1 /\ inputSequence[0] = Star

\* What the display shows is what will be entered: the first digit_count places
\* hold digits and the others a blank, through typing, erasing, an answer to
\* the question and a line that was too short.
DisplayIsLine ==
    Editing => \A i \in 0..MAX_LENGTH_ID - 1 : code[i] \in Digits <=> i < digit_count

\* enter_ID_keypad seen from outside: whether it edits a line or asks, and the
\* digits of the line.
Mode ==
    CASE place = "ask"              -> "asking"
      [] place \in {"loop", "read"} -> "editing"
      [] OTHER                      -> "closed"

Line == [i \in 1..digit_count |-> code[i - 1]]

Editor == INSTANCE LineEditor WITH
              Length <- MAX_LENGTH_ID, mode <- Mode, line <- Line, entered <- result

\* enter_ID_keypad implements the line editor.  Each key that it reads has the
\* effect of that key, once, in the order in which the keys are read: none of
\* them is dropped, done twice or taken for another, though the cursor, the
\* buffer and the display are kept apart.  Without a key the line changes only
\* when the editor opens or times out.  The number returned for a complete line
\* is the number that these keys have typed.
EditorSpec == Editor!Spec

=============================================================================
