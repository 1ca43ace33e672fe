--------------------------- MODULE Keyboard_proofs ---------------------------
(***************************************************************************)
(* Proofs about Keyboard, for every set of digits and every length.        *)
(***************************************************************************)
EXTENDS Keyboard, SequenceTheorems, WellFoundedInduction, TLAPS

USE DEF seqVars, lineVars, SEQ_LENGTH, Star, Hash, Nul, Blank

-----------------------------------------------------------------------------
(* The sequence *)

\* The conjuncts of TypeOK about the sequence buffer, and SequenceIsArmed.
SequenceInv ==
    /\ DOMAIN inputSequence = {0, 1}
    /\ \A i \in {0, 1} : inputSequence[i] \in {Star, Hash, Nul}
    /\ seqIndex \in {0, 1}
    /\ armed \in BOOLEAN
    /\ SequenceIsArmed

\* A store into the buffer of two characters within its bounds.
LEMMA PutEffect ==
    ASSUME NEW seq, DOMAIN seq = {0, 1}, NEW i \in {0, 1}, NEW x
    PROVE  /\ DOMAIN Put(seq, i, x) = {0, 1}
           /\ Put(seq, i, x)[i] = x
           /\ Put(seq, i, x)[1 - i] = seq[1 - i]
<1>1. {0, 1} \cup {i} = {0, 1}
  OBVIOUS
<1> QED
  BY <1>1 DEF Put

\* Shifting it copies the second character to the first place.
LEMMA ShiftEffect ==
    ASSUME NEW seq, seq = [j \in {0, 1} |-> seq[j]]
    PROVE  /\ DOMAIN Shifted(seq) = {0, 1}
           /\ Shifted(seq)[0] = seq[1]
           /\ Shifted(seq)[1] = seq[1]
  BY DEF Shifted

\* What checkNewEmployeeSequence makes of a hash: it leaves an index inside the
\* buffer and a hash in front of it, unless a star was there.
LEMMA HashEffect ==
    ASSUME SequenceInv, HashKey
    PROVE  /\ DOMAIN inputSequence' = {0, 1}
           /\ \A i \in {0, 1} : inputSequence'[i] \in {Star, Hash, Nul}
           /\ seqIndex' \in {0, 1}
           /\ seqIndex' = 1 => inputSequence'[0] = Hash
           /\ place' = "enrol" <=> armed
<1> DEFINE first == Put(inputSequence, seqIndex, Hash)
           c == CheckNewEmployeeSequence(first, seqIndex + 1, Hash)
<1>1. /\ DOMAIN first = {0, 1} /\ first = [j \in {0, 1} |-> first[j]]
      /\ first[seqIndex] = Hash /\ first[1 - seqIndex] = inputSequence[1 - seqIndex]
  <2>1. {0, 1} \cup {seqIndex} = {0, 1}
    BY DEF SequenceInv
  <2>2. DOMAIN inputSequence = {0, 1} /\ seqIndex \in {0, 1}
    BY DEF SequenceInv
  <2> QED
    BY <2>1, <2>2, PutEffect DEF Put
<1>2. CASE seqIndex = 0
  <2> DEFINE second == Put(first, 1, Hash)
  <2>1. /\ DOMAIN second = {0, 1} /\ second = [j \in {0, 1} |-> second[j]]
        /\ second[1] = Hash /\ second[0] = Hash
    <3>1. {0, 1} \cup {1} = {0, 1}
      OBVIOUS
    <3>2. second = [j \in {0, 1} |-> IF j = 1 THEN Hash ELSE first[j]]
      BY <1>1, <3>1 DEF Put
    <3> HIDE DEF first
    <3> QED
      BY <1>1, <1>2, <3>2
  <2>2. c = [seq |-> Shifted(second), index |-> 1, found |-> FALSE]
    <3>1. ~ (second[0] = Star /\ second[1] = Hash)
      BY <2>1
    <3> HIDE DEF first
    <3> QED
      BY <1>2, <3>1 DEF CheckNewEmployeeSequence, IndexAfterShift
  <2>3. /\ inputSequence' = Shifted(second) /\ seqIndex' = 1 /\ place' = "menu"
    <3> HIDE DEF first, second
    <3> QED
      BY <2>2 DEF HashKey, first
  <2>4. ~ armed
    BY <1>2 DEF SequenceInv, SequenceIsArmed
  <2> HIDE DEF first, second
  <2> QED
    BY <2>1, <2>3, <2>4, ShiftEffect
<1>3. CASE seqIndex = 1
  <2>1. first[1] = Hash /\ first[0] = inputSequence[0]
    BY <1>1, <1>3
  <2>2. CASE armed
    <3>1. first[0] = Star
      BY <2>1, <2>2 DEF SequenceInv, SequenceIsArmed
    <3>2. c = [seq |-> first, index |-> 0, found |-> TRUE]
      <4> HIDE DEF first
      <4> QED
        BY <1>3, <2>1, <3>1 DEF CheckNewEmployeeSequence, IndexAfterMatch
    <3>3. inputSequence' = first /\ seqIndex' = 0 /\ place' = "enrol"
      <4> HIDE DEF first
      <4> QED
        BY <3>2 DEF HashKey, first
    <3> HIDE DEF first
    <3> QED
      BY <1>1, <2>1, <2>2, <3>1, <3>3
  <2>3. CASE ~ armed
    <3>1. first[0] # Star
      BY <1>3, <2>1, <2>3 DEF SequenceInv, SequenceIsArmed
    <3>2. c = [seq |-> Shifted(first), index |-> 1, found |-> FALSE]
      <4> HIDE DEF first
      <4> QED
        BY <1>3, <2>1, <3>1 DEF CheckNewEmployeeSequence, IndexAfterShift
    <3>3. inputSequence' = Shifted(first) /\ seqIndex' = 1 /\ place' = "menu"
      <4> HIDE DEF first
      <4> QED
        BY <3>2 DEF HashKey, first
    <3> HIDE DEF first
    <3> QED
      BY <1>1, <2>1, <2>3, <3>3, ShiftEffect
  <2> QED
    BY <2>2, <2>3
<1> QED
  BY <1>2, <1>3 DEF SequenceInv

LEMMA SequenceNext == ASSUME SequenceInv, [Next]_vars PROVE SequenceInv'
<1>1. CASE UNCHANGED seqVars
  BY <1>1 DEF SequenceInv, SequenceIsArmed
<1>2. CASE StarKey
  <2>1. /\ DOMAIN inputSequence' = {0, 1} /\ inputSequence'[0] = Star
        /\ inputSequence'[1] = inputSequence[1]
    BY <1>2, PutEffect DEF StarKey, SequenceInv
  <2> QED
    BY <1>2, <2>1 DEF StarKey, SequenceInv, SequenceIsArmed
<1>3. CASE HashKey
  <2>1. armed' = FALSE
    BY <1>3 DEF HashKey
  <2>2. ~ (seqIndex' = 1 /\ inputSequence'[0] = Star)
    <3>1. seqIndex' = 1 => inputSequence'[0] = Hash
      BY <1>3, HashEffect
    <3> QED
      BY <3>1
  <2>3. SequenceIsArmed' /\ armed' \in BOOLEAN
    BY <2>1, <2>2 DEF SequenceIsArmed
  <2>4. /\ DOMAIN inputSequence' = {0, 1}
        /\ \A i \in {0, 1} : inputSequence'[i] \in {Star, Hash, Nul}
        /\ seqIndex' \in {0, 1}
    BY <1>3, HashEffect
  <2> QED
    BY <2>3, <2>4 DEF SequenceInv
<1>4. ASSUME NEW k \in Keys, MenuKey(k) PROVE StarKey \/ HashKey \/ UNCHANGED seqVars
  BY <1>4 DEF MenuKey, SignKey
<1>5. ASSUME NEW k \in Keys, EntryKey(k) \/ CancelKey(k) PROVE UNCHANGED seqVars
  BY <1>5 DEF EntryKey, CancelKey
<1>6. CASE EnrolDone \/ LoopTop \/ ReadFails \/ Expire \/ UNCHANGED vars
  BY <1>1, <1>6 DEF EnrolDone, LoopTop, ReadFails, Expire, vars
<1> QED
  BY <1>1, <1>2, <1>3, <1>4, <1>5, <1>6 DEF Next

LEMMA SequenceInit == ASSUME Init PROVE SequenceInv
<1>1. 0..SEQ_LENGTH - 1 = {0, 1}
  OBVIOUS
<1>2. inputSequence = [i \in {0, 1} |-> Nul] /\ seqIndex = 0 /\ armed = FALSE
  BY <1>1 DEF Init
<1>3. SequenceIsArmed
  BY <1>2 DEF SequenceIsArmed
<1>4. armed \in BOOLEAN
  BY <1>2
<1> QED
  BY <1>2, <1>3, <1>4 DEF SequenceInv

LEMMA SequenceInvariant == Spec => []SequenceInv
  BY SequenceInit, SequenceNext, PTL DEF Spec

\* The buffer of checkNewEmployeeSequence never says anything else than whether
\* the last star or hash was a star, and its index stays inside.
THEOREM SequenceArmed == Spec => []SequenceIsArmed
<1>1. SequenceInv => SequenceIsArmed
  BY DEF SequenceInv
<1> QED
  BY <1>1, SequenceInvariant, PTL

-----------------------------------------------------------------------------
(* The line *)

\* The conjuncts of TypeOK about the line, and DisplayIsLine.  There is nothing
\* on the line outside the editor and while it asks whether to cancel.
LineInv ==
    /\ place \in {"menu", "enrol", "loop", "read", "ask"}
    /\ DOMAIN code = 0..MAX_LENGTH_ID - 1
    /\ \A i \in 0..MAX_LENGTH_ID - 1 : code[i] \in Digits \cup {Blank}
    /\ digit_count \in 0..MAX_LENGTH_ID
    /\ expired \in BOOLEAN
    /\ DisplayIsLine
    /\ place \in {"menu", "enrol", "ask"} => digit_count = 0

\* '_' is no digit key.
LEMMA BlankIsNoDigit == \A k \in {Star, Hash, Nul, Blank} : k \notin Digits
  BY KeyboardAssumption DEF KeyboardAssumption

LEMMA BlankLineIsBlank ==
    /\ DOMAIN BlankLine = 0..MAX_LENGTH_ID - 1
    /\ \A i \in 0..MAX_LENGTH_ID - 1 : BlankLine[i] = Blank
  BY DEF BlankLine

LEMMA LineInit == ASSUME Init PROVE LineInv
<1>1. /\ place = "menu" /\ digit_count = 0 /\ code = BlankLine
  BY DEF Init, Keys
<1>2. expired \in BOOLEAN
  BY DEF Init
<1>3. digit_count \in 0..MAX_LENGTH_ID
  BY <1>1, KeyboardAssumption DEF KeyboardAssumption
<1>4. DisplayIsLine
  BY <1>1 DEF DisplayIsLine, Editing
<1> QED
  BY <1>1, <1>2, <1>3, <1>4, BlankLineIsBlank DEF LineInv

\* A step that leaves the line alone.
LEMMA LineKept ==
    ASSUME LineInv, UNCHANGED <<code, digit_count>>, expired' \in BOOLEAN,
           \/ place \in {"menu", "enrol"} /\ place' \in {"menu", "enrol"}
           \/ Editing /\ place' \in {"loop", "read"}
           \/ place = "ask" /\ place' = "ask"
           \/ Editing /\ place' = "ask" /\ digit_count = 0
    PROVE  LineInv'
  BY DEF LineInv, DisplayIsLine, Editing

\* A step that blanks it.
LEMMA LineBlanked ==
    ASSUME LineInv, code' = BlankLine, digit_count' = 0, expired' \in BOOLEAN,
           place' = "loop"
    PROVE  LineInv'
<1>1. 0 \in 0..MAX_LENGTH_ID
  BY KeyboardAssumption DEF KeyboardAssumption
<1> QED
  BY <1>1, BlankLineIsBlank, BlankIsNoDigit, KeyboardAssumption
     DEF LineInv, DisplayIsLine, KeyboardAssumption

\* A return from enter_ID_keypad.
LEMMA LineLeft ==
    ASSUME LineInv, NEW r, Return(r)
    PROVE  LineInv'
<1>1. 0 \in 0..MAX_LENGTH_ID
  BY KeyboardAssumption DEF KeyboardAssumption
<1>2. place' = "menu" /\ digit_count' = 0 /\ expired' = FALSE /\ code' = code
  BY DEF Return
<1> QED
  BY <1>1, <1>2 DEF LineInv, DisplayIsLine, Editing

LEMMA LineNext == ASSUME LineInv, [Next]_vars PROVE LineInv'
<1> USE KeyboardAssumption DEF KeyboardAssumption
<1>1. ASSUME NEW k \in Keys, MenuKey(k) PROVE LineInv'
  <2>1. CASE place' = "loop" /\ code' = BlankLine /\ digit_count' = 0 /\ expired' = FALSE
    BY <2>1, LineBlanked
  <2>2. CASE UNCHANGED lineVars /\ place' \in {"menu", "enrol"}
    <3>1. expired' \in BOOLEAN
      BY <2>2 DEF LineInv
    <3>2. place = "menu"
      BY <1>1 DEF MenuKey
    <3> QED
      BY <2>2, <3>1, <3>2, LineKept
  <2> QED
    BY <1>1, <2>1, <2>2 DEF MenuKey, StarKey, HashKey, SignKey
<1>2. ASSUME NEW k \in Keys, EntryKey(k) PROVE LineInv'
  <2>1. place = "read" /\ Editing
    BY <1>2 DEF EntryKey, Editing
  <2>2. CASE k = Nul
    BY <1>2, <2>1, <2>2, LineLeft DEF EntryKey
  <2>3. CASE k = Hash
    <3>1. CASE digit_count = MAX_LENGTH_ID
      <4>1. Return(atoi(code))
        BY <1>2, <2>3, <3>1 DEF EntryKey, ConfirmKey
      <4> QED
        BY <2>1, <4>1, LineLeft
    <3>2. CASE digit_count # MAX_LENGTH_ID
      <4>1. code' = BlankLine /\ digit_count' = 0 /\ expired' = expired /\ place' = "loop"
        BY <1>2, <2>3, <3>2 DEF EntryKey, ConfirmKey, Loop
      <4>2. expired' \in BOOLEAN
        BY <4>1 DEF LineInv
      <4> QED
        BY <2>1, <4>1, <4>2, LineBlanked
    <3> QED
      BY <3>1, <3>2
  <2>4. CASE k = Star
    <3>1. CASE digit_count > 0
      <4>1. /\ code' = [code EXCEPT ![digit_count - 1] = Blank]
            /\ digit_count' = digit_count - 1
            /\ expired' = expired /\ place' = "loop"
        BY <1>2, <2>4, <3>1 DEF EntryKey, EraseKey, Loop, Erased
      <4>2. digit_count' \in 0..MAX_LENGTH_ID
        BY <3>1, <4>1 DEF LineInv
      <4>3. DOMAIN code' = 0..MAX_LENGTH_ID - 1
        BY <4>1 DEF LineInv
      <4>4. \A i \in 0..MAX_LENGTH_ID - 1 :
               code'[i] = IF i = digit_count - 1 THEN Blank ELSE code[i]
        BY <4>1 DEF LineInv
      <4>5. \A i \in 0..MAX_LENGTH_ID - 1 : code[i] \in Digits <=> i < digit_count
        BY <2>1 DEF LineInv, DisplayIsLine
      <4>6. \A i \in 0..MAX_LENGTH_ID - 1 : code'[i] \in Digits <=> i < digit_count'
        BY <4>1, <4>4, <4>5, BlankIsNoDigit DEF LineInv
      <4>7. \A i \in 0..MAX_LENGTH_ID - 1 : code'[i] \in Digits \cup {Blank}
        BY <4>4 DEF LineInv
      <4> QED
        BY <2>1, <4>1, <4>2, <4>3, <4>6, <4>7 DEF LineInv, DisplayIsLine
    <3>2. CASE ~ (digit_count > 0)
      <4>1. place' = "ask" /\ UNCHANGED lineVars
        BY <1>2, <2>4, <3>2 DEF EntryKey, EraseKey
      <4>2. digit_count = 0
        BY <3>2 DEF LineInv
      <4>3. expired' \in BOOLEAN
        BY <4>1 DEF LineInv
      <4> QED
        BY <2>1, <4>1, <4>2, <4>3, LineKept
    <3> QED
      BY <3>1, <3>2
  <2>5. CASE k \notin {Star, Hash, Nul}
    <3>1. k \in Digits
      BY <2>5 DEF Keys
    <3>2. DigitKey(k)
      BY <1>2, <2>5 DEF EntryKey
    <3>3. CASE digit_count < MAX_LENGTH_ID
      <4>1. /\ code' = [code EXCEPT ![digit_count] = k]
            /\ digit_count' = digit_count + 1
            /\ expired' = expired /\ place' = "loop"
        BY <3>2, <3>3 DEF DigitKey, Loop
      <4>2. digit_count' \in 0..MAX_LENGTH_ID
        BY <3>3, <4>1 DEF LineInv
      <4>3. DOMAIN code' = 0..MAX_LENGTH_ID - 1
        BY <4>1 DEF LineInv
      <4>4. \A i \in 0..MAX_LENGTH_ID - 1 :
               code'[i] = IF i = digit_count THEN k ELSE code[i]
        BY <4>1 DEF LineInv
      <4>5. \A i \in 0..MAX_LENGTH_ID - 1 : code[i] \in Digits <=> i < digit_count
        BY <2>1 DEF LineInv, DisplayIsLine
      <4>6. \A i \in 0..MAX_LENGTH_ID - 1 : code'[i] \in Digits <=> i < digit_count'
        BY <3>1, <4>1, <4>4, <4>5 DEF LineInv
      <4>7. \A i \in 0..MAX_LENGTH_ID - 1 : code'[i] \in Digits \cup {Blank}
        BY <3>1, <4>4 DEF LineInv
      <4> QED
        BY <2>1, <4>1, <4>2, <4>3, <4>6, <4>7 DEF LineInv, DisplayIsLine
    <3>4. CASE ~ (digit_count < MAX_LENGTH_ID)
      <4>1. place' = "loop" /\ UNCHANGED lineVars
        BY <3>2, <3>4 DEF DigitKey, Loop
      <4>2. expired' \in BOOLEAN
        BY <4>1 DEF LineInv
      <4> QED
        BY <2>1, <4>1, <4>2, LineKept
    <3> QED
      BY <3>3, <3>4
  <2> QED
    BY <2>2, <2>3, <2>4, <2>5
<1>3. ASSUME NEW k \in Keys, CancelKey(k) PROVE LineInv'
  <2>1. place = "ask" /\ Editing /\ digit_count = 0
    BY <1>3 DEF CancelKey, Editing, LineInv
  <2>2. CASE k = Star
    BY <1>3, <2>1, <2>2, LineLeft DEF CancelKey
  <2>3. CASE k = Hash
    <3>1. code' = BlankLine /\ digit_count' = 0 /\ expired' = expired /\ place' = "loop"
      BY <1>3, <2>1, <2>3 DEF CancelKey, Loop
    <3>2. expired' \in BOOLEAN
      BY <3>1 DEF LineInv
    <3> QED
      BY <2>1, <3>1, <3>2, LineBlanked
  <2>4. CASE k \notin {Star, Hash}
    <3>1. UNCHANGED <<place, lineVars>>
      BY <1>3, <2>4 DEF CancelKey
    <3>2. expired' \in BOOLEAN
      BY <3>1 DEF LineInv
    <3> QED
      BY <2>1, <3>1, <3>2, LineKept
  <2> QED
    BY <2>2, <2>3, <2>4
<1>4. CASE LoopTop
  <2>1. Editing
    BY <1>4 DEF LoopTop, LineInv, Editing
  <2>2. CASE expired
    BY <1>4, <2>1, <2>2, LineLeft DEF LoopTop
  <2>3. CASE ~ expired
    <3>1. place' = "read" /\ UNCHANGED lineVars
      BY <1>4, <2>3 DEF LoopTop
    <3>2. expired' \in BOOLEAN
      BY <3>1 DEF LineInv
    <3> QED
      BY <2>1, <3>1, <3>2, LineKept
  <2> QED
    BY <2>2, <2>3
<1>5. CASE EnrolDone \/ ReadFails \/ Expire \/ UNCHANGED vars
  BY <1>5 DEF EnrolDone, ReadFails, Expire, vars, LineInv, DisplayIsLine, Editing
<1> QED
  BY <1>1, <1>2, <1>3, <1>4, <1>5 DEF Next

LEMMA LineInvariant == Spec => []LineInv
  BY LineInit, LineNext, PTL DEF Spec

HeardInv == heard \in [key : Keys, turn : {0, 1}]

LEMMA HeardNext == ASSUME HeardInv, [Next]_vars PROVE HeardInv'
<1>1. ASSUME NEW k \in Keys, Hear(k) PROVE HeardInv'
  <2>1. heard.turn \in {0, 1}
    BY DEF HeardInv
  <2>2. 1 - heard.turn \in {0, 1}
    BY <2>1
  <2> QED
    BY <1>1, <2>2 DEF HeardInv, Hear
<1>2. CASE UNCHANGED heard
  BY <1>2 DEF HeardInv
<1>3. ASSUME NEW k \in Keys, MenuKey(k) \/ EntryKey(k) \/ CancelKey(k)
      PROVE  Hear(k) \/ UNCHANGED heard
  BY <1>3 DEF MenuKey, EntryKey, CancelKey
<1>4. CASE EnrolDone \/ LoopTop \/ ReadFails \/ Expire \/ UNCHANGED vars
  BY <1>2, <1>4 DEF EnrolDone, LoopTop, ReadFails, Expire, vars
<1> QED
  BY <1>1, <1>2, <1>3, <1>4 DEF Next

LEMMA HeardInvariant == Spec => []HeardInv
<1>1. Init => HeardInv
  BY DEF Init, HeardInv, Keys
<1> QED
  BY <1>1, HeardNext, PTL DEF Spec

\* No index ever leaves its buffer and every variable keeps its type.
THEOREM TypeCorrect == Spec => []TypeOK
<1>1. SequenceInv /\ LineInv /\ HeardInv => TypeOK
  <2> SUFFICES ASSUME SequenceInv, LineInv, HeardInv PROVE TypeOK
    OBVIOUS
  <2>1. 0..SEQ_LENGTH - 1 = {0, 1}
    OBVIOUS
  <2> QED
    BY <2>1 DEF SequenceInv, LineInv, HeardInv, TypeOK
<1> QED
  BY <1>1, SequenceInvariant, LineInvariant, HeardInvariant, PTL

\* The display shows exactly what will be entered.
THEOREM DisplayLine == Spec => []DisplayIsLine
<1>1. LineInv => DisplayIsLine
  BY DEF LineInv
<1> QED
  BY <1>1, LineInvariant, PTL

-----------------------------------------------------------------------------
(* The number of a line, by induction on its length *)

LessThan == {p \in Nat \X Nat : p[1] < p[2]}

\* Induction, on a set in place of a predicate.
LEMMA Induct ==
    ASSUME NEW T, 0 \in T, \A n \in Nat : n \in T => n + 1 \in T
    PROVE  \A n \in Nat : n \in T
<1> SUFFICES ASSUME Nat \ T # {} PROVE FALSE
  OBVIOUS
<1>1. OpToRel(<, Nat) = LessThan
  BY DEF OpToRel, LessThan
<1>2. PICK x \in Nat \ T : \A y \in Nat \ T : <<y, x>> \notin LessThan
  <2>1. (Nat \ T) \subseteq Nat
    OBVIOUS
  <2> QED
    BY <1>1, <2>1, NatLessThanWellFounded, WFMin
<1>3. x # 0
  OBVIOUS
<1>4. x - 1 \in Nat /\ (x - 1) + 1 = x
  BY <1>3
<1>5. <<x - 1, x>> \in LessThan
  BY <1>4 DEF LessThan
<1>6. x - 1 \in T
  BY <1>2, <1>4, <1>5
<1> QED
  BY <1>4, <1>6

LargestOf(S) == CHOOSE x \in S : \A y \in S : x >= y

\* f is the fold of the digits over the sets of places up to n.
Folds(f, digits, n) ==
    f = [S \in SUBSET (1 .. n) |->
            IF S = {} THEN 0 ELSE 10 * f[S \ {LargestOf(S)}] + digits[LargestOf(S)]]

LEMMA FoldIsNumber ==
    ASSUME NEW digits, NEW n \in Nat, DOMAIN digits = 1 .. n
    PROVE  Editor!Number(digits) = (CHOOSE f : Folds(f, digits, n))[1 .. n]
  BY DEF Editor!Number, Editor!FoldLeft, Editor!MapThenFoldSet, Editor!Max, Folds, LargestOf

LEMMA LargestIs ==
    ASSUME NEW n \in Nat, NEW S \in SUBSET (1 .. n + 1), n + 1 \in S
    PROVE  LargestOf(S) = n + 1
<1>1. \A y \in S : y \in Int /\ n + 1 >= y
  OBVIOUS
<1>2. \E x \in S : \A y \in S : x >= y
  BY <1>1
<1>3. LargestOf(S) \in S /\ LargestOf(S) >= n + 1
  BY <1>2 DEF LargestOf
<1>4. LargestOf(S) \in Int /\ n + 1 >= LargestOf(S)
  BY <1>1, <1>3
<1> QED
  BY <1>3, <1>4

LEMMA FoldsExist ==
    ASSUME NEW digits
    PROVE  \A n \in Nat : \E f : Folds(f, digits, n)
<1> DEFINE T == {n \in Nat : \E f : Folds(f, digits, n)}
<1>1. 0 \in T
  <2> DEFINE f == [S \in SUBSET (1 .. 0) |-> 0]
  <2>1. \A S \in SUBSET (1 .. 0) : S = {}
    OBVIOUS
  <2>2. f = [S \in SUBSET (1 .. 0) |->
                IF S = {} THEN 0 ELSE 10 * f[S \ {LargestOf(S)}] + digits[LargestOf(S)]]
    BY <2>1
  <2> HIDE DEF f
  <2>3. Folds(f, digits, 0)
    BY <2>2 DEF Folds
  <2> QED
    BY <2>3
<1>2. ASSUME NEW n \in Nat, n \in T PROVE n + 1 \in T
  <2>1. PICK f : Folds(f, digits, n)
    BY <1>2
  <2> DEFINE g == [S \in SUBSET (1 .. n + 1) |->
                      IF n + 1 \in S THEN 10 * f[S \ {n + 1}] + digits[n + 1] ELSE f[S]]
  <2>2. \A S \in SUBSET (1 .. n + 1) : n + 1 \notin S => S \in SUBSET (1 .. n) /\ g[S] = f[S]
    OBVIOUS
  <2>3. ASSUME NEW S \in SUBSET (1 .. n + 1)
        PROVE  g[S] = IF S = {} THEN 0
                      ELSE 10 * g[S \ {LargestOf(S)}] + digits[LargestOf(S)]
    <3>1. CASE n + 1 \in S
      <4>1. LargestOf(S) = n + 1 /\ S # {}
        BY <3>1, LargestIs
      <4>2. g[S \ {n + 1}] = f[S \ {n + 1}]
        BY <2>2
      <4>3. g[S] = 10 * f[S \ {n + 1}] + digits[n + 1]
        BY <3>1
      <4> QED
        BY <4>1, <4>2, <4>3
    <3>2. CASE n + 1 \notin S
      <4>1. S \in SUBSET (1 .. n) /\ g[S] = f[S]
        BY <2>2, <3>2
      <4>2. g[S \ {LargestOf(S)}] = f[S \ {LargestOf(S)}]
        BY <2>2, <3>2
      <4>3. f[S] = IF S = {} THEN 0
                   ELSE 10 * f[S \ {LargestOf(S)}] + digits[LargestOf(S)]
        BY <2>1, <4>1 DEF Folds
      <4> HIDE DEF g
      <4> QED
        BY <4>1, <4>2, <4>3
    <3> QED
      BY <3>1, <3>2
  <2>4. g = [S \in SUBSET (1 .. n + 1) |->
                IF S = {} THEN 0 ELSE 10 * g[S \ {LargestOf(S)}] + digits[LargestOf(S)]]
    BY <2>3
  <2> HIDE DEF g
  <2>5. Folds(g, digits, n + 1)
    BY <2>4 DEF Folds
  <2> QED
    BY <2>5
<1> HIDE DEF T
<1>3. \A n \in Nat : n \in T
  BY <1>1, <1>2, Induct
<1> QED
  BY <1>3 DEF T

\* The number of the first k digits, and that of one digit more.
LEMMA FoldStep ==
    ASSUME NEW digits, NEW n \in Nat, NEW f, Folds(f, digits, n)
    PROVE  /\ f[1 .. 0] = 0
           /\ \A k \in 0 .. n - 1 : f[1 .. k + 1] = 10 * f[1 .. k] + digits[k + 1]
<1>1. f[1 .. 0] = 0
  <2>1. 1 .. 0 = {} /\ {} \in SUBSET (1 .. n)
    OBVIOUS
  <2> QED
    BY <2>1 DEF Folds
<1>2. ASSUME NEW k \in 0 .. n - 1
      PROVE  f[1 .. k + 1] = 10 * f[1 .. k] + digits[k + 1]
  <2>1. LargestOf(1 .. k + 1) = k + 1
    <3>1. k \in Nat /\ k + 1 \in 1 .. k + 1 /\ 1 .. k + 1 \in SUBSET (1 .. k + 1)
      OBVIOUS
    <3> QED
      BY <3>1, LargestIs
  <2>2. (1 .. k + 1) \ {k + 1} = 1 .. k /\ 1 .. k + 1 # {}
    OBVIOUS
  <2>3. 1 .. k + 1 \in SUBSET (1 .. n)
    OBVIOUS
  <2>4. f[1 .. k + 1] = IF 1 .. k + 1 = {} THEN 0
            ELSE 10 * f[(1 .. k + 1) \ {LargestOf(1 .. k + 1)}] + digits[LargestOf(1 .. k + 1)]
    BY <2>3 DEF Folds
  <2> QED
    BY <2>1, <2>2, <2>4
<1> QED
  BY <1>1, <1>2

\* value of atoi: what it has read after i digits.
Reads(value, row, n) ==
    value = [i \in 0 .. n |-> IF i = 0 THEN 0 ELSE 10 * value[i - 1] + row[i - 1]]

\* The digits of a row, counted from one.
Copies(digits, row, n) == \A k \in 1 .. n : digits[k] = row[k - 1]

\* The fold, one digit of the row more.
LEMMA FoldReadsRow ==
    ASSUME NEW row, NEW n \in Nat, NEW digits, Copies(digits, row, n),
           NEW f, Folds(f, digits, n)
    PROVE  /\ f[1 .. 0] = 0
           /\ \A k \in 0 .. n - 1 : f[1 .. k + 1] = 10 * f[1 .. k] + row[k]
<1>1. /\ f[1 .. 0] = 0
      /\ \A k \in 0 .. n - 1 : f[1 .. k + 1] = 10 * f[1 .. k] + digits[k + 1]
  BY FoldStep
<1>2. ASSUME NEW k \in 0 .. n - 1 PROVE digits[k + 1] = row[k]
  <2>1. k + 1 \in 1 .. n /\ (k + 1) - 1 = k
    OBVIOUS
  <2> QED
    BY <2>1 DEF Copies
<1> QED
  BY <1>1, <1>2

\* There is a function that reads as atoi does,
LEMMA ReadsExist ==
    ASSUME NEW row, NEW n \in Nat, NEW digits, Copies(digits, row, n),
           NEW f, Folds(f, digits, n)
    PROVE  \E value : Reads(value, row, n)
<1> DEFINE v == [i \in 0 .. n |-> f[1 .. i]]
<1>1. f[1 .. 0] = 0 /\ \A k \in 0 .. n - 1 : f[1 .. k + 1] = 10 * f[1 .. k] + row[k]
  BY FoldReadsRow
<1>2. ASSUME NEW i \in 0 .. n
      PROVE  v[i] = IF i = 0 THEN 0 ELSE 10 * v[i - 1] + row[i - 1]
  <2>1. CASE i = 0
    BY <1>1, <2>1
  <2>2. CASE i # 0
    <3>1. i - 1 \in 0 .. n - 1 /\ i - 1 \in 0 .. n /\ (i - 1) + 1 = i
      BY <2>2
    <3>2. f[1 .. i] = 10 * f[1 .. i - 1] + row[i - 1]
      BY <1>1, <3>1
    <3> QED
      BY <2>2, <3>1, <3>2
  <2> QED
    BY <2>1, <2>2
<1>3. v = [i \in 0 .. n |-> IF i = 0 THEN 0 ELSE 10 * v[i - 1] + row[i - 1]]
  BY <1>2
<1> HIDE DEF v
<1> QED
  BY <1>3 DEF Reads

\* and every such function reads the number of the fold.
LEMMA ReadsFold ==
    ASSUME NEW row, NEW n \in Nat, NEW digits, Copies(digits, row, n),
           NEW f, Folds(f, digits, n), NEW value, Reads(value, row, n)
    PROVE  value[n] = f[1 .. n]
<1> DEFINE T == {k \in Nat : k <= n => value[k] = f[1 .. k]}
<1>1. f[1 .. 0] = 0 /\ \A k \in 0 .. n - 1 : f[1 .. k + 1] = 10 * f[1 .. k] + row[k]
  BY FoldReadsRow
<1>2. 0 \in T
  BY <1>1 DEF Reads
<1>3. ASSUME NEW k \in Nat, k \in T PROVE k + 1 \in T
  <2>1. CASE k + 1 <= n
    <3>1. k \in 0 .. n - 1 /\ k + 1 \in 0 .. n /\ k + 1 # 0 /\ (k + 1) - 1 = k /\ k <= n
      BY <2>1
    <3>2. value[k + 1] = 10 * value[k] + row[k]
      BY <3>1 DEF Reads
    <3> QED
      BY <1>1, <1>3, <3>1, <3>2
  <2> QED
    BY <2>1
<1> HIDE DEF T
<1>4. \A k \in Nat : k \in T
  BY <1>2, <1>3, Induct
<1> QED
  BY <1>4 DEF T

\* atoi of a full line is the number the line reads.
LEMMA AtoiIsNumber ==
    ASSUME NEW row, \A i \in 0 .. MAX_LENGTH_ID - 1 : row[i] \in Digits
    PROVE  atoi(row) = Editor!Number([i \in 1 .. MAX_LENGTH_ID |-> row[i - 1]])
<1> DEFINE digits == [i \in 1 .. MAX_LENGTH_ID |-> row[i - 1]]
           n == CHOOSE m \in 0 .. MAX_LENGTH_ID :
                    /\ \A i \in 0 .. m - 1 : row[i] \in Digits
                    /\ m = MAX_LENGTH_ID \/ row[m] \notin Digits
           value == CHOOSE v : v = [i \in 0 .. n |-> IF i = 0 THEN 0
                                                     ELSE 10 * v[i - 1] + row[i - 1]]
<1>1. MAX_LENGTH_ID \in Nat
  BY KeyboardAssumption DEF KeyboardAssumption
<1>2. n = MAX_LENGTH_ID
  <2>1. \E m \in 0 .. MAX_LENGTH_ID :
            /\ \A i \in 0 .. m - 1 : row[i] \in Digits
            /\ m = MAX_LENGTH_ID \/ row[m] \notin Digits
    BY <1>1
  <2>2. n \in 0 .. MAX_LENGTH_ID /\ (n = MAX_LENGTH_ID \/ row[n] \notin Digits)
    BY <2>1
  <2> HIDE DEF n
  <2> QED
    BY <1>1, <2>2
<1>3. atoi(row) = value[n]
  BY DEF atoi
<1>4. \E f : Folds(f, digits, MAX_LENGTH_ID)
  BY <1>1, FoldsExist
<1> DEFINE f == CHOOSE f : Folds(f, digits, MAX_LENGTH_ID)
<1>5. Folds(f, digits, MAX_LENGTH_ID)
  BY <1>4
<1>6. Editor!Number(digits) = f[1 .. MAX_LENGTH_ID]
  BY <1>1, FoldIsNumber
<1>7. Copies(digits, row, MAX_LENGTH_ID)
  BY DEF Copies
<1> HIDE DEF f, digits, n
<1>8. Reads(value, row, MAX_LENGTH_ID)
  <2>1. \E v : Reads(v, row, MAX_LENGTH_ID)
    BY <1>1, <1>5, <1>7, ReadsExist
  <2>2. \E v : v = [i \in 0 .. n |-> IF i = 0 THEN 0 ELSE 10 * v[i - 1] + row[i - 1]]
    BY <1>2, <2>1 DEF Reads
  <2>3. value = [i \in 0 .. n |-> IF i = 0 THEN 0 ELSE 10 * value[i - 1] + row[i - 1]]
    BY <2>2
  <2> HIDE DEF value
  <2> QED
    BY <1>2, <2>3 DEF Reads
<1> HIDE DEF value
<1>9. value[MAX_LENGTH_ID] = f[1 .. MAX_LENGTH_ID]
  BY <1>1, <1>5, <1>7, <1>8, ReadsFold
<1> QED
  BY <1>2, <1>3, <1>6, <1>9 DEF digits

-----------------------------------------------------------------------------
(* The line editor *)

\* The line that the first n places of a row read.
LineOf(row, n) == [i \in 1 .. n |-> row[i - 1]]

\* The first n places of a row hold digits.
Typed(row, n) == \A i \in 0 .. n - 1 : row[i] \in Digits

LEMMA LineIs ==
    ASSUME NEW n \in Nat, NEW row, Typed(row, n)
    PROVE  /\ LineOf(row, n) \in Seq(Digits)
           /\ Len(LineOf(row, n)) = n
           /\ \A i \in 1 .. n : LineOf(row, n)[i] = row[i - 1]
<1>1. \A i \in 1 .. n : row[i - 1] \in Digits
  <2>1. \A i \in 1 .. n : i - 1 \in 0 .. n - 1
    OBVIOUS
  <2> QED
    BY <2>1 DEF Typed
<1>2. LineOf(row, n) \in [1 .. n -> Digits]
  BY <1>1 DEF LineOf
<1>3. LineOf(row, n) \in Seq(Digits)
  BY <1>2
<1>4. Len(LineOf(row, n)) = n
  BY <1>2, <1>3, LenProperties
<1> QED
  BY <1>3, <1>4 DEF LineOf

LEMMA NoLine == \A row : LineOf(row, 0) = << >>
<1> SUFFICES ASSUME NEW row PROVE LineOf(row, 0) = << >>
  OBVIOUS
<1>1. Typed(row, 0)
  BY DEF Typed
<1> QED
  BY <1>1, LineIs, EmptySeq

\* A digit typed behind n others is appended,
LEMMA LineTyped ==
    ASSUME NEW n \in Nat, NEW row, NEW row2, NEW k \in Digits, Typed(row, n),
           row2[n] = k, \A i \in 0 .. n - 1 : row2[i] = row[i]
    PROVE  LineOf(row2, n + 1) = Append(LineOf(row, n), k)
<1>1. Typed(row2, n + 1)
  <2>1. \A i \in 0 .. (n + 1) - 1 : i = n \/ i \in 0 .. n - 1
    OBVIOUS
  <2> QED
    BY <2>1 DEF Typed
<1>2. /\ LineOf(row, n) \in Seq(Digits) /\ Len(LineOf(row, n)) = n
      /\ \A i \in 1 .. n : LineOf(row, n)[i] = row[i - 1]
  BY LineIs
<1>3. /\ LineOf(row2, n + 1) \in Seq(Digits) /\ Len(LineOf(row2, n + 1)) = n + 1
      /\ \A i \in 1 .. n + 1 : LineOf(row2, n + 1)[i] = row2[i - 1]
  BY <1>1, LineIs
<1>4. /\ Append(LineOf(row, n), k) \in Seq(Digits)
      /\ Len(Append(LineOf(row, n), k)) = n + 1
      /\ \A i \in 1 .. n : Append(LineOf(row, n), k)[i] = row[i - 1]
      /\ Append(LineOf(row, n), k)[n + 1] = k
  BY <1>2, AppendProperties
<1>5. ASSUME NEW i \in 1 .. n + 1
      PROVE  LineOf(row2, n + 1)[i] = Append(LineOf(row, n), k)[i]
  <2>1. CASE i = n + 1
    BY <1>3, <1>4, <2>1
  <2>2. CASE i # n + 1
    <3>1. i \in 1 .. n /\ i - 1 \in 0 .. n - 1
      BY <2>2
    <3> QED
      BY <1>3, <1>4, <3>1
  <2> QED
    BY <2>1, <2>2
<1> QED
  BY <1>3, <1>4, <1>5, SeqEqual

\* and erasing the last one leaves the front of the line.
LEMMA LineErased ==
    ASSUME NEW n \in Nat \ {0}, NEW row, NEW row2, Typed(row, n),
           \A i \in 0 .. n - 2 : row2[i] = row[i]
    PROVE  /\ LineOf(row2, n - 1) = Editor!Front(LineOf(row, n))
           /\ LineOf(row, n) # << >>
<1>1. /\ LineOf(row, n) \in Seq(Digits) /\ Len(LineOf(row, n)) = n
      /\ \A i \in 1 .. n : LineOf(row, n)[i] = row[i - 1]
  BY LineIs
<1>2. Typed(row2, n - 1)
  BY DEF Typed
<1>3. /\ LineOf(row2, n - 1) \in Seq(Digits) /\ Len(LineOf(row2, n - 1)) = n - 1
      /\ \A i \in 1 .. n - 1 : LineOf(row2, n - 1)[i] = row2[i - 1]
  BY <1>2, LineIs
<1>4. Editor!Front(LineOf(row, n)) = SubSeq(LineOf(row, n), 1, n - 1)
  BY <1>1 DEF Editor!Front
<1>5. \A i \in 1 .. n - 1 : LineOf(row, n)[i] \in Digits
  BY <1>1, LenProperties
<1>6. /\ SubSeq(LineOf(row, n), 1, n - 1) \in Seq(Digits)
      /\ Len(SubSeq(LineOf(row, n), 1, n - 1)) = n - 1
      /\ \A i \in 1 .. n - 1 : SubSeq(LineOf(row, n), 1, n - 1)[i] = LineOf(row, n)[i]
  BY <1>5, SubSeqProperties
<1>7. ASSUME NEW i \in 1 .. n - 1
      PROVE  LineOf(row2, n - 1)[i] = SubSeq(LineOf(row, n), 1, n - 1)[i]
  <2>1. i - 1 \in 0 .. n - 2 /\ i \in 1 .. n
    OBVIOUS
  <2> QED
    BY <1>1, <1>3, <1>6, <2>1
<1>8. LineOf(row2, n - 1) = SubSeq(LineOf(row, n), 1, n - 1)
  BY <1>3, <1>6, <1>7, SeqEqual
<1>9. LineOf(row, n) # << >>
  BY <1>1, EmptySeq
<1> QED
  BY <1>4, <1>8, <1>9

\* The editor's line, in the state before and in the state after a step.
LEMMA LineIsRow == Line = LineOf(code, digit_count)
  BY DEF Line, LineOf

\* What is on the line while it is edited has been typed.
LEMMA LineIsTyped == ASSUME LineInv, Editing PROVE Typed(code, digit_count)
<1>1. \A i \in 0 .. digit_count - 1 : i \in 0 .. MAX_LENGTH_ID - 1 /\ i < digit_count
  BY KeyboardAssumption DEF LineInv, KeyboardAssumption
<1> QED
  BY <1>1 DEF LineInv, DisplayIsLine, Typed

\* There is nothing on the line when there are no digits.
LEMMA LineEmpty == digit_count = 0 => Line = << >>
  BY NoLine, LineIsRow

LEMMA LineLength == ASSUME LineInv, Editing PROVE Len(Line) = digit_count
<1>1. digit_count \in Nat
  BY KeyboardAssumption DEF LineInv, KeyboardAssumption
<1> QED
  BY <1>1, LineIsTyped, LineIs, LineIsRow

\* A step of the line editor.
EditorNext == [Editor!Next]_(Editor!editorVars)

\* A step that shows nothing of itself.
LEMMA KeptStutters ==
    ASSUME UNCHANGED <<code, digit_count, result, heard>>, Mode' = Mode
    PROVE  EditorNext
<1>1. Line' = Line
  BY DEF Line
<1> QED
  BY <1>1 DEF EditorNext, Editor!editorVars

\* A digit goes to the end of the line, if there is room.
LEMMA DigitTypes ==
    ASSUME LineInv, place = "read", NEW k \in Digits, DigitKey(k), Hear(k)
    PROVE  Editor!Type(k)
<1> USE DEF Editing
<1>1. Typed(code, digit_count) /\ Len(Line) = digit_count
  BY LineIsTyped, LineLength
<1>2. digit_count \in Nat /\ DOMAIN code = 0 .. MAX_LENGTH_ID - 1
  BY KeyboardAssumption DEF LineInv, KeyboardAssumption
<1>3. Mode = "editing" /\ Mode' = "editing" /\ result' = result
  BY DEF Mode, DigitKey, Loop
<1>4. CASE digit_count < MAX_LENGTH_ID
  <2>1. /\ code' = [code EXCEPT ![digit_count] = k]
        /\ digit_count' = digit_count + 1
    BY <1>4 DEF DigitKey, Loop
  <2>2. /\ code'[digit_count] = k
        /\ \A i \in 0 .. digit_count - 1 : code'[i] = code[i]
    <3>1. digit_count \in DOMAIN code
      BY <1>2, <1>4, KeyboardAssumption DEF KeyboardAssumption
    <3>2. \A i \in 0 .. digit_count - 1 : i \in DOMAIN code /\ i # digit_count
      BY <1>2, <1>4, KeyboardAssumption DEF KeyboardAssumption
    <3> QED
      BY <2>1, <3>1, <3>2
  <2>3. LineOf(code', digit_count + 1) = Append(LineOf(code, digit_count), k)
    BY <1>1, <1>2, <2>2, LineTyped
  <2>4. Line' = Append(Line, k)
    BY <2>1, <2>3 DEF Line, LineOf
  <2> QED
    BY <1>1, <1>3, <1>4, <2>4 DEF Editor!Type, Editor!Hear, Hear
<1>5. CASE ~ (digit_count < MAX_LENGTH_ID)
  <2>1. Line' = Line
    BY <1>5 DEF DigitKey, Loop, Line
  <2> QED
    BY <1>1, <1>3, <1>5, <2>1 DEF Editor!Type, Editor!Hear, Hear
<1> QED
  BY <1>4, <1>5

\* A star takes the last digit back, or asks when there is none.
LEMMA StarCorrects ==
    ASSUME LineInv, place = "read", EraseKey, Hear(Star)
    PROVE  Editor!Correct \/ Editor!Ask
<1> USE DEF Editing
<1>1. Typed(code, digit_count)
  BY LineIsTyped
<1>2. digit_count \in Nat /\ DOMAIN code = 0 .. MAX_LENGTH_ID - 1
  BY KeyboardAssumption DEF LineInv, KeyboardAssumption
<1>3. Mode = "editing" /\ result' = result
  BY DEF Mode, EraseKey, Loop
<1>4. CASE digit_count > 0
  <2>1. /\ code' = [code EXCEPT ![digit_count - 1] = Blank]
        /\ digit_count' = digit_count - 1
        /\ Mode' = "editing"
    BY <1>4 DEF EraseKey, Loop, Erased, Mode
  <2>2. \A i \in 0 .. digit_count - 2 : code'[i] = code[i]
    <3>1. \A i \in 0 .. digit_count - 2 : i \in DOMAIN code /\ i # digit_count - 1
      BY <1>2, KeyboardAssumption DEF LineInv, KeyboardAssumption
    <3> QED
      BY <2>1, <3>1
  <2>3. digit_count \in Nat \ {0}
    BY <1>2, <1>4
  <2>4. /\ LineOf(code', digit_count - 1) = Editor!Front(LineOf(code, digit_count))
        /\ LineOf(code, digit_count) # << >>
    BY <1>1, <2>2, <2>3, LineErased
  <2>5. Line' = Editor!Front(Line) /\ Line # << >>
    BY <2>1, <2>4 DEF Line, LineOf
  <2> QED
    BY <1>3, <2>1, <2>5 DEF Editor!Correct, Editor!Hear, Hear
<1>5. CASE ~ (digit_count > 0)
  <2>1. digit_count = 0
    BY <1>2, <1>5
  <2>2. Line = << >> /\ Line' = Line /\ Mode' = "asking"
    BY <1>5, <2>1, LineEmpty DEF EraseKey, Line, Mode
  <2> QED
    BY <1>3, <2>2 DEF Editor!Ask, Editor!Hear, Hear
<1> QED
  BY <1>4, <1>5

\* enter_ID_keypad returns: the editor closes, with nothing on the line.
LEMMA ReturnCloses ==
    ASSUME NEW r, Return(r)
    PROVE  Mode' = "closed" /\ Line' = << >> /\ result' = r
<1>1. place' = "menu" /\ digit_count' = 0 /\ result' = r
  BY DEF Return
<1>2. (digit_count = 0 => Line = << >>)'
  BY LineEmpty, PTL
<1> QED
  BY <1>1, <1>2 DEF Mode

\* A hash accepts the number that a complete line reads and discards any other.
LEMMA HashConfirms ==
    ASSUME LineInv, place = "read", ConfirmKey, Hear(Hash)
    PROVE  Editor!Accept \/ Editor!Discard
<1> USE DEF Editing
<1>1. Mode = "editing" /\ Len(Line) = digit_count
  BY LineLength DEF Mode
<1>2. CASE digit_count = MAX_LENGTH_ID
  <2>1. Typed(code, MAX_LENGTH_ID)
    BY <1>2, LineIsTyped
  <2>2. atoi(code) = Editor!Number(Line)
    BY <1>2, <2>1, AtoiIsNumber DEF Typed, Line
  <2>3. Mode' = "closed" /\ Line' = << >> /\ result' = atoi(code)
    BY <1>2, ReturnCloses DEF ConfirmKey
  <2> QED
    BY <1>1, <1>2, <2>2, <2>3 DEF Editor!Accept, Editor!Close, Editor!Hear, Hear
<1>3. CASE digit_count # MAX_LENGTH_ID
  <2>1. place' = "loop" /\ digit_count' = 0 /\ result' = result
    BY <1>3 DEF ConfirmKey, Loop
  <2>2. Line' = << >> /\ Mode' = "editing"
    BY <2>1, NoLine DEF Mode, Line, LineOf
  <2> QED
    BY <1>1, <1>3, <2>1, <2>2 DEF Editor!Discard, Editor!Hear, Hear
<1> QED
  BY <1>2, <1>3

\* Each key has its effect.
LEMMA KeyStep ==
    ASSUME LineInv, NEW k \in Keys, EntryKey(k)
    PROVE  EditorNext
<1>1. place = "read" /\ Hear(k) /\ Mode = "editing"
  BY DEF EntryKey, Mode
<1>2. CASE k = Star
  <2>1. Editor!Correct \/ Editor!Ask
    BY <1>1, <1>2, StarCorrects DEF EntryKey
  <2> QED
    BY <2>1 DEF EditorNext, Editor!Next
<1>3. CASE k = Hash
  <2>1. Editor!Accept \/ Editor!Discard
    BY <1>1, <1>3, HashConfirms DEF EntryKey
  <2> QED
    BY <2>1 DEF EditorNext, Editor!Next
<1>4. CASE k = Nul
  <2>1. Mode' = "closed" /\ Line' = << >> /\ result' = ERROR
    BY <1>4, ReturnCloses DEF EntryKey
  <2>2. Editor!GiveUp
    BY <1>1, <1>4, <2>1
       DEF Editor!GiveUp, Editor!Close, Editor!GivenUp, ERROR, Editor!Hear, Hear
  <2> QED
    BY <2>2 DEF EditorNext, Editor!Next
<1>5. CASE k \notin {Star, Hash, Nul}
  <2>1. k \in Digits
    BY <1>5 DEF Keys
  <2>2. Editor!Type(k)
    BY <1>1, <1>5, <2>1, DigitTypes DEF EntryKey
  <2> QED
    BY <2>1, <2>2 DEF EditorNext, Editor!Next
<1> QED
  BY <1>2, <1>3, <1>4, <1>5

\* So has each answer.
LEMMA AnswerStep ==
    ASSUME LineInv, NEW k \in Keys, CancelKey(k)
    PROVE  EditorNext
<1>1. place = "ask" /\ Hear(k) /\ Mode = "asking" /\ digit_count = 0 /\ Line = << >>
  BY LineEmpty DEF CancelKey, Mode, LineInv
<1>2. CASE k = Star
  <2>1. Mode' = "closed" /\ Line' = << >> /\ result' = CANCEL
    BY <1>2, ReturnCloses DEF CancelKey
  <2>2. Editor!Withdraw
    BY <1>1, <1>2, <2>1
       DEF Editor!Withdraw, Editor!Close, Editor!Cancelled, CANCEL, Editor!Hear, Hear
  <2> QED
    BY <2>2 DEF EditorNext, Editor!Next
<1>3. CASE k = Hash
  <2>1. place' = "loop" /\ digit_count' = 0 /\ result' = result
    BY <1>1, <1>3 DEF CancelKey, Loop
  <2>2. Line' = << >> /\ Mode' = "editing"
    BY <2>1, NoLine DEF Mode, Line, LineOf
  <2>3. Editor!Resume
    BY <1>1, <1>3, <2>1, <2>2 DEF Editor!Resume, Editor!Hear, Hear
  <2> QED
    BY <2>3 DEF EditorNext, Editor!Next
<1>4. CASE k \notin {Star, Hash}
  <2>1. Mode' = Mode /\ Line' = Line /\ result' = result
    BY <1>4 DEF CancelKey, Mode, Line
  <2>2. k \in Digits \cup {Nul}
    BY <1>4 DEF Keys
  <2>3. Editor!Ignore(k)
    BY <1>1, <2>1 DEF Editor!Ignore, Editor!Hear, Hear
  <2> QED
    BY <2>2, <2>3 DEF EditorNext, Editor!Next
<1> QED
  BY <1>2, <1>3, <1>4

\* The editor opens from the menu, which reads its own keys.
LEMMA MenuStep ==
    ASSUME LineInv, NEW k \in Keys, MenuKey(k)
    PROVE  EditorNext
<1>1. Mode = "closed" /\ UNCHANGED <<result, heard>>
  BY DEF MenuKey, Mode
<1>2. CASE place' = "loop" /\ digit_count' = 0
  <2>1. Line' = << >> /\ Mode' = "editing"
    BY <1>2, NoLine DEF Mode, Line, LineOf
  <2>2. Editor!Open
    BY <1>1, <2>1 DEF Editor!Open
  <2> QED
    BY <2>2 DEF EditorNext, Editor!Next
<1>3. CASE UNCHANGED lineVars /\ place' \in {"menu", "enrol"}
  <2>1. Mode' = Mode
    BY <1>1, <1>3 DEF Mode
  <2> QED
    BY <1>1, <1>3, <2>1, KeptStutters
<1> QED
  BY <1>2, <1>3 DEF MenuKey, StarKey, HashKey, SignKey

LEMMA EditorStep == ASSUME LineInv, [Next]_vars PROVE EditorNext
<1>1. CASE LoopTop
  <2>1. Mode = "editing" /\ UNCHANGED heard
    BY <1>1 DEF LoopTop, Mode
  <2>2. CASE expired
    <3>1. Mode' = "closed" /\ Line' = << >> /\ result' = ERROR
      BY <1>1, <2>2, ReturnCloses DEF LoopTop
    <3>2. Editor!TimeOut
      BY <2>1, <3>1 DEF Editor!TimeOut, Editor!Close, Editor!GivenUp, ERROR
    <3> QED
      BY <3>2 DEF EditorNext, Editor!Next
  <2>3. CASE ~ expired
    <3>1. Mode' = Mode /\ UNCHANGED <<code, digit_count, result, heard>>
      BY <1>1, <2>1, <2>3 DEF LoopTop, Mode
    <3> QED
      BY <3>1, KeptStutters
  <2> QED
    BY <2>2, <2>3
<1>2. CASE EnrolDone \/ ReadFails \/ Expire \/ UNCHANGED vars
  BY <1>2, KeptStutters DEF EnrolDone, ReadFails, Expire, vars, Mode
<1> QED
  BY <1>1, <1>2, MenuStep, KeyStep, AnswerStep DEF Next

\* Each key that enter_ID_keypad reads has the effect of that key on the line,
\* once and in its turn, the line changes without a key only by opening and by
\* the time-out, and the number returned for a complete line is the number these
\* keys have typed, for every set of digit keys and every length: the keyboard
\* implements the line editor.
THEOREM ImplementsEditor == Spec => EditorSpec
<1>1. Init => Editor!Init
  <2> SUFFICES ASSUME Init PROVE Editor!Init
    OBVIOUS
  <2>1. Mode = "closed" /\ digit_count = 0 /\ result = CANCEL
    BY DEF Init, Mode
  <2> QED
    BY <2>1, LineEmpty DEF Init, Editor!Init, Editor!Cancelled, CANCEL
<1>2. LineInv /\ [Next]_vars => [Editor!Next]_(Editor!editorVars)
  BY EditorStep DEF EditorNext
<1> QED
  BY <1>1, <1>2, LineInvariant, PTL DEF Spec, EditorSpec, Editor!Spec
=============================================================================
