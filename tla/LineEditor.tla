----------------------------- MODULE LineEditor -----------------------------
(***************************************************************************)
(* What the keypad promises while a number is asked for: every key that is *)
(* read has one effect and one only.  A digit is appended to the line, a   *)
(* star takes the last one back, a hash accepts a complete line and        *)
(* discards a shorter one, a star on the empty line asks whether to        *)
(* cancel.  What is accepted is the number the line reads.                 *)
(*                                                                         *)
(* heard is the key read last with a bit that turns at each key, as in an  *)
(* alternating bit: a step that leaves heard alone has read no key, and a  *)
(* key that is read cannot pass for no step at all, even when its effect   *)
(* is nil or it is the same as the one before.  Keyboard implements this   *)
(* (Keyboard!EditorSpec).                                                  *)
(***************************************************************************)
EXTENDS Integers, SequencesExt

CONSTANTS
    Digits,             \* the digits the keypad has
    Star, Hash, Nul,    \* its other keys, and a key without a meaning
    Length              \* the length of a complete line

VARIABLES
    mode,       \* "closed", "editing" or "asking" whether to cancel
    line,       \* the digits of the line
    entered,    \* the result: the last line accepted, as a number, or why none was
    heard       \* the key read last

editorVars == <<mode, line, entered, heard>>

\* Results that are not entered numbers: cancelled and given up.
Cancelled == 0
GivenUp   == -1

\* The number a line reads in base ten.
Number(digits) == FoldLeft(LAMBDA n, d : 10 * n + d, 0, digits)

Init ==
    /\ mode = "closed" /\ line = <<>> /\ entered = Cancelled
    /\ heard = [key |-> Nul, turn |-> 0]

Hear(k) == heard' = [key |-> k, turn |-> 1 - heard.turn]

Close(r) == mode' = "closed" /\ line' = <<>> /\ entered' = r

-----------------------------------------------------------------------------
(* Without a key the editor opens, with an empty line, or times out. *)

Open ==
    /\ mode = "closed"
    /\ mode' = "editing" /\ line' = <<>>
    /\ UNCHANGED <<entered, heard>>

TimeOut ==
    /\ mode = "editing"
    /\ Close(GivenUp)
    /\ UNCHANGED heard

-----------------------------------------------------------------------------
(* The keys while it edits *)

Type(d) ==
    /\ mode = "editing" /\ Hear(d)
    /\ line' = IF Len(line) < Length THEN Append(line, d) ELSE line
    /\ UNCHANGED <<mode, entered>>

Correct ==
    /\ mode = "editing" /\ Hear(Star)
    /\ line # <<>> /\ line' = Front(line)
    /\ UNCHANGED <<mode, entered>>

Ask ==
    /\ mode = "editing" /\ Hear(Star)
    /\ line = <<>> /\ mode' = "asking"
    /\ UNCHANGED <<line, entered>>

Accept ==
    /\ mode = "editing" /\ Hear(Hash)
    /\ Len(line) = Length /\ Close(Number(line))

Discard ==
    /\ mode = "editing" /\ Hear(Hash)
    /\ Len(line) # Length /\ line' = <<>>
    /\ UNCHANGED <<mode, entered>>

GiveUp ==
    /\ mode = "editing" /\ Hear(Nul)
    /\ Close(GivenUp)

-----------------------------------------------------------------------------
(* The keys while it asks *)

Withdraw ==
    /\ mode = "asking" /\ Hear(Star)
    /\ Close(Cancelled)

Resume ==
    /\ mode = "asking" /\ Hear(Hash)
    /\ mode' = "editing"
    /\ UNCHANGED <<line, entered>>

Ignore(k) ==
    /\ mode = "asking" /\ Hear(k)
    /\ UNCHANGED <<mode, line, entered>>

-----------------------------------------------------------------------------
Next ==
    \/ Open \/ TimeOut
    \/ \E d \in Digits : Type(d)
    \/ Correct \/ Ask \/ Accept \/ Discard \/ GiveUp
    \/ Withdraw \/ Resume \/ \E k \in Digits \cup {Nul} : Ignore(k)

Spec == Init /\ [][Next]_editorVars
=============================================================================
