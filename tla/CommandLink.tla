---------------------------- MODULE CommandLink -----------------------------
(***************************************************************************)
(* What the threads may expect of the commands of packet.c: the abstract   *)
(* specification of FpmLink and the link under Fingerprint.                *)
(*                                                                         *)
(* A command that finds the link quiet and is left alone returns the       *)
(* sensor's answer to it.  Once two threads have commands out at the same  *)
(* time, or a reply has come in pieces or not at all, a command may return *)
(* the answer to another one, or an error made up by GetFromUart.          *)
(***************************************************************************)
CONSTANTS
    Threads,      \* who sends commands
    Answers,      \* what the sensor answers
    Errors,       \* what a command returns without an acceptable reply
    Silence       \* no answer

VARIABLES
    asking,       \* the threads that wait for a reply
    answer,       \* the sensor's answer to the command of each thread that asks
    disturbed     \* the replies may have got out of step since the link was quiet

linkVars == <<asking, answer, disturbed>>

LinkInit ==
    /\ asking = {}
    /\ answer = [t \in Threads |-> Silence]
    /\ disturbed = FALSE

\* t sends a command, which the sensor answers with a.  When nobody else is asking
\* and every reply has been read, the link starts afresh.
Command(t, a) ==
    /\ t \notin asking
    /\ asking' = asking \cup {t}
    /\ answer' = [answer EXCEPT ![t] = a]
    /\ disturbed' \in BOOLEAN
    /\ asking # {} \/ a = Silence => disturbed' = TRUE

\* A reply comes in pieces.
Disturb ==
    /\ asking # {}
    /\ disturbed' = TRUE
    /\ UNCHANGED <<asking, answer>>

\* The command of t returns r.
Return(t, r) ==
    /\ t \in asking
    /\ asking' = asking \ {t}
    /\ answer' = [answer EXCEPT ![t] = Silence]
    /\ \/ ~disturbed /\ r = answer[t] /\ disturbed' = FALSE
       \/ r \in Answers \cup Errors /\ disturbed' = TRUE
=============================================================================
