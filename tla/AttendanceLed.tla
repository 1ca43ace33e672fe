---------------------------- MODULE AttendanceLed ----------------------------
(***************************************************************************)
(* What the comments of databaseThread say the red LED means, as a         *)
(* property of Attendance with one more history variable: how often in a   *)
(* row data has not been sent.                                             *)
(***************************************************************************)
EXTENDS Attendance

VARIABLE
    failures      \* history: passes in a row that failed to send data, up to MaxRetries

claimVars == <<vars, failures>>

LedInit == Init /\ failures = 0

\* The pass at its end has found data in the table.
HadData == scanned # {}

\* A pass that sent something ends the row when it is counted, and so does the end of
\* the process.  A pass whose SELECT fails counts as one that failed to send data,
\* whether or not there is any.  One that has nothing to send is no failure, and it
\* does not end the row either.
CountFailures ==
    failures' = CASE FindFails \/ (FindEnd /\ ~check /\ HadData) ->
                         IF failures < MaxRetries THEN failures + 1 ELSE failures
                  [] CountPass /\ check -> 0
                  [] Crash -> 0
                  [] OTHER -> failures

LedNext == Next /\ CountFailures

LedSpec == LedInit /\ [][LedNext]_claimVars

\* "If it fails to send data 10 times in a row, it turns on a LED indicator": the LED
\* is lit only after g_max_retries failures to send data.
LedMeansFailures == alive /\ led = "on" => failures >= MaxRetries
=============================================================================
