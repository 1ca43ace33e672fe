---------------------------- MODULE MCAttendance ----------------------------
(***************************************************************************)
(* Attendance with the sets TLC needs as values.                           *)
(***************************************************************************)
EXTENDS Attendance

\* Two employees: an UPDATE by ID has a row to hit and a row to spare.
MCIDs == {1, 2}

\* One employee, for the liveness run.
MCOneID == {1}
=============================================================================
