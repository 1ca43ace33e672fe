-------------------------- MODULE Attendance_proofs -------------------------
(***************************************************************************)
(* Proofs about Attendance, for every value of its constants.              *)
(***************************************************************************)
EXTENDS Attendance, TLAPS

USE DEF mainVars, passVars, ledVars, clockVars, serverVars, worldVars, tableVars

-----------------------------------------------------------------------------
(* The statements of DataBase.c on a well-formed table. *)

\* INSERT adds the next row and leaves the table well-formed.
LEMMA InsertTyped ==
    ASSUME NEW table, NEW n \in Nat \ {0}, NEW i \in IDs, NEW t \in 0..MaxTime,
           DOMAIN table \subseteq 1..n - 1,
           \A r \in DOMAIN table : table[r] \in Row
    PROVE  /\ DOMAIN DB_write(table, n, i, t) \subseteq 1..(n + 1) - 1
           /\ \A r \in DOMAIN DB_write(table, n, i, t) :
                 DB_write(table, n, i, t)[r] \in Row
  BY DEF DB_write, Row, Saved

\* UPDATE keeps the set of rows and every column but Saved.
LEMMA UpdateTyped ==
    ASSUME NEW table, NEW i, \A r \in DOMAIN table : table[r] \in Row
    PROVE  /\ DOMAIN DB_update(table, i) = DOMAIN table
           /\ \A r \in DOMAIN table :
                 /\ DB_update(table, i)[r] \in Row
                 /\ DB_update(table, i)[r].ID = table[r].ID
                 /\ DB_update(table, i)[r].Timestamp = table[r].Timestamp
                 /\ DB_update(table, i)[r].Saved =
                       IF table[r].ID = i THEN "V" ELSE table[r].Saved
  BY DEF DB_update, Row, Saved

\* DELETE keeps exactly the rows that are not older than the threshold.
LEMMA DeleteKeeps ==
    ASSUME NEW table, NEW t
    PROVE  /\ DOMAIN DB_delete_old_records(table, t) =
                 {r \in DOMAIN table : table[r].Timestamp >= t}
           /\ \A r \in DOMAIN DB_delete_old_records(table, t) :
                 DB_delete_old_records(table, t)[r] = table[r]
  BY DEF DB_delete_old_records, Restrict

\* Whether its DELETE succeeds or not, a purge changes no row it keeps and
\* drops only rows older than the threshold.
LEMMA PurgeOutcome ==
    ASSUME Purge
    PROVE  /\ \A r \in DOMAIN attendance' :
                 r \in DOMAIN attendance /\ attendance'[r] = attendance[r]
           /\ \/ attendance' = attendance
              \/ DOMAIN attendance' =
                    {r \in DOMAIN attendance : attendance[r].Timestamp >= threshold}
<1>1. CASE attendance' = attendance
  BY <1>1
<1>2. CASE attendance' = DB_delete_old_records(attendance, threshold)
  BY <1>2, DeleteKeeps, ZenonT(30)
<1> QED
  BY <1>1, <1>2 DEF Purge

-----------------------------------------------------------------------------
(* Type correctness *)

LEMMA TypeInit == ASSUME ConstantsAssumption, Init PROVE TypeOK
<1>1. DOMAIN attendance = {}
  BY DEF Init, EmptyTable
<1>2. /\ attempts \in 0..MaxRetries - 1 /\ timestamp \in 0..MaxTime
      /\ count \in 0..MaxRetries + 1 /\ now \in 0..MaxTime
      /\ scans \in 0..MaxScans /\ crashes \in 0..MaxCrashes
  BY DEF ConstantsAssumption, Init
<1>3. alive \in BOOLEAN /\ check \in BOOLEAN
  BY DEF Init
<1>4. lastDay \in {NoDay, OtherDay} \cup 0..MaxTime
  BY DEF Init
<1> QED
  BY <1>1, <1>2, <1>3, <1>4 DEF Init, TypeOK, CANCEL

LEMMA TypeNext == ASSUME ConstantsAssumption, TypeOK, [Next]_vars PROVE TypeOK'
<1> USE DEF ConstantsAssumption, CANCEL, ERROR
<1>1. CASE \E i \in IDs : FingerMatched(i)
  BY <1>1 DEF TypeOK, FingerMatched
<1>2. CASE \E i \in IDs \cup {CANCEL, ERROR} : IDEntered(i)
  BY <1>2 DEF TypeOK, IDEntered, KeypadTimestamp
<1>3. CASE CheckID
  BY <1>3 DEF TypeOK, CheckID, BackToIdle, KeypadAccepts
<1>4. CASE WriteSucceeds
  <2>1. id \in IDs /\ timestamp \in 0..MaxTime /\ nextRow \in Nat \ {0}
    BY <1>4 DEF TypeOK, WriteSucceeds
  <2>2. /\ DOMAIN attendance' \subseteq 1..nextRow' - 1
        /\ \A r \in DOMAIN attendance' : attendance'[r] \in Row
    BY <1>4, <2>1, InsertTyped DEF TypeOK, WriteSucceeds, InsertRow
  <2> QED
    BY <1>4, <2>1, <2>2 DEF TypeOK, WriteSucceeds, InsertRow, AfterInsert, BackToIdle
<1>5. CASE WriteFails
  BY <1>5 DEF TypeOK, WriteFails, BackToIdle
<1>6. CASE WriteKeypad
  <2>1. id \in IDs /\ timestamp \in 0..MaxTime /\ nextRow \in Nat \ {0}
    BY <1>6 DEF TypeOK, WriteKeypad
  <2>2. /\ DOMAIN attendance' \subseteq 1..nextRow' - 1
        /\ \A r \in DOMAIN attendance' : attendance'[r] \in Row
        /\ nextRow' \in Nat \ {0}
    BY <1>6, <2>1, InsertTyped DEF TypeOK, WriteKeypad, InsertRow
  <2> QED
    BY <1>6, <2>2 DEF TypeOK, WriteKeypad, BackToIdle
<1>7. CASE FindBegin
  <2>1. scanned' \subseteq Nat
    BY <1>7 DEF TypeOK, FindBegin, Unsent
  <2> QED
    BY <1>7, <2>1 DEF TypeOK, FindBegin
<1>8. CASE FindFails
  BY <1>8 DEF TypeOK, FindFails
<1>9. CASE FindRow
  BY <1>9 DEF TypeOK, FindRow, RowsAhead, Unsent
<1>10. CASE FindEnd
  BY <1>10 DEF TypeOK, FindEnd, AfterFind
<1>11. CASE PostConfirmed
  BY <1>11, ZenonT(30) DEF TypeOK, PostConfirmed, RowsOf
<1>12. CASE PostFailed
  BY <1>12 DEF TypeOK, PostFailed
<1>13. CASE UpdateSucceeds
  <2>1. /\ DOMAIN attendance' \subseteq 1..nextRow' - 1
        /\ \A r \in DOMAIN attendance' : attendance'[r] \in Row
    BY <1>13, UpdateTyped DEF TypeOK, UpdateSucceeds
  <2> QED
    BY <1>13, <2>1 DEF TypeOK, UpdateSucceeds
<1>14. CASE UpdateFails
  BY <1>14 DEF TypeOK, UpdateFails
<1>15. CASE CountPass
  <2>1. count' \in 0..MaxRetries + 1
    BY <1>15 DEF TypeOK, CountPass, NextCount
  <2>2. led' \in {"on", "off"}
    BY <1>15 DEF TypeOK, CountPass
  <2> QED
    BY <1>15, <2>1, <2>2 DEF TypeOK, CountPass
<1>16. CASE ClockLoop
  BY <1>16 DEF TypeOK, ClockLoop, Threshold, NoDay, OtherDay
<1>17. CASE Purge
  <2>1. /\ DOMAIN attendance' \subseteq 1..nextRow' - 1
        /\ \A r \in DOMAIN attendance' : attendance'[r] \in Row
    BY <1>17, PurgeOutcome DEF TypeOK, Purge
  <2> QED
    BY <1>17, <2>1 DEF TypeOK, Purge
<1>18. CASE Tick
  BY <1>18 DEF TypeOK, Tick
<1>19. CASE Crash
  <2>1. /\ attempts' \in 0..MaxRetries - 1 /\ timestamp' \in 0..MaxTime
        /\ count' \in 0..MaxRetries + 1
    BY <1>19 DEF Crash
  <2>2. crashes' \in 0..MaxCrashes
    BY <1>19 DEF TypeOK, Crash
  <2>3. lastDay' \in {NoDay, OtherDay} \cup 0..MaxTime
    BY <1>19 DEF Crash
  <2>4. alive' \in BOOLEAN /\ check' \in BOOLEAN
    BY <1>19 DEF Crash
  <2> QED
    BY <1>19, <2>1, <2>2, <2>3, <2>4 DEF TypeOK, Crash
<1>20. CASE Restart
  BY <1>20 DEF TypeOK, Restart, LedAtStart
<1>21. CASE UNCHANGED vars
  BY <1>21 DEF TypeOK, vars
<1> QED
  BY <1>1, <1>2, <1>3, <1>4, <1>5, <1>6, <1>7, <1>8, <1>9, <1>10, <1>11, <1>12,
     <1>13, <1>14, <1>15, <1>16, <1>17, <1>18, <1>19, <1>20, <1>21
     DEF Next, MainThread, DatabaseThread, ClockThread, World

\* Every variable keeps its type, and fingerPrint only ever writes the number
\* of an employee.
THEOREM TypeCorrect == Spec => []TypeOK
<1>1. Init => TypeOK
  BY TypeInit, ConstantsAssumption
<1>2. TypeOK /\ [Next]_vars => TypeOK'
  BY TypeNext, ConstantsAssumption
<1> QED
  BY <1>1, <1>2, PTL DEF Spec

-----------------------------------------------------------------------------
(* A pass of DB_find *)

\* The pass holds sqlMutex.
Passing == dbPc \in {"scan", "post", "update"}

\* SavedIsVouched and CursorRowPresent are not inductive by themselves.  That
\* nobody else touches the table during a pass needs the link between dbPc and
\* the mutex; that the rows DB_update marks are vouched for needs what the pass
\* knows: all unsent rows were unsent when its SELECT began, and the answer it
\* got stands for those of the employee it is about to mark.
PassInv ==
    /\ Passing <=> sqlMutex = "database"
    /\ Passing => Unsent(attendance) \subseteq scanned
    /\ CursorRowPresent
    /\ dbPc = "update" =>
          /\ cursor \in received
          /\ scanned \cap RowsOf(attendance, attendance[cursor].ID) \subseteq vouched
    /\ SavedIsVouched

\* What PassInv reads.
passState == <<attendance, dbPc, cursor, scanned, sqlMutex, received, vouched>>

LEMMA PassStutter == ASSUME PassInv, UNCHANGED passState PROVE PassInv'
  BY DEF PassInv, passState, Passing, CursorRowPresent, SavedIsVouched, Unsent, RowsOf

\* A step that changes the table while no pass runs and marks no row.
LEMMA PassTableStep ==
    ASSUME PassInv, sqlMutex = "free",
           UNCHANGED <<dbPc, cursor, scanned, sqlMutex, received, vouched>>,
           \A r \in DOMAIN attendance' :
              attendance'[r].Saved = "V" =>
                 r \in DOMAIN attendance /\ attendance[r].Saved = "V"
    PROVE  PassInv'
  BY DEF PassInv, Passing, CursorRowPresent, SavedIsVouched

LEMMA InsertMarksNone ==
    ASSUME TypeOK, NEW i, NEW t
    PROVE  \A r \in DOMAIN DB_write(attendance, nextRow, i, t) :
              DB_write(attendance, nextRow, i, t)[r].Saved = "V" =>
                 r \in DOMAIN attendance /\ attendance[r].Saved = "V"
  BY DEF TypeOK, DB_write

LEMMA PassInit == ASSUME Init PROVE PassInv
<1>1. DOMAIN attendance = {}
  BY DEF Init, EmptyTable
<1> QED
  BY <1>1 DEF Init, PassInv, Passing, CursorRowPresent, SavedIsVouched

LEMMA PassNext == ASSUME TypeOK, PassInv, [Next]_vars PROVE PassInv'
<1>1. CASE \/ \E i \in IDs : FingerMatched(i)
           \/ \E i \in IDs \cup {CANCEL, ERROR} : IDEntered(i)
           \/ CheckID \/ WriteFails
           \/ ClockLoop \/ Tick \/ Restart \/ UNCHANGED vars
  <2>1. UNCHANGED passState
    BY <1>1 DEF FingerMatched, IDEntered, CheckID, WriteFails,
                ClockLoop, Tick, Restart, vars, passState
  <2> QED
    BY <2>1, PassStutter
<1>2. CASE WriteSucceeds
  <2>1. UNCHANGED <<dbPc, cursor, scanned, sqlMutex, received, vouched>>
    BY <1>2 DEF WriteSucceeds
  <2> QED
    BY <1>2, <2>1, InsertMarksNone, PassTableStep DEF WriteSucceeds, InsertRow
<1>3. CASE WriteKeypad
  <2>1. UNCHANGED <<dbPc, cursor, scanned, sqlMutex, received, vouched>>
    BY <1>3 DEF WriteKeypad
  <2> QED
    BY <1>3, <2>1, InsertMarksNone, PassTableStep DEF WriteKeypad, InsertRow
<1>4. CASE Purge
  <2>1. UNCHANGED <<dbPc, cursor, scanned, sqlMutex, received, vouched>>
    BY <1>4 DEF Purge
  <2>2. \A r \in DOMAIN attendance' :
           r \in DOMAIN attendance /\ attendance'[r] = attendance[r]
    BY <1>4, PurgeOutcome
  <2> QED
    BY <1>4, <2>1, <2>2, PassTableStep DEF Purge, PurgeMayRun
<1>5. CASE FindBegin
  BY <1>5 DEF PassInv, Passing, CursorRowPresent, SavedIsVouched, FindBegin
<1>6. CASE FindFails \/ FindEnd \/ CountPass \/ Crash
  BY <1>6 DEF PassInv, Passing, CursorRowPresent, SavedIsVouched,
              FindFails, FindEnd, AfterFind, CountPass, Crash
<1>7. CASE FindRow
  BY <1>7 DEF PassInv, Passing, CursorRowPresent, SavedIsVouched, FindRow, RowsAhead
<1>8. CASE PostConfirmed
  BY <1>8 DEF PassInv, Passing, CursorRowPresent, SavedIsVouched, PostConfirmed
<1>9. CASE PostFailed
  BY <1>9 DEF PassInv, Passing, CursorRowPresent, SavedIsVouched, PostFailed
<1>10. CASE UpdateSucceeds
  <2> DEFINE i == attendance[cursor].ID
  <2>1. /\ DOMAIN attendance' = DOMAIN attendance
        /\ \A r \in DOMAIN attendance :
              attendance'[r].Saved =
                 IF attendance[r].ID = i THEN "V" ELSE attendance[r].Saved
    BY <1>10, UpdateTyped DEF TypeOK, UpdateSucceeds
  <2>2. UNCHANGED <<cursor, scanned, sqlMutex, received, vouched>> /\ dbPc' = "scan"
        /\ dbPc = "update"
    BY <1>10 DEF UpdateSucceeds
  <2>3. Unsent(attendance') \subseteq Unsent(attendance)
    BY <2>1 DEF Unsent
  <2>4. SavedIsVouched'
    <3> SUFFICES ASSUME NEW r \in DOMAIN attendance, attendance'[r].Saved = "V"
                 PROVE  r \in vouched
      BY <2>1, <2>2 DEF SavedIsVouched
    <3>1. CASE attendance[r].Saved = "V"
      BY <3>1 DEF PassInv, SavedIsVouched
    <3>2. CASE attendance[r].Saved # "V"
      <4>1. attendance[r].ID = i /\ attendance[r].Saved = "X"
        BY <2>1, <3>2 DEF TypeOK, Row, Saved
      <4>2. r \in scanned \cap RowsOf(attendance, i)
        BY <2>2, <4>1 DEF PassInv, Passing, Unsent, RowsOf
      <4> QED
        BY <2>2, <4>2 DEF PassInv
    <3> QED
      BY <3>1, <3>2
  <2> QED
    BY <2>2, <2>3, <2>4 DEF PassInv, Passing, CursorRowPresent
<1>11. CASE UpdateFails
  BY <1>11 DEF PassInv, Passing, CursorRowPresent, SavedIsVouched, UpdateFails
<1> QED
  BY <1>1, <1>2, <1>3, <1>4, <1>5, <1>6, <1>7, <1>8, <1>9, <1>10, <1>11
     DEF Next, MainThread, DatabaseThread, ClockThread, World

\* The invariant the two theorems below and the refinement rest on.
THEOREM PassInvariant == Spec => [](TypeOK /\ PassInv)
<1>1. Init => PassInv
  BY PassInit
<1>2. TypeOK /\ PassInv /\ [Next]_vars => PassInv'
  BY PassNext
<1> QED
  BY <1>1, <1>2, TypeCorrect, PTL DEF Spec

\* A row is only ever marked sent on the strength of an answer of the server
\* about the same employee in the same pass of DB_find.
THEOREM SavedVouched == Spec => []SavedIsVouched
<1>1. PassInv => SavedIsVouched
  BY DEF PassInv
<1> QED
  BY <1>1, PassInvariant, PTL

\* The purge never deletes the row DB_find is posting.
THEOREM CursorPresent == Spec => []CursorRowPresent
<1>1. PassInv => CursorRowPresent
  BY DEF PassInv
<1> QED
  BY <1>1, PassInvariant, PTL

-----------------------------------------------------------------------------
(* The order of the rows *)

\* No stored row, and not the scan in hand either, is from the future, and
\* every stored row is older than the scan in hand.  Only main inserts.
OrderInv ==
    /\ ChronologicalRows
    /\ \A r \in DOMAIN attendance : attendance[r].Timestamp <= now
    /\ mainPc # "idle" =>
          /\ timestamp <= now
          /\ \A r \in DOMAIN attendance : attendance[r].Timestamp <= timestamp

\* A step that adds no row and keeps the timestamps of those it keeps.
LEMMA OrderTableStep ==
    ASSUME TypeOK, OrderInv,
           \A r \in DOMAIN attendance' :
              r \in DOMAIN attendance /\ attendance'[r].Timestamp = attendance[r].Timestamp,
           now' \in Nat, now' >= now,
           mainPc' = "idle" \/ (mainPc' # "idle" /\ mainPc # "idle" /\ timestamp' = timestamp)
    PROVE  OrderInv'
<1>1. \A r \in DOMAIN attendance : attendance[r].Timestamp \in Nat
  BY ConstantsAssumption DEF TypeOK, Row, ConstantsAssumption
<1>2. now \in Nat /\ timestamp \in Nat
  BY ConstantsAssumption DEF TypeOK, ConstantsAssumption
<1> QED
  BY <1>1, <1>2 DEF OrderInv, ChronologicalRows

\* The INSERT of the scan in hand.
LEMMA OrderInsertStep ==
    ASSUME TypeOK, OrderInv, mainPc # "idle", InsertRow, mainPc' = "idle", now' = now
    PROVE  OrderInv'
<1>1. \A r \in DOMAIN attendance : attendance[r].Timestamp \in Nat /\ r \in 1..nextRow - 1
  BY ConstantsAssumption DEF TypeOK, Row, ConstantsAssumption
<1>2. now \in Nat /\ timestamp \in Nat /\ nextRow \in Nat
  BY ConstantsAssumption DEF TypeOK, ConstantsAssumption
<1>3. /\ DOMAIN attendance' = DOMAIN attendance \cup {nextRow}
      /\ attendance'[nextRow].Timestamp = timestamp
      /\ \A r \in DOMAIN attendance : attendance'[r] = attendance[r]
  BY <1>1, <1>2 DEF InsertRow, DB_write
<1> QED
  BY <1>1, <1>2, <1>3 DEF OrderInv, ChronologicalRows

LEMMA OrderNext == ASSUME TypeOK, OrderInv, [Next]_vars PROVE OrderInv'
<1>0. now \in Nat /\ timestamp \in Nat
  BY ConstantsAssumption DEF TypeOK, ConstantsAssumption
<1>1. CASE \/ \E i \in IDs : FingerMatched(i)
           \/ \E i \in IDs \cup {CANCEL, ERROR} : IDEntered(i)
  <2>1. /\ timestamp' = now /\ now' = now /\ attendance' = attendance
        /\ mainPc' # "idle"
    BY <1>1 DEF FingerMatched, IDEntered, KeypadTimestamp
  <2> QED
    BY <1>0, <2>1 DEF OrderInv, ChronologicalRows
<1>2. CASE WriteSucceeds
  BY <1>2, OrderInsertStep DEF WriteSucceeds, AfterInsert, BackToIdle
<1>3. CASE WriteKeypad
  <2>1. CASE InsertRow
    BY <1>3, <2>1, OrderInsertStep DEF WriteKeypad, BackToIdle
  <2>2. CASE UNCHANGED tableVars
    BY <1>0, <1>3, <2>2, OrderTableStep DEF WriteKeypad, BackToIdle
  <2> QED
    BY <1>3, <2>1, <2>2 DEF WriteKeypad
<1>4. CASE CheckID \/ WriteFails
  <2>1. attendance' = attendance /\ now' = now /\ mainPc # "idle"
    BY <1>4 DEF CheckID, WriteFails
  <2>2. mainPc' = "idle" \/ (mainPc' # "idle" /\ timestamp' = timestamp)
    BY <1>4 DEF CheckID, WriteFails, BackToIdle
  <2> QED
    BY <1>0, <2>1, <2>2, OrderTableStep
<1>5. CASE Purge
  <2>1. now' = now /\ mainPc' = mainPc /\ timestamp' = timestamp
    BY <1>5 DEF Purge
  <2> QED
    BY <1>0, <1>5, <2>1, PurgeOutcome, OrderTableStep
<1>6. CASE UpdateSucceeds
  <2>1. now' = now /\ mainPc' = mainPc /\ timestamp' = timestamp
    BY <1>6 DEF UpdateSucceeds
  <2>2. \A r \in DOMAIN attendance' :
           r \in DOMAIN attendance /\ attendance'[r].Timestamp = attendance[r].Timestamp
    BY <1>6, UpdateTyped DEF TypeOK, UpdateSucceeds
  <2> QED
    BY <1>0, <2>1, <2>2, OrderTableStep
<1>7. CASE Crash
  BY <1>0, <1>7, OrderTableStep DEF Crash
<1>8. CASE Tick
  BY <1>0, <1>8, OrderTableStep DEF Tick
<1>9. CASE \/ FindBegin \/ FindFails \/ FindRow \/ FindEnd
           \/ PostConfirmed \/ PostFailed \/ UpdateFails \/ CountPass
           \/ ClockLoop \/ Restart \/ UNCHANGED vars
  <2>1. UNCHANGED <<attendance, now, mainPc, timestamp>>
    BY <1>9 DEF FindBegin, FindFails, FindRow, FindEnd,
                PostConfirmed, PostFailed, UpdateFails, CountPass, ClockLoop,
                Restart, vars
  <2> QED
    BY <1>0, <2>1, OrderTableStep
<1> QED
  BY <1>1, <1>2, <1>3, <1>4, <1>5, <1>6, <1>7, <1>8, <1>9
     DEF Next, MainThread, DatabaseThread, ClockThread, World

\* The table is sorted by time, whatever delays the INSERTs.
THEOREM Chronological == Spec => []ChronologicalRows
<1>1. Init => OrderInv
  BY DEF Init, EmptyTable, OrderInv, ChronologicalRows
<1>2. TypeOK /\ OrderInv /\ [Next]_vars => OrderInv'
  BY OrderNext
<1>3. OrderInv => ChronologicalRows
  BY DEF OrderInv
<1> QED
  BY <1>1, <1>2, <1>3, TypeCorrect, PTL DEF Spec

-----------------------------------------------------------------------------
(* Scans and rows *)

LEMMA ScanNext ==
    ASSUME TypeOK, OneRowPerScan, [Next]_vars PROVE OneRowPerScan'
<1>0. nextRow \in Nat /\ scans \in Nat
  BY ConstantsAssumption DEF TypeOK, ConstantsAssumption
<1>1. CASE \/ \E i \in IDs : FingerMatched(i)
           \/ \E i \in IDs \cup {CANCEL, ERROR} : IDEntered(i)
  BY <1>0, <1>1 DEF OneRowPerScan, FingerMatched, IDEntered
<1>2. CASE WriteSucceeds \/ WriteKeypad
  <2>1. /\ mainPc # "idle" /\ mainPc' = "idle" /\ scans' = scans
        /\ nextRow' = nextRow \/ nextRow' = nextRow + 1
    BY <1>2 DEF WriteSucceeds, WriteKeypad, InsertRow, AfterInsert, BackToIdle
  <2> QED
    BY <1>0, <2>1 DEF OneRowPerScan
<1>3. CASE CheckID \/ WriteFails
  <2>1. mainPc # "idle" /\ UNCHANGED <<nextRow, scans>>
    BY <1>3 DEF CheckID, WriteFails
  <2> QED
    BY <1>0, <2>1 DEF OneRowPerScan
<1>4. CASE Crash
  BY <1>0, <1>4 DEF OneRowPerScan, Crash
<1>5. CASE \/ DatabaseThread \/ ClockThread
           \/ Tick \/ Restart \/ UNCHANGED vars
  <2>1. UNCHANGED <<nextRow, scans, mainPc>>
    BY <1>5 DEF DatabaseThread, FindBegin, FindFails, FindRow,
                FindEnd, PostConfirmed, PostFailed, UpdateSucceeds, UpdateFails,
                CountPass, ClockThread, ClockLoop, Purge, Tick, Restart, vars
  <2> QED
    BY <2>1 DEF OneRowPerScan
<1> QED
  BY <1>1, <1>2, <1>3, <1>4, <1>5 DEF Next, MainThread, World

\* No retry and no crash records a sign-in twice.
THEOREM OneRow == Spec => []OneRowPerScan
<1>1. Init => OneRowPerScan
  BY DEF Init, OneRowPerScan
<1>2. TypeOK /\ OneRowPerScan /\ [Next]_vars => OneRowPerScan'
  BY ScanNext
<1> QED
  BY <1>1, <1>2, TypeCorrect, PTL DEF Spec

-----------------------------------------------------------------------------
(* The LED *)

\* The counter is lost in a crash, the LED is not: that the two agree again
\* after the restart needs the counter to be 0 while the process is down.
LedInv == LedTracksStreak /\ (~alive => count = 0)

LEMMA LedNext == ASSUME TypeOK, LedInv, [Next]_vars PROVE LedInv'
<1>0. count \in Nat /\ MaxRetries \in Nat /\ MaxRetries > 0
  BY ConstantsAssumption DEF TypeOK, ConstantsAssumption
<1>1. CASE CountPass
  <2>1. alive /\ alive' = alive
    BY <1>1 DEF CountPass
  <2>2. CASE check
    <3>1. count' = 0 /\ led' = "off"
      BY <1>1, <2>2 DEF CountPass, NextCount
    <3> QED
      BY <1>0, <2>1, <3>1 DEF LedInv, LedTracksStreak
  <2>3. CASE ~check
    <3>1. /\ count' = IF count > MaxRetries THEN count ELSE count + 1
          /\ led' = IF count + 1 = MaxRetries THEN "on" ELSE led
      BY <1>1, <2>3 DEF CountPass, NextCount
    <3> QED
      BY <1>0, <2>1, <3>1 DEF LedInv, LedTracksStreak
  <2> QED
    BY <2>2, <2>3
<1>2. CASE Crash
  BY <1>2 DEF LedInv, LedTracksStreak, Crash
<1>3. CASE Restart
  BY <1>0, <1>3 DEF LedInv, LedTracksStreak, Restart, LedAtStart
<1>4. CASE \/ MainThread \/ ClockThread \/ Tick \/ UNCHANGED vars
           \/ FindBegin \/ FindFails \/ FindRow \/ FindEnd
           \/ PostConfirmed \/ PostFailed \/ UpdateSucceeds \/ UpdateFails
  <2>1. UNCHANGED <<alive, count, led>>
    BY <1>4 DEF MainThread, FingerMatched, IDEntered, CheckID, WriteSucceeds,
                WriteFails, WriteKeypad, ClockThread, ClockLoop,
                Purge, Tick, vars, FindBegin, FindFails, FindRow, FindEnd,
                PostConfirmed, PostFailed, UpdateSucceeds, UpdateFails
  <2> QED
    BY <2>1 DEF LedInv, LedTracksStreak
<1> QED
  BY <1>1, <1>2, <1>3, <1>4 DEF Next, DatabaseThread, World

\* The LED shows that g_max_retries passes in a row or more have sent nothing, for
\* whatever reason, also after a crash and a restart.
THEOREM LedStreak == Spec => []LedTracksStreak
<1>1. Init => LedInv
  BY ConstantsAssumption DEF ConstantsAssumption, Init, LedInv, LedTracksStreak
<1>2. TypeOK /\ LedInv /\ [Next]_vars => LedInv'
  BY LedNext
<1>3. LedInv => LedTracksStreak
  BY DEF LedInv
<1> QED
  BY <1>1, <1>2, <1>3, TypeCorrect, PTL DEF Spec

-----------------------------------------------------------------------------
(* The purge *)

\* The threshold a purge waits with may be out of date when it gets the
\* mutex, but only in the careful direction.
ThresholdInv == clockPc = "purge" => threshold <= now - Retention

LEMMA ThresholdNext ==
    ASSUME TypeOK, ThresholdInv, [Next]_vars PROVE ThresholdInv'
<1>0. now \in Nat /\ threshold \in Int /\ Retention \in Nat
  BY ConstantsAssumption DEF TypeOK, ConstantsAssumption
<1>1. CASE ClockLoop
  BY <1>0, <1>1 DEF ThresholdInv, ClockLoop, Threshold
<1>2. CASE Purge \/ Crash
  BY <1>2 DEF ThresholdInv, Purge, Crash
<1>3. CASE Tick
  BY <1>0, <1>3 DEF ThresholdInv, Tick
<1>4. CASE MainThread \/ DatabaseThread \/ Restart \/ UNCHANGED vars
  <2>1. UNCHANGED <<clockPc, threshold, now>>
    BY <1>4 DEF MainThread, FingerMatched, IDEntered, CheckID, WriteSucceeds,
                WriteFails, WriteKeypad, DatabaseThread,
                FindBegin, FindFails, FindRow, FindEnd, PostConfirmed, PostFailed,
                UpdateSucceeds, UpdateFails, CountPass, Restart, vars
  <2> QED
    BY <2>1 DEF ThresholdInv
<1> QED
  BY <1>1, <1>2, <1>3, <1>4 DEF Next, ClockThread, World

LEMMA PurgeStep ==
    ASSUME TypeOK, ThresholdInv, [Next]_vars,
           NEW r \in DOMAIN attendance \ DOMAIN attendance'
    PROVE  attendance[r].Timestamp < now - Retention
<1>0. /\ now \in Nat /\ threshold \in Int /\ Retention \in Nat
      /\ attendance[r].Timestamp \in Nat
  BY ConstantsAssumption DEF TypeOK, Row, ConstantsAssumption
<1>1. CASE Purge
  <2>1. DOMAIN attendance' =
           {q \in DOMAIN attendance : attendance[q].Timestamp >= threshold}
    BY <1>1, PurgeOutcome
  <2>2. attendance[r].Timestamp < threshold
    BY <1>0, <2>1
  <2> QED
    BY <1>0, <1>1, <2>2 DEF ThresholdInv, Purge
<1>2. CASE InsertRow
  BY <1>2 DEF InsertRow, DB_write
<1>3. CASE UpdateSucceeds
  BY <1>3 DEF UpdateSucceeds, DB_update
<1>4. CASE attendance' = attendance
  BY <1>4
<1>5. Purge \/ InsertRow \/ UpdateSucceeds \/ attendance' = attendance
  BY DEF Next, MainThread, FingerMatched, IDEntered, CheckID, WriteSucceeds,
         WriteFails, WriteKeypad, DatabaseThread, FindBegin,
         FindFails, FindRow, FindEnd, PostConfirmed, PostFailed, UpdateFails,
         CountPass, ClockThread, ClockLoop, World, Tick, Crash, Restart, vars
<1> QED
  BY <1>1, <1>2, <1>3, <1>4, <1>5

\* Nothing but age removes a record, sent or unsent.
THEOREM PurgeOld == Spec => PurgeOnlyOld
<1>1. Init => ThresholdInv
  BY DEF Init, ThresholdInv
<1>2. TypeOK /\ ThresholdInv /\ [Next]_vars => ThresholdInv'
  BY ThresholdNext
<1>3. TypeOK /\ ThresholdInv /\ [Next]_vars =>
         [\A r \in DOMAIN attendance \ DOMAIN attendance' :
             attendance[r].Timestamp < now - Retention]_vars
  BY PurgeStep
<1> QED
  BY <1>1, <1>2, <1>3, TypeCorrect, PTL DEF Spec, PurgeOnlyOld

-----------------------------------------------------------------------------
(* Attendance implements AttendanceLedger *)

LEMMA LedgerInit == ASSUME Init PROVE Ledger!Init
<1>1. DOMAIN attendance = {} /\ nextRow - 1 = 0 /\ received = {}
  BY DEF Init, EmptyTable
<1>2. Book = [r \in {} |-> {}]
  BY <1>1 DEF Book
<1> QED
  BY <1>1, <1>2 DEF Ledger!Init

\* A step that leaves the rows' IDs and marks, the row counter and the server
\* alone is a stutter of the ledger.
LEMMA LedgerStutter ==
    ASSUME UNCHANGED <<attendance, nextRow, received>>
    PROVE  UNCHANGED Ledger!lvars
  BY DEF Book, Ledger!lvars

\* An INSERT enters a page.
LEMMA LedgerInsert ==
    ASSUME TypeOK, InsertRow, id \in IDs, received' = received
    PROVE  \E i \in IDs : Ledger!Enter(i)
<1>1. nextRow \in Nat /\ (nextRow - 1) + 1 = nextRow /\ nextRow' - 1 = (nextRow - 1) + 1
  BY DEF TypeOK, InsertRow
<1>2. DOMAIN attendance' = DOMAIN attendance \cup {nextRow}
  BY DEF InsertRow, DB_write
<1>3. \A r \in DOMAIN attendance' :
         [ID |-> attendance'[r].ID, Saved |-> attendance'[r].Saved] =
            IF r = nextRow THEN [ID |-> id, Saved |-> "X"] ELSE Book[r]
  BY DEF InsertRow, DB_write, Book
<1>4. Book' = [r \in DOMAIN Book \cup {nextRow} |->
                  IF r = nextRow THEN [ID |-> id, Saved |-> "X"] ELSE Book[r]]
  BY <1>2, <1>3 DEF Book
<1> QED
  BY <1>1, <1>4 DEF Ledger!Enter

\* A POST that reaches the server delivers an open page.
LEMMA LedgerPost ==
    ASSUME TypeOK, PassInv, dbPc = "post", received' = received \cup {cursor},
           UNCHANGED <<attendance, nextRow>>
    PROVE  \E i \in IDs : Ledger!Deliver(i)
<1> DEFINE i == attendance[cursor].ID
<1>1. cursor \in DOMAIN attendance /\ attendance[cursor].Saved = "X"
  BY DEF PassInv, CursorRowPresent, Unsent
<1>2. i \in IDs
  BY <1>1 DEF TypeOK, Row
<1>3. cursor \in Ledger!Open(i)
  BY <1>1 DEF Ledger!Open, Book
<1>4. UNCHANGED <<Book, nextRow - 1>>
  BY DEF Book
<1> QED
  BY <1>2, <1>3, <1>4 DEF Ledger!Deliver

\* DB_update closes the pages of the employee whose answer it acts on.
LEMMA LedgerUpdate ==
    ASSUME TypeOK, PassInv, UpdateSucceeds
    PROVE  \E i \in IDs : Ledger!Close(i)
<1> DEFINE i == attendance[cursor].ID
<1>1. /\ cursor \in DOMAIN attendance /\ attendance[cursor].Saved = "X"
      /\ cursor \in received
  BY DEF PassInv, CursorRowPresent, Unsent, UpdateSucceeds
<1>2. i \in IDs
  BY <1>1 DEF TypeOK, Row
<1>3. Ledger!Open(i) \cap received # {}
  BY <1>1 DEF Ledger!Open, Book
<1>4. /\ DOMAIN attendance' = DOMAIN attendance
      /\ \A r \in DOMAIN attendance :
            /\ attendance'[r].ID = attendance[r].ID
            /\ attendance'[r].Saved =
                  IF attendance[r].ID = i THEN "V" ELSE attendance[r].Saved
  BY UpdateTyped DEF TypeOK, UpdateSucceeds
<1>5. \A r \in DOMAIN attendance :
         [ID |-> attendance'[r].ID, Saved |-> attendance'[r].Saved] =
            IF Book[r].ID = i THEN [Book[r] EXCEPT !.Saved = "V"] ELSE Book[r]
  BY <1>4 DEF Book
<1>6. Book' = [r \in DOMAIN Book |->
                  IF Book[r].ID = i THEN [Book[r] EXCEPT !.Saved = "V"] ELSE Book[r]]
  BY <1>4, <1>5 DEF Book
<1>7. UNCHANGED <<nextRow - 1, received>>
  BY DEF UpdateSucceeds
<1> QED
  BY <1>2, <1>3, <1>6, <1>7 DEF Ledger!Close

\* The purge tears out the oldest pages: the table is sorted by time.
LEMMA LedgerPurge ==
    ASSUME TypeOK, OrderInv, Purge
    PROVE  \/ \E gone \in SUBSET DOMAIN Book : Ledger!Expire(gone)
           \/ UNCHANGED Ledger!lvars
<1>1. UNCHANGED <<nextRow, received>>
  BY DEF Purge
<1>2. CASE attendance' = attendance
  BY <1>1, <1>2, LedgerStutter
<1>3. CASE DOMAIN attendance' =
              {r \in DOMAIN attendance : attendance[r].Timestamp >= threshold}
  <2> DEFINE gone == DOMAIN attendance \ DOMAIN attendance'
  <2>1. \A r \in DOMAIN attendance : attendance[r].Timestamp \in Nat /\ r \in Nat
    BY ConstantsAssumption DEF TypeOK, Row, ConstantsAssumption
  <2>2. threshold \in Int
    BY DEF TypeOK
  <2>3. \A r \in gone, q \in DOMAIN attendance \ gone : r < q
    <3> SUFFICES ASSUME NEW r \in gone, NEW q \in DOMAIN attendance \ gone PROVE r < q
      OBVIOUS
    <3>1. attendance[r].Timestamp < threshold /\ attendance[q].Timestamp >= threshold
      BY <1>3, <2>1, <2>2
    <3>2. ~(q < r) /\ q # r
      BY <2>1, <2>2, <3>1 DEF OrderInv, ChronologicalRows
    <3> QED
      BY <2>1, <3>2
  <2>4. DOMAIN Book = DOMAIN attendance /\ DOMAIN Book \ gone = DOMAIN attendance'
    BY PurgeOutcome DEF Book
  <2>5. \A r \in DOMAIN attendance' : Book'[r] = Book[r]
    BY PurgeOutcome DEF Book
  <2>6. Book' = Restrict(Book, DOMAIN Book \ gone)
    BY <2>4, <2>5 DEF Book, Restrict
  <2>7. \A r \in gone, q \in DOMAIN Book \ gone : r < q
    BY <2>3, <2>4
  <2>8. Ledger!Expire(gone)
    <3> HIDE DEF gone
    <3> QED
      BY <1>1, <2>6, <2>7 DEF Ledger!Expire, Ledger!Restrict, Restrict
  <2> QED
    BY <2>4, <2>8
<1> QED
  BY <1>2, <1>3, PurgeOutcome

LEMMA LedgerNext ==
    ASSUME TypeOK, PassInv, OrderInv, [Next]_vars
    PROVE  [Ledger!Next]_(Ledger!lvars)
<1>1. CASE WriteSucceeds
  BY <1>1, LedgerInsert DEF TypeOK, WriteSucceeds, Ledger!Next
<1>2. CASE WriteKeypad
  <2>1. CASE InsertRow
    BY <1>2, <2>1, LedgerInsert DEF TypeOK, WriteKeypad, Ledger!Next
  <2>2. CASE UNCHANGED tableVars
    BY <1>2, <2>2, LedgerStutter DEF WriteKeypad
  <2> QED
    BY <1>2, <2>1, <2>2 DEF WriteKeypad
<1>3. CASE PostConfirmed
  BY <1>3, LedgerPost DEF PostConfirmed, Ledger!Next
<1>4. CASE PostFailed
  <2>1. CASE received' = received
    BY <1>4, <2>1, LedgerStutter DEF PostFailed
  <2>2. CASE received' = received \cup {cursor}
    BY <1>4, <2>2, LedgerPost DEF PostFailed, Ledger!Next
  <2> QED
    BY <1>4, <2>1, <2>2 DEF PostFailed
<1>5. CASE UpdateSucceeds
  BY <1>5, LedgerUpdate DEF Ledger!Next
<1>6. CASE Purge
  BY <1>6, LedgerPurge DEF Ledger!Next
<1>7. CASE \/ \E i \in IDs : FingerMatched(i)
           \/ \E i \in IDs \cup {CANCEL, ERROR} : IDEntered(i)
           \/ CheckID \/ WriteFails \/ FindBegin \/ FindFails
           \/ FindRow \/ FindEnd \/ UpdateFails \/ CountPass \/ ClockLoop
           \/ World \/ UNCHANGED vars
  <2>1. UNCHANGED <<attendance, nextRow, received>>
    BY <1>7 DEF FingerMatched, IDEntered, CheckID, WriteFails,
                FindBegin, FindFails, FindRow, FindEnd, UpdateFails, CountPass,
                ClockLoop, World, Tick, Crash, Restart, vars
  <2> QED
    BY <2>1, LedgerStutter
<1> QED
  BY <1>1, <1>2, <1>3, <1>4, <1>5, <1>6, <1>7
     DEF Next, MainThread, DatabaseThread, ClockThread

\* The three threads, the failing server and the crashes together do to the
\* table only what the ledger allows.
THEOREM ImplementsLedger == Spec => LedgerSpec
<1>1. Init => Ledger!Init
  BY LedgerInit
<1>2. TypeOK /\ PassInv /\ OrderInv /\ [Next]_vars => [Ledger!Next]_(Ledger!lvars)
  BY LedgerNext
<1>3. Init => OrderInv
  BY DEF Init, EmptyTable, OrderInv, ChronologicalRows
<1>4. TypeOK /\ OrderInv /\ [Next]_vars => OrderInv'
  BY OrderNext
<1> QED
  BY <1>1, <1>2, <1>3, <1>4, PassInvariant, PTL DEF Spec, LedgerSpec, Ledger!Spec
=============================================================================
