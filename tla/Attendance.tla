----------------------------- MODULE Attendance -----------------------------
(***************************************************************************)
(* The life of an attendance record: the main thread inserts it when an    *)
(* employee signs in or out (main.c), databaseThread posts it to the       *)
(* server and marks it (threads.c, DB_find), clockThread purges it when it *)
(* is old (DB_delete_old_records).  The three threads share the SQLite     *)
(* connection under sqlMutex; DB_find keeps the mutex while it posts.  The *)
(* server may refuse a request or lose its answer, any SQL statement may   *)
(* fail, and the process may crash at any step and be restarted (systemd,  *)
(* Restart=always) with the database file as the crash left it.            *)
(*                                                                         *)
(* Days are the unit of time.  Every DataBase.c function except DB_find    *)
(* takes and releases sqlMutex within itself and waits for nothing else in *)
(* between, so it is one step that needs the mutex free.                   *)
(***************************************************************************)
EXTENDS DataBase

CONSTANTS
    IDs,          \* employee numbers a template or a typed code can name
    Retention,    \* g_month, as a number of days
    MaxRetries,   \* g_max_retries
    MaxScans,     \* bound: sign-ins and sign-outs attempted
    MaxTime,      \* bound: the last day
    MaxCrashes    \* bound: crashes

\* main exits before any thread starts when g_max_retries is 0.
ConstantsAssumption ==
    /\ IDs \subseteq Nat \ {0}
    /\ IDs # {}
    /\ Retention \in Nat
    /\ MaxRetries \in Nat \ {0}
    /\ MaxScans \in Nat
    /\ MaxTime \in Nat
    /\ MaxCrashes \in Nat

ASSUME ConstantsAssumption

VARIABLES
    alive,        \* the process is running
    now,          \* the day time() returns
    scans,        \* sign-ins and sign-outs attempted so far
    crashes,      \* crashes so far
    attendance,   \* the attendance table
    nextRow,      \* the row number of the next INSERT
    sqlMutex,     \* the holder across steps: "free" or "database"
    mainPc,       \* main thread: where fingerPrint is
    id,           \* its local: the employee being recorded
    timestamp,    \* its global: the day of the scan
    attempts,     \* its local: failed DB_write calls
    dbPc,         \* databaseThread: where its loop is
    cursor,       \* the row DB_find's SELECT is at
    check,        \* DB_find's result is 1
    count,        \* passes of DB_find in a row that sent nothing
    led,          \* the red LED
    clockPc,      \* clockThread: where its loop is
    lastDay,      \* its local: the day of the previous loop, NoDay or OtherDay
    threshold,    \* timestamp_threshold of DB_delete_old_records
    received,     \* rows the server has stored
    scanned,      \* history: rows unsent when DB_find's SELECT began
    vouched       \* history: see PostConfirmed

mainVars   == <<mainPc, id, timestamp, attempts>>
passVars   == <<dbPc, cursor, check, scanned>>
ledVars    == <<count, led>>
clockVars  == <<clockPc, lastDay, threshold>>
serverVars == <<received, vouched>>
worldVars  == <<alive, now, crashes>>
tableVars  == <<attendance, nextRow>>

vars == <<mainVars, passVars, ledVars, clockVars, serverVars, worldVars,
          tableVars, scans, sqlMutex>>

NoDay    == -1
OtherDay == -2     \* a day of the month that is not today's
Rows  == 1..MaxScans

-----------------------------------------------------------------------------
(* Initial state: the first start, with an empty database. *)

Init ==
    /\ alive = TRUE /\ now = 0 /\ scans = 0 /\ crashes = 0
    /\ attendance = EmptyTable /\ nextRow = 1
    /\ sqlMutex = "free"
    /\ mainPc = "idle" /\ id = CANCEL /\ timestamp = 0 /\ attempts = 0
    /\ dbPc = "wait" /\ cursor = 0 /\ check = FALSE /\ scanned = {}
    /\ count = 0 /\ led = "off"
    /\ clockPc = "loop" /\ lastDay = NoDay /\ threshold = 0
    /\ received = {} /\ vouched = {}

-----------------------------------------------------------------------------
(* Main thread: fingerPrint, keys '1' and '3'. *)

\* findFinger matched a template: its page number is the employee's ID.
FingerMatched(i) ==
    /\ alive /\ mainPc = "idle" /\ scans < MaxScans
    /\ scans' = scans + 1
    /\ mainPc' = "write" /\ id' = i /\ timestamp' = now /\ attempts' = 0
    /\ UNCHANGED <<passVars, ledVars, clockVars, serverVars, worldVars,
                   tableVars, sqlMutex>>

\* A plausible slip: the keypad branch keeps the timestamp of an earlier scan.
KeypadTimestamp_Stale == 0

\* The timestamp is taken before the keypad is read.
KeypadTimestamp == now

\* findFinger returned FAILED: the employee types an ID, cancels (CANCEL, or
\* the code 000) or gives up (ERROR).
IDEntered(i) ==
    /\ alive /\ mainPc = "idle" /\ scans < MaxScans
    /\ scans' = scans + 1
    /\ mainPc' = "check" /\ id' = i
    /\ timestamp' = KeypadTimestamp
    /\ UNCHANGED <<attempts, passVars, ledVars, clockVars, serverVars,
                   worldVars, tableVars, sqlMutex>>

\* id > 0 && result: an ERROR of the query counts as "exists".
KeypadAccepts(i, result) == i > 0 /\ result # FAILED

\* The key has been handled; the locals of fingerPrint are gone, and so is the
\* use of the global timestamp, which every branch sets before it reads it.
BackToIdle ==
    mainPc' = "idle" /\ id' = CANCEL /\ attempts' = 0 /\ timestamp' = 0

\* DB_check_id_exists on the entered ID.  Enrolments and deletions change the
\* employees table at any time (module Roster), so the ID may be in it or not.
CheckID ==
    /\ alive /\ mainPc = "check" /\ sqlMutex = "free"
    /\ \E employees \in SUBSET {id} : \E result \in DB_check_id_exists(employees, id) :
          IF KeypadAccepts(id, result)
          THEN mainPc' = "writeKeypad" /\ UNCHANGED <<id, timestamp, attempts>>
          ELSE BackToIdle
    /\ UNCHANGED <<passVars, ledVars, clockVars,
                   serverVars, worldVars, tableVars, scans, sqlMutex>>

\* The INSERT both branches make.
InsertRow ==
    /\ attendance' = DB_write(attendance, nextRow, id, timestamp)
    /\ nextRow' = nextRow + 1

\* A plausible slip: the retry loop does not stop after a success.
AfterInsert_NoBreak ==
    IF attempts + 1 < MaxRetries
    THEN attempts' = attempts + 1 /\ UNCHANGED <<mainPc, id, timestamp>>
    ELSE BackToIdle

\* if (DB_write(...) == SUCCESS) break;
AfterInsert == BackToIdle

\* One iteration of the retry loop around DB_write after a finger match.
WriteSucceeds ==
    /\ alive /\ mainPc = "write" /\ sqlMutex = "free"
    /\ InsertRow
    /\ AfterInsert
    /\ UNCHANGED <<passVars, ledVars, clockVars, serverVars,
                   worldVars, scans, sqlMutex>>

\* The INSERT failed; after g_max_retries failures the scan is dropped.
WriteFails ==
    /\ alive /\ mainPc = "write" /\ sqlMutex = "free"
    /\ IF attempts + 1 < MaxRetries
       THEN attempts' = attempts + 1 /\ UNCHANGED <<mainPc, id, timestamp>>
       ELSE BackToIdle
    /\ UNCHANGED <<passVars, ledVars, clockVars, serverVars,
                   worldVars, tableVars, scans, sqlMutex>>

\* The keypad branch calls DB_write once and reports a failure on the LCD.
WriteKeypad ==
    /\ alive /\ mainPc = "writeKeypad" /\ sqlMutex = "free"
    /\ InsertRow \/ UNCHANGED tableVars
    /\ BackToIdle
    /\ UNCHANGED <<passVars, ledVars, clockVars, serverVars,
                   worldVars, scans, sqlMutex>>

-----------------------------------------------------------------------------
(* databaseThread: DB_find, then the LED, then a timed wait. *)

\* DB_find locks sqlMutex and prepares the SELECT.
FindBegin ==
    /\ alive /\ dbPc = "wait" /\ sqlMutex = "free"
    /\ sqlMutex' = "database"
    /\ dbPc' = "scan" /\ cursor' = 0 /\ check' = FALSE
    /\ scanned' = Unsent(attendance)
    /\ UNCHANGED <<mainVars, ledVars, clockVars, serverVars, worldVars,
                   tableVars, scans>>

\* The SELECT cannot be prepared: DB_find unlocks and returns ERROR.
FindFails ==
    /\ alive /\ dbPc = "wait" /\ sqlMutex = "free"
    /\ dbPc' = "count" /\ check' = FALSE
    /\ UNCHANGED <<cursor, scanned, mainVars, ledVars, clockVars, serverVars,
                   worldVars, tableVars, scans, sqlMutex>>

\* sqlite3_step returns SQLITE_ROW: the first unsent row after the cursor.
FindRow ==
    /\ alive /\ dbPc = "scan"
    /\ \E r \in RowsAhead(attendance, cursor) :
          /\ \A q \in RowsAhead(attendance, cursor) : r <= q
          /\ cursor' = r
    /\ dbPc' = "post"
    /\ UNCHANGED <<check, scanned, mainVars, ledVars, clockVars, serverVars,
                   worldVars, tableVars, scans, sqlMutex>>

\* A plausible slip: DB_find returns with the mutex held.
AfterFind_Held == "database"

\* pthread_mutex_unlock(&sqlMutex) at the end of DB_find.
AfterFind == "free"

\* sqlite3_step returns SQLITE_DONE, or an error in the middle of the scan.
FindEnd ==
    /\ alive /\ dbPc = "scan"
    /\ sqlMutex' = AfterFind
    /\ dbPc' = "count"
    /\ scanned' = {} /\ cursor' = 0
    /\ UNCHANGED <<check, mainVars, ledVars, clockVars, serverVars, worldVars,
                   tableVars, scans>>

\* send_json_data returns SUCCESS: the server has the row.  From here on the
\* answer stands, in the history, for every row of the same employee that this
\* scan found unsent: DB_update is about to mark them all.
PostConfirmed ==
    /\ alive /\ dbPc = "post"
    /\ received' = received \cup {cursor}
    /\ vouched' = vouched \cup
                  (scanned \cap RowsOf(attendance, attendance[cursor].ID))
    /\ dbPc' = "update"
    /\ UNCHANGED <<cursor, check, scanned, mainVars, ledVars, clockVars,
                   worldVars, tableVars, scans, sqlMutex>>

\* send_json_data fails: no connection, a status of 400 or more, or an answer
\* lost after the server had stored the row.
PostFailed ==
    /\ alive /\ dbPc = "post"
    /\ received' \in {received, received \cup {cursor}}
    /\ dbPc' = "scan"
    /\ UNCHANGED <<vouched, cursor, check, scanned, mainVars, ledVars,
                   clockVars, worldVars, tableVars, scans, sqlMutex>>

\* DB_update(id) and check = 1; sqlMutex is already held.
UpdateSucceeds ==
    /\ alive /\ dbPc = "update"
    /\ attendance' = DB_update(attendance, attendance[cursor].ID)
    /\ check' = TRUE
    /\ dbPc' = "scan"
    /\ UNCHANGED <<nextRow, cursor, scanned, mainVars, ledVars, clockVars,
                   serverVars, worldVars, scans, sqlMutex>>

\* DB_update logs an error of its UPDATE and returns; check is set anyway.
UpdateFails ==
    /\ alive /\ dbPc = "update"
    /\ check' = TRUE
    /\ dbPc' = "scan"
    /\ UNCHANGED <<cursor, scanned, mainVars, ledVars, clockVars, serverVars,
                   worldVars, tableVars, scans, sqlMutex>>

\* ++count, or 0 after a pass that sent something.  Only the value
\* g_max_retries is ever tested, so larger values are kept as MaxRetries + 1.
NextCount(c) == IF check THEN 0 ELSE IF c > MaxRetries THEN c ELSE c + 1

\* The LED after DB_find, then pthread_cond_timedwait.
CountPass ==
    /\ alive /\ dbPc = "count"
    /\ count' = NextCount(count)
    /\ led' = CASE check -> "off"
                [] ~check /\ count + 1 = MaxRetries -> "on"
                [] OTHER -> led
    /\ dbPc' = "wait" /\ check' = FALSE
    /\ UNCHANGED <<cursor, scanned, mainVars, clockVars, serverVars, worldVars,
                   tableVars, scans, sqlMutex>>

-----------------------------------------------------------------------------
(* clockThread: the purge of old records at a change of day. *)

\* A plausible slip: the months are not subtracted.
Threshold_Now(day) == day

\* timeinfo->tm_mon -= g_month; mktime(timeinfo)
Threshold(day) == day - Retention

\* A new loop: the day is compared with the day of the previous loop.  timeinfo
\* is the static buffer of localtime, into which DB_delete_old_records writes
\* the date it goes back to; where that month is too short for today's date,
\* lastDay is then another day and the next loop purges again.
ClockLoop ==
    /\ alive /\ clockPc = "loop" /\ lastDay # now
    /\ IF lastDay = NoDay
       THEN lastDay' = now /\ UNCHANGED <<clockPc, threshold>>
       ELSE /\ lastDay' \in {now, OtherDay}
            /\ clockPc' = "purge" /\ threshold' = Threshold(now)
    /\ UNCHANGED <<mainVars, passVars, ledVars, serverVars, worldVars,
                   tableVars, scans, sqlMutex>>

\* A plausible slip: the DELETE runs without waiting for sqlMutex.
PurgeMayRun_Unlocked == TRUE

\* pthread_mutex_lock(&sqlMutex) before the DELETE is prepared.
PurgeMayRun == sqlMutex = "free"

\* DB_delete_old_records; a failing DELETE is not retried before the next day.
Purge ==
    /\ alive /\ clockPc = "purge" /\ PurgeMayRun
    /\ clockPc' = "loop" /\ threshold' = 0
    /\ attendance' \in {attendance, DB_delete_old_records(attendance, threshold)}
    /\ UNCHANGED <<nextRow, lastDay, mainVars, passVars, ledVars,
                   serverVars, worldVars, scans, sqlMutex>>

-----------------------------------------------------------------------------
(* The world: time, crashes, restarts. *)

Tick ==
    /\ now < MaxTime
    /\ now' = now + 1
    /\ UNCHANGED <<mainVars, passVars, ledVars, clockVars, serverVars, alive,
                   crashes, tableVars, scans, sqlMutex>>

\* Power loss, a kill, or exit(EXIT_FAILURE) in UART_write or GPIO_open.
Crash ==
    /\ alive /\ crashes < MaxCrashes
    /\ alive' = FALSE /\ crashes' = crashes + 1
    /\ sqlMutex' = "free"
    /\ mainPc' = "idle" /\ id' = CANCEL /\ timestamp' = 0 /\ attempts' = 0
    /\ dbPc' = "wait" /\ cursor' = 0 /\ check' = FALSE /\ scanned' = {}
    /\ count' = 0
    /\ clockPc' = "loop" /\ lastDay' = NoDay /\ threshold' = 0
    /\ UNCHANGED <<led, serverVars, now, tableVars, scans>>

\* A plausible slip: main does not turn the LED off.
LedAtStart_Kept == led

\* GPIO_write(fd_led, LED_OFF) in main.
LedAtStart == "off"

\* systemd starts the process again: DB_open, then the LED, then the threads.
Restart ==
    /\ ~alive
    /\ alive' = TRUE
    /\ led' = LedAtStart
    /\ UNCHANGED <<count, mainVars, passVars, clockVars, serverVars, now,
                   crashes, tableVars, scans, sqlMutex>>

-----------------------------------------------------------------------------
MainThread ==
    \/ \E i \in IDs : FingerMatched(i)
    \/ \E i \in IDs \cup {CANCEL, ERROR} : IDEntered(i)
    \/ CheckID \/ WriteSucceeds \/ WriteFails \/ WriteKeypad

DatabaseThread ==
    \/ FindBegin \/ FindFails \/ FindRow \/ FindEnd
    \/ PostConfirmed \/ PostFailed \/ UpdateSucceeds \/ UpdateFails
    \/ CountPass

ClockThread == ClockLoop \/ Purge

World == Tick \/ Crash \/ Restart

Next == MainThread \/ DatabaseThread \/ ClockThread \/ World

Spec == Init /\ [][Next]_vars

-----------------------------------------------------------------------------
(* Fairness.  The scheduler runs a runnable thread, systemd restarts the    *)
(* process, and what is retried for ever eventually works: main gets the   *)
(* mutex, a SELECT is prepared and returns its rows, the server answers a  *)
(* POST and an UPDATE is executed.  Nothing obliges an INSERT, a sign-in,  *)
(* a crash or the passing of a day to happen.                              *)

MainRuns == SF_vars(CheckID \/ WriteSucceeds \/ WriteFails \/ WriteKeypad)

DatabaseRuns ==
    /\ WF_vars(DatabaseThread)
    /\ SF_vars(FindBegin) /\ SF_vars(FindRow)
    /\ SF_vars(PostConfirmed) /\ SF_vars(UpdateSucceeds)

FairSpec == Spec /\ WF_vars(Restart) /\ MainRuns /\ DatabaseRuns

-----------------------------------------------------------------------------
(* Properties *)

\* Type invariant: fingerPrint never records an employee number below 1 and
\* every variable stays in its range.
Row == [ID : IDs, Timestamp : 0..MaxTime, Saved : Saved]

TypeOK ==
    /\ alive \in BOOLEAN
    /\ now \in 0..MaxTime
    /\ scans \in 0..MaxScans
    /\ crashes \in 0..MaxCrashes
    /\ nextRow \in Nat \ {0}
    /\ DOMAIN attendance \subseteq 1..nextRow - 1
    /\ \A r \in DOMAIN attendance : attendance[r] \in Row
    /\ sqlMutex \in {"free", "database"}
    /\ mainPc \in {"idle", "check", "write", "writeKeypad"}
    /\ id \in IDs \cup {CANCEL, ERROR}
    /\ mainPc \in {"write", "writeKeypad"} => id \in IDs
    /\ timestamp \in 0..MaxTime
    /\ attempts \in 0..MaxRetries - 1
    /\ dbPc \in {"wait", "scan", "post", "update", "count"}
    /\ cursor \in Nat
    /\ check \in BOOLEAN
    /\ count \in 0..MaxRetries + 1
    /\ led \in {"on", "off"}
    /\ clockPc \in {"loop", "purge"}
    /\ lastDay \in {NoDay, OtherDay} \cup 0..MaxTime
    /\ threshold \in Int
    /\ received \subseteq Nat
    /\ scanned \subseteq Nat
    /\ vouched \subseteq Nat

\* A row is marked 'V' only by a pass of DB_find in whose SELECT it was still
\* unsent and in which the server answered the POST of a row of the same
\* employee.  No INSERT, purge, crash or failed POST can slip in between
\* (DB_find holds sqlMutex from the SELECT to the UPDATE).
SavedIsVouched ==
    \A r \in DOMAIN attendance : attendance[r].Saved = "V" => r \in vouched

\* While DB_find posts a row and updates it, the row it has read stays in the
\* table and stays unsent: the purge of clockThread cannot delete it under
\* the open SELECT.
CursorRowPresent ==
    dbPc \in {"post", "update"} => cursor \in Unsent(attendance)

\* Rows are stored in the order of their timestamps, although fingerPrint takes
\* the timestamp long before the INSERT (keypad entry, retries, waits for the
\* mutex): the table is what ORDER BY Timestamp would give.
ChronologicalRows ==
    \A q, r \in DOMAIN attendance :
        q < r => attendance[q].Timestamp <= attendance[r].Timestamp

\* A sign-in or sign-out is recorded at most once, however often its INSERT
\* is retried and wherever a crash falls.
OneRowPerScan ==
    nextRow - 1 + (IF mainPc = "idle" THEN 0 ELSE 1) <= scans

\* The LED is lit exactly while g_max_retries or more passes of DB_find in a row have
\* sent nothing since the process started, whether they failed or had nothing to
\* send: it goes on at the g_max_retries-th such pass only and off at the first that
\* sends something, and a crash forgets the counter but leaves the LED as it is.
\* (The comments of the code speak of failures only: see AttendanceLed.)
LedTracksStreak ==
    alive => (led = "on" <=> count >= MaxRetries)

\* A record disappears only when it is older than the retention period on the
\* day it is deleted.
PurgeOnlyOld ==
    [][\A r \in DOMAIN attendance \ DOMAIN attendance' :
          attendance[r].Timestamp < now - Retention]_vars

\* An unsent record is eventually sent or purged: one pass after the other,
\* DB_find gets to every row although a pass may stop at an error, an update
\* of one row changes the rows the open SELECT still sees, and new rows come.
UploadProgress ==
    \A r \in Rows : (r \in Unsent(attendance)) ~> (r \notin Unsent(attendance))

\* fingerPrint gets through: main, holding the display, is not blocked for ever
\* on sqlMutex by the passes of DB_find, and its retries end.
ScanEnds ==
    (mainPc # "idle") ~> (mainPc = "idle")

-----------------------------------------------------------------------------
(* Refinement *)

Book == [r \in DOMAIN attendance |->
            [ID |-> attendance[r].ID, Saved |-> attendance[r].Saved]]

Ledger == INSTANCE AttendanceLedger WITH
              book <- Book, issued <- nextRow - 1, received <- received

\* Threads, retries, lost answers and crashes together do to the table only
\* what the ledger allows: append one unsent row at the end, mark the rows of
\* one employee after the server has got an unsent row of that employee, and
\* remove rows from the old end without leaving a gap.
LedgerSpec == Ledger!Spec

-----------------------------------------------------------------------------
(* What comments of the code promise and the code does not keep *)

\* DB_update "updates the 'Saved' column of a record to 'V' indicating that it
\* has been successfully sent to the server".
SavedMeansSent ==
    \A r \in DOMAIN attendance : attendance[r].Saved = "V" => r \in received

=============================================================================
