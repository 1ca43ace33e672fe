------------------------------ MODULE DataBase ------------------------------
(***************************************************************************)
(* The SQL statements of Src/DataBase.c as operators on table values.      *)
(*                                                                         *)
(* The attendance table is a function from row numbers to rows: SQLite     *)
(* gives a new row a rowid above every existing one and an unordered       *)
(* SELECT visits rows by ascending rowid.  Row numbers are identities, so  *)
(* the model never reuses the number of a purged row.  The employees table *)
(* is the set of its ID column.  Direction and FPM are payload no property *)
(* reads, so a row leaves them out.                                        *)
(*                                                                         *)
(* Every statement runs in autocommit mode: it takes effect as a whole or, *)
(* when sqlite3_step or sqlite3_exec reports an error, not at all.  The    *)
(* operators below are the effects of the statements that succeed.         *)
(***************************************************************************)
EXTENDS Integers, Functions

\* Inc/defines.h: the results a Status_t or an int status can take.
FAILED  == 0
SUCCESS == 1
ERROR   == -1
CANCEL  == 0

\* The Saved column: 'X' until the row has been sent, then 'V'.
Saved == {"X", "V"}

-----------------------------------------------------------------------------
(* The attendance table *)

\* CREATE TABLE IF NOT EXISTS attendance, on the first start.
EmptyTable == [row \in {} |-> {}]

\* INSERT INTO attendance: the new row is unsent, Saved has DEFAULT 'X'.
DB_write(table, row, id, timestamp) ==
    [r \in DOMAIN table \cup {row} |->
        IF r = row THEN [ID |-> id, Timestamp |-> timestamp, Saved |-> "X"]
                   ELSE table[r]]

\* A plausible slip in DB_update: no WHERE clause at all.
DB_update_NoWhere(table, id) ==
    [r \in DOMAIN table |-> [table[r] EXCEPT !.Saved = "V"]]

\* A plausible slip in DB_update: the clause never matches a stored row.
DB_update_NoMatch(table, id) == table

\* UPDATE attendance SET Saved = 'V' WHERE ID = id: every row of the
\* employee, not only the row whose POST was answered.
DB_update(table, id) ==
    [r \in DOMAIN table |->
        IF table[r].ID = id THEN [table[r] EXCEPT !.Saved = "V"] ELSE table[r]]

\* A plausible slip in DB_delete_old_records: the comparison the wrong way round.
DB_delete_old_records_Flipped(table, threshold) ==
    Restrict(table, {r \in DOMAIN table : table[r].Timestamp <= threshold})

\* DELETE FROM attendance WHERE Timestamp < threshold, sent or not.
DB_delete_old_records(table, threshold) ==
    Restrict(table, {r \in DOMAIN table : table[r].Timestamp >= threshold})

\* The rows that SELECT ... WHERE Saved = 'X' returns.
Unsent(table) == {r \in DOMAIN table : table[r].Saved = "X"}

\* The rows of one employee.
RowsOf(table, id) == {r \in DOMAIN table : table[r].ID = id}

\* sqlite3_step of that SELECT: the scan of a table without an index tests
\* each row when it gets there, so a row that an UPDATE on the same connection
\* has marked meanwhile is passed over.  The rows still to be returned:
RowsAhead(table, cursor) == {r \in Unsent(table) : r > cursor}

-----------------------------------------------------------------------------
(* The employees table *)

\* SELECT 1 FROM employees WHERE ID = ?: SUCCESS or FAILED by membership,
\* ERROR when the statement cannot be prepared, FAILED when the step fails.
DB_check_id_exists(employees, id) ==
    {FAILED, ERROR} \cup (IF id \in employees THEN {SUCCESS} ELSE {})

=============================================================================
