------------------------------- MODULE Roster -------------------------------
(***************************************************************************)
(* Who is an employee: the employees table, the templates in the           *)
(* fingerprint sensor and the list the server keeps.  The main thread      *)
(* enrols (main.c, case '#'), post_requestThread deletes what the server   *)
(* asks for (process_response).  Each keeps the three stores in step by    *)
(* hand: a template is stored first, then the row, then the server is      *)
(* told, with a rollback; a deletion removes the row, then the template,   *)
(* then acknowledges, with a restore.                                      *)
(*                                                                         *)
(* Each DataBase.c call is atomic under sqlMutex and each HTTP request     *)
(* under httpMutex; what matters here is that the sequences of calls of    *)
(* the two threads interleave.  What can fail is chosen once, at the start, *)
(* so that each promise can name the failures it survives.                 *)
(***************************************************************************)
EXTENDS DataBase

CONSTANTS
    Persons,      \* people who put a finger on the sensor
    MaxRetries,   \* g_max_retries
    FaultSets,    \* the sets of kinds of failure to choose from
    MaxID,        \* bound: numbers the table gives out
    MaxCrashes    \* bound: crashes

\* "link": a command to the sensor hears the answer to another one, as Fingerprint
\* and FpmLink describe it; "sensor": it refuses, or its answer is lost.
FaultKinds == {"sql", "sensor", "link", "http", "crash"}

RosterAssumption ==
    /\ MaxRetries \in Nat \ {0}
    /\ FaultSets \subseteq SUBSET FaultKinds
    /\ MaxID \in Nat
    /\ MaxCrashes \in Nat

ASSUME RosterAssumption

VARIABLES
    faults,       \* what can fail this time; it stays as Init chooses it
    crashes,      \* crashes so far
    used,         \* history: numbers the table or the server has ever had
    employees,    \* the employees table
    seq,          \* its AUTOINCREMENT counter in sqlite_sequence
    templates,    \* the sensor's library: page -> person
    onServer,     \* employee numbers the server lists
    pending,      \* those of them the server wants deleted
    mainPc,       \* main thread: where case '#' is
    page,         \* its local id: the number and page being enrolled
    retries,      \* its local: failed POSTs
    delPc,        \* post_requestThread: where process_response is
    list,         \* the numbers of the JSON array not handled yet
    item          \* id_to_delete

world    == <<faults, crashes, used>>
stores   == <<employees, seq, templates>>
server   == <<onServer, pending>>
mainVars == <<mainPc, page, retries>>
delVars  == <<delPc, list, item>>
vars     == <<world, stores, server, mainVars, delVars>>

NoItem == 0

Init ==
    /\ faults \in FaultSets
    /\ crashes = 0 /\ used = {}
    /\ employees = {} /\ seq = 0 /\ templates = [p \in {} |-> {}]
    /\ onServer = {} /\ pending = {}
    /\ mainPc = "idle" /\ page = 0 /\ retries = 0
    /\ delPc = "wait" /\ list = {} /\ item = NoItem

\* A call that fails under the given kind of fault.
MayFail(kind) == kind \in faults

\* A command to the sensor may not be answered as it was carried out.
SensorFails == MayFail("sensor") \/ MayFail("link")

-----------------------------------------------------------------------------
(* Main thread: enrolment *)

\* A plausible slip: the next number is taken from the rows that are left.
NextID_MaxRow == 1 + CHOOSE m \in 0..MaxID :
    /\ m \in employees \cup {0}
    /\ \A i \in employees : i <= m

\* The counter is never set back.  (It has no row in sqlite_sequence before the
\* first INSERT; id stays 0 then, and 1 is right.)
NextID == seq + 1

\* getNextAvailableID: 0 when the query cannot be prepared, and 0 + 1 when
\* sqlite3_step fails, because only SQLITE_ROW is told from the rest.
AvailableIDs == {NextID} \cup (IF MayFail("sql") THEN {0, 1} ELSE {})

\* The sequence *# has been typed: id = getNextAvailableID().
EnrolStart ==
    /\ mainPc = "idle" /\ seq < MaxID
    /\ page' \in AvailableIDs
    /\ mainPc' = "enrol"
    /\ UNCHANGED <<world, stores, server, retries, delVars>>

\* Persons whose finger fingerFastSearch does not report as known.  When the
\* search fails, enrolling goes on as if nobody had been found.
Unknown == IF SensorFails THEN Persons ELSE Persons \ Range(templates)

\* The person's template is on the page, whatever was there.
StoreAt(p, who) ==
    templates' = [q \in DOMAIN templates \cup {p} |->
                     IF q = p THEN who ELSE templates[q]]

\* enrolling(id) returns SUCCESS.
EnrolSucceeds ==
    /\ mainPc = "enrol"
    /\ \E who \in Unknown : StoreAt(page, who)
    /\ mainPc' = "insert"
    /\ UNCHANGED <<world, employees, seq, server, page, retries, delVars>>

\* enrolling(id) returns something else: no finger, a known finger, a timeout.
\* When the answer to the STORE command is lost it returns FAILED (or, on an
\* answer it does not know, whatever is in the register) although the sensor
\* has stored the template.
EnrolFails ==
    /\ mainPc = "enrol"
    /\ \/ UNCHANGED templates
       \/ SensorFails /\ \E who \in Unknown : StoreAt(page, who)
    /\ mainPc' = "idle" /\ page' = 0
    /\ UNCHANGED <<world, employees, seq, server, retries, delVars>>

\* enrolling(id) returns SUCCESS although nothing is stored: it falls off its end
\* without a return statement after an unknown answer to the STORE command, and the
\* value happens to be 1; or the OK was the answer to another command.
EnrolReturnsGarbage ==
    /\ mainPc = "enrol" /\ SensorFails
    /\ mainPc' = "insert"
    /\ UNCHANGED <<world, stores, server, page, retries, delVars>>

\* DB_newEmployee: the table numbers the new row itself.  A failure is logged,
\* and main goes on.
NewEmployee ==
    /\ mainPc = "insert"
    /\ \/ employees' = employees \cup {seq + 1} /\ seq' = seq + 1
       \/ MayFail("sql") /\ UNCHANGED <<employees, seq>>
    /\ mainPc' = "send" /\ retries' = 0
    /\ used' = used \cup employees'
    /\ UNCHANGED <<faults, crashes, templates, server, page, delVars>>

\* send_json_new_employee succeeds.
Report ==
    /\ mainPc = "send"
    /\ onServer' = onServer \cup {page} /\ used' = used \cup onServer'
    /\ mainPc' = "idle" /\ page' = 0 /\ retries' = 0
    /\ UNCHANGED <<faults, crashes, stores, pending, delVars>>

\* A plausible slip: the rollback is due one failure too late.
RollbackDue_Late(n) == n > MaxRetries

\* retries == g_max_retries after the loop.
RollbackDue(n) == n = MaxRetries

\* It fails, perhaps after the server has stored the employee.
ReportFails ==
    /\ mainPc = "send" /\ MayFail("http")
    /\ onServer' \in {onServer, onServer \cup {page}}
    /\ used' = used \cup onServer'
    /\ IF retries + 1 < MaxRetries
       THEN retries' = retries + 1 /\ UNCHANGED <<mainPc, page>>
       ELSE IF RollbackDue(retries + 1)
            THEN mainPc' = "rollModel" /\ retries' = 0 /\ UNCHANGED page
            ELSE mainPc' = "idle" /\ page' = 0 /\ retries' = 0
    /\ UNCHANGED <<faults, crashes, stores, pending, delVars>>

\* A plausible slip: the rollback leaves the template in the sensor.
Forget_Nothing(p) == templates

\* The sensor without the template of page p.
Forget(p) == Restrict(templates, DOMAIN templates \ {p})

\* deleteModel(id) of the rollback; its result is ignored.
RollbackModel ==
    /\ mainPc = "rollModel"
    /\ \/ templates' = Forget(page)
       \/ SensorFails /\ UNCHANGED templates
    /\ mainPc' = "rollRow"
    /\ UNCHANGED <<world, employees, seq, server, page, retries, delVars>>

\* DB_delete(id) of the rollback; its result is ignored.
RollbackRow ==
    /\ mainPc = "rollRow"
    /\ \/ employees' = employees \ {page}
       \/ MayFail("sql") /\ UNCHANGED employees
    /\ mainPc' = "idle" /\ page' = 0
    /\ UNCHANGED <<world, seq, templates, server, retries, delVars>>

-----------------------------------------------------------------------------
(* The server, as the code in curl_client.c uses it *)

\* Somebody marks an employee for deletion.
RequestDeletion ==
    /\ \E i \in onServer \ pending : pending' = pending \cup {i}
    /\ UNCHANGED <<world, stores, onServer, mainVars, delVars>>

-----------------------------------------------------------------------------
(* post_requestThread: deletion *)

\* send_get_request succeeds with a list of employee numbers.  A failure only
\* repeats the request.
GetList ==
    /\ delPc = "wait"
    /\ list' = pending
    /\ delPc' = "next"
    /\ UNCHANGED <<world, stores, server, mainVars, item>>

\* A plausible slip: no acknowledgment for a number that is not in the table.
AfterCheck_NoAck(result) == IF result = SUCCESS THEN "delRow" ELSE "next"

\* Another one: the acknowledgment comes before the deletion.
AfterCheck_AlwaysAck(result) == "ack"

\* Only SUCCESS of DB_check_id_exists leads to a deletion; FAILED and ERROR both
\* lead to the acknowledgment "removed from the server only".
AfterCheck(result) == IF result = SUCCESS THEN "delRow" ELSE "ack"

\* What DB_check_id_exists can answer.
CheckResults(i) ==
    IF MayFail("sql") THEN DB_check_id_exists(employees, i)
    ELSE {IF i \in employees THEN SUCCESS ELSE FAILED}

\* The next element of the array; the order is the server's.
CheckItem ==
    /\ delPc = "next"
    /\ \E i \in list : \E result \in CheckResults(i) :
          /\ item' = i
          /\ list' = list \ {i}
          /\ delPc' = AfterCheck(result)
    /\ UNCHANGED <<world, stores, server, mainVars>>

\* The array has been processed.
ListDone ==
    /\ delPc = "next" /\ list = {}
    /\ delPc' = "wait" /\ item' = NoItem
    /\ UNCHANGED <<world, stores, server, mainVars, list>>

\* DB_delete succeeds.
DeleteRow ==
    /\ delPc = "delRow" /\ item \in employees
    /\ employees' = employees \ {item}
    /\ delPc' = "delModel"
    /\ UNCHANGED <<world, seq, templates, server, mainVars, list, item>>

\* DB_delete fails, or finds that the row has gone meanwhile.
DeleteRowFails ==
    /\ delPc = "delRow" /\ (item \notin employees \/ MayFail("sql"))
    /\ delPc' = "next"
    /\ UNCHANGED <<world, stores, server, mainVars, list, item>>

\* deleteModel succeeds.
DeleteModel ==
    /\ delPc = "delModel"
    /\ templates' = Forget(item)
    /\ delPc' = "ack"
    /\ UNCHANGED <<world, employees, seq, server, mainVars, list, item>>

\* deleteModel returns SUCCESS, but the OK was the answer to a command of main.
DeleteModelMisheard ==
    /\ delPc = "delModel" /\ MayFail("link")
    /\ delPc' = "ack"
    /\ UNCHANGED <<world, stores, server, mainVars, list, item>>

\* deleteModel fails, perhaps after the sensor has deleted the template.
DeleteModelFails ==
    /\ delPc = "delModel" /\ SensorFails
    /\ templates' \in {templates, Forget(item)}
    /\ delPc' = "restore"
    /\ UNCHANGED <<world, employees, seq, server, mainVars, list, item>>

\* A plausible slip: the row is not put back.
Restored_Not == employees

\* INSERT INTO employees (ID) VALUES (id).
Restored == employees \cup {item}

\* DB_restore, which may fail.
RestoreRow ==
    /\ delPc = "restore"
    /\ \/ employees' = Restored
       \/ MayFail("sql") /\ UNCHANGED employees
    /\ delPc' = "next"
    /\ UNCHANGED <<world, seq, templates, server, mainVars, list, item>>

\* The server strikes the employee off.
StrikeOff == onServer' = onServer \ {item} /\ pending' = pending \ {item}

\* send_json_ack_delete succeeds.
Acknowledge ==
    /\ delPc = "ack"
    /\ StrikeOff
    /\ delPc' = "next"
    /\ UNCHANGED <<world, stores, mainVars, list, item>>

\* It fails, perhaps after the server has acted on it; process_response gives
\* up the rest of the array.
AcknowledgeFails ==
    /\ delPc = "ack" /\ MayFail("http")
    /\ StrikeOff \/ UNCHANGED server
    /\ delPc' = "wait" /\ list' = {} /\ item' = NoItem
    /\ UNCHANGED <<world, stores, mainVars>>

-----------------------------------------------------------------------------
\* A crash and the restart: the table, the sensor and the server are as they
\* were, the threads start over.
CrashAndRestart ==
    /\ MayFail("crash") /\ crashes < MaxCrashes
    /\ crashes' = crashes + 1
    /\ mainPc' = "idle" /\ page' = 0 /\ retries' = 0
    /\ delPc' = "wait" /\ list' = {} /\ item' = NoItem
    /\ UNCHANGED <<faults, used, stores, server>>

Enrolment ==
    \/ EnrolStart \/ EnrolSucceeds \/ EnrolFails \/ EnrolReturnsGarbage
    \/ NewEmployee \/ Report \/ ReportFails \/ RollbackModel \/ RollbackRow

Deletion ==
    \/ GetList \/ CheckItem \/ ListDone \/ DeleteRow \/ DeleteRowFails
    \/ DeleteModel \/ DeleteModelMisheard \/ DeleteModelFails \/ RestoreRow
    \/ Acknowledge \/ AcknowledgeFails

Next == Enrolment \/ RequestDeletion \/ Deletion \/ CrashAndRestart

Spec == Init /\ [][Next]_vars

-----------------------------------------------------------------------------
(* Fairness: post_requestThread keeps running and asking, and a command to   *)
(* the sensor or an acknowledgment that is repeated for ever succeeds in    *)
(* the end.  Nobody has to enrol or to ask for a deletion.                  *)
FairSpec ==
    /\ Spec
    /\ WF_vars(Deletion)
    /\ SF_vars(DeleteModel) /\ SF_vars(Acknowledge)

-----------------------------------------------------------------------------
(* Properties *)

\* Type invariant: among other things, DB_restore and DB_newEmployee together
\* never put a number into the table that its counter has not reached, and main
\* enrols on page 0 or 1 out of turn only when a query can fail.
TypeOK ==
    /\ faults \in FaultSets
    /\ crashes \in 0..MaxCrashes
    /\ seq \in 0..MaxID
    /\ employees \subseteq 1..seq
    /\ DOMAIN templates \subseteq 0..MaxID
    /\ \A p \in DOMAIN templates : templates[p] \in Persons
    /\ used \subseteq 0..MaxID
    /\ onServer \subseteq 0..MaxID
    /\ pending \subseteq onServer
    /\ mainPc \in {"idle", "enrol", "insert", "send", "rollModel", "rollRow"}
    /\ page \in 0..MaxID
    /\ mainPc \in {"enrol", "insert"} =>
          /\ seq < MaxID
          /\ page = seq + 1 \/ (MayFail("sql") /\ page \in {0, 1})
    /\ retries \in 0..MaxRetries - 1
    /\ delPc \in {"wait", "next", "delRow", "delModel", "restore", "ack"}
    /\ list \subseteq 0..MaxID
    /\ item \in 0..MaxID
    /\ delPc \in {"delModel", "restore"} => item \in 1..seq

\* Unless a query can fail, a number that has ever been an employee's, in the table
\* or on the server's list, is never given to another person, and the template
\* stored under it is never replaced: not after its row has been deleted, rolled
\* back or restored, the server has struck it off or never answered, or the process
\* has died between template, row and report.  Otherwise a dismissed employee's
\* attendance would be booked to a successor.  (A number that only a template has
\* had, because enrolling failed or the process died before the INSERT, is given
\* out again.  With a failing query the code keeps nothing of this: AvailableIDs
\* is page 1, or NewEmployee leaves the counter where it was.)
FreshPages ==
    [][MayFail("sql") \/ \A p \in DOMAIN templates' :
          \/ p \in DOMAIN templates /\ templates'[p] = templates[p]
          \/ p \notin used]_vars

\* The table and the sensor name the same people, except for the one number an
\* enrolment, a rollback or a deletion has in hand, as long as only HTTP fails:
\* the two threads cannot trip over each other, not even when the server asks
\* for the deletion of an employee whose enrolment is being retried.
InStep ==
    \A p \in 0..MaxID :
        /\ p \in employees /\ p \notin DOMAIN templates =>
              mainPc = "rollRow" /\ page = p
        /\ p \in DOMAIN templates /\ p \notin employees =>
              \/ mainPc = "insert" /\ page = p
              \/ delPc = "delModel" /\ item = p

RosterAgreement == faults \subseteq {"http"} => InStep

\* When main is not enrolling, the server knows every employee: an enrolment
\* the server may not have heard of is rolled back.  Only a failing query or the
\* death of the process can prevent that.
EmployeesReported ==
    faults \cap {"sql", "crash"} = {} =>
        (mainPc = "idle" => employees \subseteq onServer)

\* Unless a query can fail, the server strikes an employee off only when the row
\* is gone from the table, although the row may be restored, the same number may
\* be in two lists and acknowledgments get lost and are repeated.
StruckOffAreGone ==
    [][MayFail("sql") \/ \A i \in onServer \ onServer' : i \notin employees]_vars

\* A template under a number the table has used belongs to an employee: a
\* deletion that fails in the sensor, and nowhere else, is undone in the table.
Owners ==
    \A p \in DOMAIN templates \cap (1..seq) :
        p \notin employees => delPc \in {"delModel", "restore"} /\ item = p

NoOrphan == faults \subseteq {"sensor"} => Owners

\* Unless a query can fail, a deletion the server asks for is carried out and
\* acknowledged in the end, although each lost acknowledgment throws away the rest
\* of the list, deletions are undone, answers misheard and the process may die.
DeletionHonoured ==
    \A i \in 1..MaxID :
        (~MayFail("sql") /\ i \in pending) ~> (i \notin pending /\ i \notin employees)

-----------------------------------------------------------------------------
(* What a comment of the code promises and the code does not keep           *)

\* "If ID does not exist in the database, send acknowledgment": an
\* acknowledgment is sent only for a number that is not in the table.
AcknowledgedMeansAbsent == delPc = "ack" => item \notin employees

=============================================================================
