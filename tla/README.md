# Verification of the fingerprint attendance terminal

This directory holds TLA+ modules that model the attendance terminal in `src/`,
TLC configurations that check them on small instances, and TLAPS proofs of what
matters most for every value of the constants. All definitions are translated
from the source; `PROJECT.json` maps each one to its lines, and lists the runs,
the mutants, the hazards and the theorems.

    tlc -workers 2 -config MCAttendance.cfg MCAttendance      # a run
    tlapm Attendance_proofs.tla                               # the proofs

## 1. The system and its inventory

One C process on a single-board computer. Employees put a finger on a UART
fingerprint sensor (or type a three-digit number); the sign-in is stored in a
SQLite file, posted to an HTTP server, and purged months later. The server can
ask for the deletion of employees. systemd restarts the process
(`Restart=always`).

Four threads: the main thread (`fingerPrint`, main.c), `clockThread`,
`databaseThread` and `post_requestThread` (threads.c), and a SIGINT handler.
They share three mutexes that matter (`displayMutex`, `sqlMutex`, `httpMutex`),
one condition variable with a real signaller (`displayCond`), one SQLite
connection, the LCD, and, without any mutex, the descriptor of the sensor.

| Component | State | Operations | Interacts with | Hard behaviour | What makes it correct |
|---|---|---|---|---|---|
| Attendance records (main.c cases '1', '3'; DataBase.c; threads.c) | `attendance` table, retry counter, `count`, LED, day of the last purge | `DB_write`, `DB_find`, `DB_update`, `DB_delete_old_records`, LED | main inserts, databaseThread posts and marks, clockThread purges, all under `sqlMutex` | lost answers, crash between POST and UPDATE, purge during an open SELECT, retries | no record marked without an answer, no duplicates, purge removes only old rows, everything is sent in the end |
| Employee roster (main.c case '#', `process_response`, FP_*.c) | `employees` table and its AUTOINCREMENT counter, the sensor's library, the server's list | enrolment with rollback, deletion with restore and acknowledgment | main and post_requestThread change all three stores, by sequences of atomic calls | interleaved sequences, failure of any step, lost acknowledgment, crash in between | numbers never name another person; stores agree; deletions are carried out |
| Keyboard (main.c menu, keypad.c) | `inputSequence`, `seqIndex`; the line, `digit_count`, the minute | menu keys, `checkNewEmployeeSequence`, `enter_ID_keypad` | main only | indices that outlive a key, erase/discard/cancel in any order, a read that fails, a minute that passes in a blocking read | indices stay in their buffers; `*#` recognised after a star; what is entered is what was typed |
| Mutexes and requests (threads.c, curl_client.c, main.c, DataBase.c) | owner of each mutex | every lock, unlock, timed wait and signal | all threads | nested locks, error paths, a second unlock, condition variable | exclusion, every path unlocks, no circle of waiting, nobody waits for ever |
| HTTP requests and JSON (curl_client.c) | handle, response buffer | post, get, delete, `process_response` | server, database, sensor | each result it can have | part of the rows above |
| Fingerprint procedures (FP_*.c) | image and character buffers and library of the sensor | `enrolling`, `findFinger`, `deleteModel` | packet.c, LCD | loops without a limit, ignored results, codes without a case | what a procedure reports is true of the library; only models are stored; each procedure ends |
| Sensor link (packet.c, UART.c) | bytes not yet read, `pData` and retries of each caller | commands, `GetFromUart`, `UART_read` | main and post_requestThread without a mutex | replies taken by the wrong thread or half each, short reads that drop bytes, late replies | an undisturbed command gets its own reply and leaves nothing behind |
| Clock thread and LCD (threads.c, lcd20x4_i2c.c, I2C.c) | localtime buffer; `currentX`, `currentY`, the display | time display, purge at a new day, `puts`, `print`, `clear` | main by `displayCond`; `deleteModel` without a mutex | timed waits against signals; a clear in the middle of a text | a text that is left alone can be read |
| Start, shutdown, signals (main.c, signal_handlers.c) | descriptors, flags, stop variable | `init`, `cleanup_resources`, SIGINT | everything | partial initialization and retries; a handler that takes locks and joins threads; destroyed mutexes | each attempt starts with no device open; a signal ends the process |
| GPIO, buzzer (GPIO.c) | descriptors of the pins | open, write, close | databaseThread, main | a close by pin number, a descriptor leaked in each pass | the leak stops, and hits nobody's file but one at the pin's number |
| Configuration, logging, build | - | - | - | none (read once before threads start; output only) | not modelled |

## 2. The modules

| Module | What it models |
|---|---|
| `DataBase` | The SQL statements of DataBase.c as operators on table values. A table is a function from row numbers to rows; a failing statement has no effect (autocommit). |
| `Attendance` | The life of an attendance record: main, databaseThread and clockThread at the grain of `sqlMutex`, the server's view, crashes and restarts, days. |
| `AttendanceLedger` | The abstract specification: a ledger whose pages are added, delivered, closed and torn out. `Attendance!LedgerSpec` is the refinement. |
| `AttendanceLed` | `Attendance` with a count of failures to send data, for what the comments of `databaseThread` say of the LED. |
| `Roster` | Enrolment and deletion over the employees table, the sensor's library and the server, with the kinds of failure chosen at the start. |
| `LineEditor` | The abstract specification of the number entry: what each key that is read does to the line and to the result. |
| `Keyboard` | The menu keys with the buffer of `*#`, and `enter_ID_keypad`; `Keyboard!EditorSpec` is the refinement to `LineEditor`. |
| `Locks` | Every lock, unlock, signal and timed wait of the four threads on the three mutexes, including the error path of `send_post_request` that forgets its unlock and the second unlock of `send_get_request`. |
| `Packet` | The packet codec of packet.c: what `SendToUart` writes and what `GetFromUart` accepts. |
| `CommandLink` | The abstract specification of a command to the sensor, and the link under `Fingerprint`. |
| `FpmLink` | The line to the sensor byte by byte, shared by two threads; `FpmLink!CommandSpec` is the refinement to `CommandLink`. |
| `Fingerprint` | `enrolling`, `findFinger` and `deleteModel` command by command, over `CommandLink`, with the sensor's buffers and library; `Fingerprint!LibrarySpec` is the refinement to `SensorLibrary`. |
| `SensorLibrary` | The abstract specification of the procedures: jobs that write one page of the library and what their results mean. |
| `Process` | One process from start to exit: `init` with its retries, the table of descriptors, the threads as far as they open, close and wait, and the SIGINT handler. |
| `Lcd` | Texts on the display character by character. |
| `MC...` | Values of constants for TLC. |
| `..._proofs` | Theorems and proofs. |

The modules divide the program by what threads share. `Attendance` and `Roster`
take the sections of `sqlMutex` and `httpMutex` as atomic, which `Locks`
justifies for `sqlMutex` (`SectionsExclusive` is proved for every size).
`Locks` in turn lets the body of a section return anything it may return in the
other two modules. `Attendance` knows the roster only by the answer of
`DB_check_id_exists`, which is arbitrary because `Roster` may have changed the
employees table since.

Down to the sensor there are three layers. `FpmLink` shows that bytes on the line
amount to `CommandLink`; `Fingerprint` extends `CommandLink` and shows that the
procedures amount to `SensorLibrary`; `Roster` and `Attendance` take each procedure
as one step with every result. In `SensorLibrary` images, buffers and single
commands are gone: a job writes at most one page, its own, and ends with a result,
which is true unless there is cause for doubt. That is when the truthful results of
`Roster` (`EnrolSucceeds`, `DeleteModel`) are the only ones. That several steps of
`SensorLibrary` amount to one of `Roster` is not proved: the other thread may delete
a page while an enrolment goes on. Beyond that `Roster` has two kinds of failure: "sensor" for a command
that is refused or whose answer is lost, and "link" for one that hears the answer
to another (`SensorFails`, `EnrolReturnsGarbage`, `DeleteModelMisheard`). Its
`NoOrphan` and `RosterAgreement` hold only while the link is undisturbed; two
threads that use the sensor at the same time are enough to disturb it.

### How the state corresponds to the code

*Attendance.* `mainPc`, `id`, `timestamp`, `attempts` are the position and
locals of `fingerPrint`; `dbPc`, `cursor`, `check` of `DB_find`; `count` and
`led` of `databaseThread`; `clockPc`, `lastDay`, `threshold` of `clockThread`
and `DB_delete_old_records`. `sqlMutex` is a variable only because `DB_find`
keeps it across the POSTs of a pass; the other functions of DataBase.c lock and
unlock within one step. `scanned` and `vouched` are history. Each action is one
atomic stretch: one call of a DataBase.c function, one POST, one pass of a loop.
`received` is what the server has stored, also when its answer was lost.

*Roster.* `mainPc`, `page` and `retries` are case '#' of `fingerPrint`; `delPc`,
`list`, `item` the loop of `process_response`. Each store is changed by one
call at a time, and every call that the code ignores the result of may fail
(`RollbackModel`, `RollbackRow`, `NewEmployee`, `RestoreRow`). `enrolling` has
three outcomes, the third (`EnrolReturnsGarbage`) because it falls off its end
without a `return` on an unknown answer. `getNextAvailableID` returns 0 when its query
cannot be prepared and 1 when the step fails (`AvailableIDs`), and `enrolling`
then stores over whatever is on that page. `faults` is chosen by `Init` from
`FaultSets` and never changes: one run then covers many sets of kinds of failure,
and each property names those it survives. `used` is history: the numbers the
table or the server's list has ever had.

*Keyboard.* `place` says who reads the next key. `inputSequence`, `seqIndex` and
`code`, `digit_count` are the C variables; a store through an index is modelled
with a function whose domain grows when the index is out of range, so `TypeOK`
is the claim that no index leaves its buffer. `armed` and `heard` are history:
`heard` is the key `enter_ID_keypad` has read last, with a bit that turns at each key,
and is a variable of `LineEditor` too. A key that is read is therefore a step of
`LineEditor` in which just this key takes effect: dropping it, or doing it twice, is no
stutter. `Mode` and `Line` are what `LineEditor` sees of `place`, `code` and
`digit_count`.

*Locks.* `owner` maps each mutex to who locked it; `place` each thread to where
it is. Unlocking frees the mutex whoever holds it, as a default pthread mutex
does. `leaked` is history: `send_post_request` has returned without its unlock.

*FpmLink.* `line` holds the bytes the sensor has sent and nobody has read. A
thread in `GetFromUart` is at "header" or "body" (the two calls of `UART_read`),
`header` and `tries` are its `pData` and `retries_UART_read`. `read(2)` waits for
one byte (`VMIN` is 1), so it may return fewer bytes than there will be; `FallShort`
is such a read, whose bytes the code drops. `Answered` and `Fault` are the sensor.
`answer`, `sent` and `disturbed` are history: an overlap, a fault or a short read
disturbs the link until nobody asks and no byte is left.

*Fingerprint.* `image`, `char` and `library` are ImageBuffer, the CharBuffers and
the flash memory of the sensor; a template is reduced to whose finger it is and
whether it was made of two scans. `place` is where a thread is in its procedure,
`page` its argument. The sensor carries a command out in one step (`Sends`,
`IsRefused`), the thread hears the answer in another (`Hear...`), and
post_requestThread may come between. `late` stands for the minute (or ten seconds)
of a loop, which the code looks at before it asks. An answer without a case in the
`switch` over `storeModel` ends `enrolling` without a `return`: the result is
chosen. `num` of `findFinger` has two characters, and a number of two digits
overwrites its neighbour: the number read back is chosen.

*Process.* `table` is the kernel's table of descriptors, `fd` the global
descriptor variables and `fd_led` of the present pass, `temp` the one temporary
file a thread has open (a journal of SQLite, a socket of libcurl, the buzzer).
`ready` and `pins` are the flags `..._initialized`. `at` says where each thread is;
the main thread is in one of the places of start, at a key, or in the signal
handler, which runs on its stack. `collided` is history.

*Lcd.* `screen` and `cursor` are the display's memory and address counter; `next`,
`left`, `currentX`, `currentY` the loop of `lcd20x4_i2c_puts`. A text is a sequence
of letters and spaces, as line breaks depend on nothing else; the letters shown
carry the number of their text and their place in it.

## 3. Runs

| Run | Module, bounds | What it asks | Result |
|---|---|---|---|
| `attendance` | two employees, two scans, days 0..2, one crash | `SavedIsVouched`, `CursorRowPresent`, `ChronologicalRows`, `OneRowPerScan`, `LedTracksStreak`, `PurgeOnlyOld`, refinement `LedgerSpec` | hold (651 thousand states) |
| `attendance_live` | one employee, two scans, one crash, `FairSpec` | `UploadProgress`, `ScanEnds` | hold |
| `roster` | two persons, two numbers, two crashes, the 16 sets of kinds of failure without failing queries, and failing queries with HTTP or with the sensor, `FairSpec` | `RosterAgreement`, `EmployeesReported`, `NoOrphan`, `FreshPages`, `StruckOffAreGone`, `DeletionHonoured` | hold (648 thousand states) |
| `keyboard` | three digit keys, numbers of three digits | `TypeOK` (the buffer indices), `SequenceIsArmed`, refinement `EditorSpec` | hold (125 thousand states) |
| `locks` | two attempts, one row in a pass, two elements in a list, `FairSpec` | `SectionsExclusive`, `LocksReleased`, `NoWaitCycle`, `KeysHandled`, `PassesEnd`, `ListsAskedFor` | hold (96 thousand states) |
| `link` | two threads, three commands, replies of one and three bytes, one short read, one fault, two attempts of a read, `FairSpec` | `InStep`, `OwnAnswer`, `RepliesAreReal`, `CommandsReturn`, refinement `CommandSpec` | hold (117 thousand states) |
| `fingerprint` | two fingers, two pages of which one is searched, two procedures, two events, `FairSpec` | `EnrolTellsTruth`, refinement `LibrarySpec`, `NoSecondTemplate`, `MatchIsTrue`, `DeletedIsGone`, `ProceduresEnd` | hold (162 thousand states) |
| `process` | eleven descriptors, the LED's pin is 8, three attempts of init, two temporary files at once, `FairSpec` | `DevicesInHand`, `PinHarmBounded` (`StolenOnlyAtPin` and `LeakStopsAtPin`), `ShutdownEnds` | hold (287 thousand states) |
| `lcd` | six texts the program shows, two in a row, one lost write or foreign clear | `TextShown`, `Room` | hold (79 thousand states) |
| `saved_means_sent` | Attendance | "successfully sent to the server" (DataBase.c:242) | violated |
| `ack_means_absent` | Roster | "If ID does not exist in the database, send acknowledgment" (curl_client.c:553) | violated |
| `led_means_failures` | AttendanceLed | "If it fails to send data 10 times in a row, it turns on a LED indicator" (threads.c:75) | violated |

The type invariant of each module is proved (section 4); `keyboard` checks it too,
because there it says that no index leaves its buffer. `Room` is of another kind than the
rest: it says of the texts, and of the cursor the code gives them, that each
mark has a place when its turn comes, and `TextShown` depends on it. The run has six
texts that differ in how lines break; all the texts of the program are in
`ProgramTexts`, and the assumption `ProgramTextsFit` of `MCLcd` evaluates for each of
them the condition `HasRoom`, from which section 4 proves `Room`. Every
property has a mutant, a plausible slip in the code under which TLC finds it violated.

### Why the bounds are enough

* With two employees and two scans `UPDATE ... WHERE ID = ?` meets two rows of
  the same employee in some behaviours, and a row to hit and a row of somebody
  else to spare in others.
  One crash suffices for every state a crash can leave, since memory is lost
  altogether; days 0..2 give a row that is purged, one that is just kept and a
  change of day during a pass. The counter of passes that sent nothing is kept up to
  `MaxRetries + 1`, because only equality with `g_max_retries` is tested.
* Two numbers and two persons in `Roster` let one be enrolled while the other is
  deleted. Two attempts distinguish a retry from the last one. Two crashes
  allow a crash in the repair of a crash. Every promise excepts failing queries, so
  the sets of failures that contain them need only reach each of their steps: there
  are two.
* In `Keyboard` one digit signs in, one signs out and one does neither; a line
  of three digits (`MAX_LENGTH_ID` itself) has a first, an inner and a last
  place.
* In `Locks` one row of a pass makes `httpMutex` be taken under `sqlMutex`, and
  two elements let the loop of `process_response` go on after an element.
* In `FpmLink` three commands let a reply be left over, taken by the next command
  and its own be left over in turn. Replies of different lengths make a window of
  bytes fall across two of them. One short read and one fault give every single
  departure, and the overlap of two threads comes on top.
* In `Fingerprint` one page is outside the search, as pages from 163 on are. Two
  fingers tell a match from another one, and a mismatch of two scans from a match.
  Two procedures are an enrolment and the deletion that rolls it back, a deletion by
  post_requestThread during either, or an enrolment and a search for the same
  finger; `Libraries` gives the pages other contents from earlier runs.
* In `Process` three attempts give a stale flag (from the first) its chance in the
  second and third. Devices, database and file take the numbers 3 to 7, so that
  the pin's number 8 is the first a pass gets (the second, when the file could not be
  opened); temporary files of other threads may come before it, and 9 and 10 are
  left for them above it.
* In `Lcd` the texts are those that touch a line break, a full row, a double space,
  or `lcd20x4_i2c_print`. A text only sees what the one before has left. By
  `PlacesAssumption` the places where they begin are among those whose address
  `lcd20x4_i2c_setCursor` computes rightly, as all that the code names are.
* The proofs do not depend on any of these values.

### Fairness

* `Attendance!FairSpec`: `databaseThread` is never blocked for good by its own
  timed wait (weak fairness); it gets `sqlMutex`, which is free again and again,
  and a server that is asked again and again answers in the end (strong
  fairness of `FindBegin`, `FindRow`, `PostConfirmed`, `UpdateSucceeds`).
  systemd restarts the process. `MainRuns` is strong because main competes for
  `sqlMutex`. No fairness on INSERT success, sign-ins, days or crashes.
* `Roster!FairSpec`: `post_requestThread` runs, and a deletion in the sensor and
  an acknowledgment that are repeated for ever succeed in the end.
* `Locks!FairSpec`: strong fairness of each thread. The scheduler is preemptive
  and a waiter of a mutex that is released again and again gets it eventually;
  glibc does not promise first come first served, but every holder sleeps or
  waits for a device between two acquisitions. Nobody has to press a key.
* `FpmLink!FairSpec`: a thread that can read does. There is no fairness of the
  sensor, because `CommandsReturn` claims nothing once a reply has been lost:
  `read(2)` then waits without a limit.
* `Fingerprint!FairSpec`: commands return, which `CommandsReturn` justifies for an
  undisturbed link (`ProceduresEnd` claims nothing for another); the clock goes on.
  Strong fairness of `Sends`: a sensor asked again and again does not refuse for
  ever. `FingerGone`: people take their finger off.
* `Process!FairSpec`: the handler and the threads go on and timed waits end;
  threads are strong because they compete for `displayMutex`. A thread at work
  closes its file, that is, server and sensor answer. No fairness of keys or of
  the signal.
* One assumption of the environment is in all of them: a request returns. The
  code sets no `CURLOPT_TIMEOUT`, so a server that accepts a connection and
  stays silent would stop `databaseThread` with `sqlMutex` held, and main behind it
  at its next record. No property covers that case.

## 4. Proofs

All constants are arbitrary, subject to the named assumptions in the modules
(`ConstantsAssumption`, `RosterAssumption`, `KeyboardAssumption`,
`LocksAssumption`, `FpmLinkAssumption`, `FingerprintAssumption`,
`AnswersAssumption`, `ProcessAssumption`, `LcdAssumption`, `PlacesAssumption`), the
most important of which is `MaxRetries # 0`: main
exits before any thread starts when `g_max_retries` is 0. Two theorems on the display
say more in their statement: `TextsFit`, that every text meets `HasRoom`.

**`Attendance_proofs`**: `TypeCorrect`, `SavedVouched`, `CursorPresent`,
`Chronological`, `OneRow`, `LedStreak`, `PurgeOld`, `ImplementsLedger`.
None of the invariants is inductive alone. `SavedIsVouched` and
`CursorRowPresent` need `PassInv`: while a pass is on, the mutex is held by it
and every row unsent now was unsent when its SELECT began, so that the rows
`UPDATE` marks are the ones the answer vouches for.
`ChronologicalRows` needs `OrderInv`: the timestamp main carries is not older
than any stored row and not later than now, which holds because main alone
inserts.
`LedInv` keeps LED and counter of the passes that sent nothing together across a restart, `ThresholdInv` bounds
the threshold that was computed before the mutex was acquired. `LedgerSpec`
then follows step by step: an action maps to the ledger's action of the same
meaning or to a stutter.

**`Roster_proofs`**: `TypeCorrect`, `FreshNumbers`, `StruckOff`, `Reported`,
`Agreement`, `Orphans`. The key is `NumberInv`: unless a query fails, the number
main is enrolling is `seq + 1` before the INSERT and a used one after it, and
everything the server lists is a used number (`UsedNumbers`: so is all the table or the server has ever had), so the number in main's hand
before the INSERT and the one in the deletion thread's hand differ.
`ReportedInv`, `AgreementInv` and `OrphanInv` add what each property needs. The
theorems hold for all sets of failures; a property that a kind of failure
breaks says so in its antecedent (`faults \subseteq {"http"}` and the like). With a
failing query nothing is left of `FreshPages` (section 5), so `FreshNumbers` excepts it;
`TypeCorrect` says which pages an enrolment can then be on.

**`Keyboard_proofs`**: `TypeCorrect` (which bounds the indices), `SequenceArmed`
by `SequenceInv`, `DisplayLine` by `LineInv`, and `ImplementsEditor`, the
refinement to `LineEditor`. `LineInv` also says that nothing is typed outside the
editor and while it asks whether to cancel, so every way out of it leaves an empty
line. `KeyStep` and `AnswerStep` go through the keys: each is the one action of
`LineEditor` for that key in that mode. A digit is appended while there is room
(`LineTyped`), a star takes the last one away (`LineErased`) or asks, and a hash behind a
full line returns its number. That last fact, `AtoiIsNumber`, is about two recursions, the function
in `atoi` and the fold in `LineEditor!Number`, and is proved by induction on the
length of the line.

Induction here and in `FpmLink_proofs` is the lemma `Induct`: a set of numbers that
has zero and the successor of each of its members has them all. It follows from the
well-foundedness of `<`, and needs no operator as a parameter, as the induction
theorems of the library do. That a recursive function is what its equation says
is part of such a proof (`FoldsExist`, `SumsExist`: such a function exists for
every length, so `CHOOSE` finds one).

**`Locks_proofs`**: `TypeCorrect`, `Exclusion`, `Released`, `NoDeadlock`.
`SectionInv` says that who is inside a section of display or SQL owns the mutex
(`Owned`; false for HTTP, because of the second unlock), and that unless a
`curl_easy_init` has failed an owner is inside a section. `NoWaitCycle` follows
from `LockOrder`: a thread inside a section waits only for a mutex that comes
later in the order display, sql, http. The second unlock does not hurt it,
because who is inside an HTTP section waits for nothing.

**`FpmLink_proofs`**: `TypeCorrect`, `StaysInStep`, `OwnAnswers`, `ImplementsLink`,
for any replies of bytes that fit into a packet and any noise. `Tuned` carries them: while the link is undisturbed either
nobody asks and the line is empty, or one thread asks, and header read and line
together are exactly the reply to its command. The lemmas on
`Packet` show that `Accepted` gives back the data `SendToUart` was given: the sum
fits into sixteen bits because a reply is short. What the sum of a packet is,
byte after byte, is proved by induction (`TotalFacts`). `ImplementsLink` is the
refinement to `CommandLink` step by step, under one hypothesis, `RepliesAreReal`:
for arbitrary replies it is false, as a window of bytes may have the right sum by
chance, and for those of the run TLC checks it. Everything else of the refinement
(who answers whom, when a command returns, what disturbs the link, when it has
recovered) is proved. What can be said of the sum for arbitrary replies is
`SpoiltByteNoticed`: a reply in which one byte was replaced, as in `Fault`, is read as
itself or as an error, because its sum changes by the difference of the two bytes
(`TotalApart`, by induction) or the sum sent does. Only the two bytes of
the length are excepted: behind another length `GetFromUart` adds up other bytes, whose
sum may be right by chance, or waits for bytes of the next reply.

**`Fingerprint_proofs`**: `TypeCorrect`, `OnlyModels`, `NoSecond`, `EnrolTells`,
`MatchTrue`, `DeletedGone`, `ImplementsLibrary`, for any number of fingers and pages and any set of
answers. `AnswerInv` says what an answer on its way means about the sensor (an OK
to createModel: both buffers hold a model; an OK to a deletion: the page is empty),
`CharInv` what the first buffer holds at each place, `StoreInv` and `SearchInv`
what the history of a procedure allows, `MatchInv` and `DeleteInv` the same for
the other two. The history `trouble` limits each to what the link allows.
`ImplementsLibrary` is the refinement to `SensorLibrary`, whatever the answers: the
image loops, searches and conversions are steps in which at most a doubt arises
(`DoubtsOnly`); a store that the sensor carries out is `Store`, once in an enrolment
because `StoreInv` ties `stored` to its answer, with a model of a new finger by
`CharInv` and `SearchInv`; and that a result is true comes from `EnrolTells` and
`DeletedGone`, whose step formulas (`EnrolTruth`, `DeleteTruth`) are hypotheses of the
lemma on the end of a job (`EndsJob`).

**`Process_proofs`**: `TypeCorrect`, `DevicesKept`, `PinHarm`, for any size of the table and any pins from 8 on. `InitInv` and `StartInv` say which
devices are open at each place of the start, with numbers taken from below; `LowInv`
that what is open for good has a number below every pin; `SettledInv` that devices
and database stay in hand until the end; and `PinInv` that between two passes the
pin's number is not that of an LED's descriptor. With these `StolenOnlyAtPin` and
`LeakStopsAtPin` are inductive.

**`Lcd_proofs`**: `TypeCorrect` and `RoomMeansShown`, for any texts, and
`FittingTextsHaveRoom` and `FittingTextsShown`, for those that fit. `RoomMeansShown` is
`Spec /\ []Room => []TextShown`. Without `Room` the claim is false, as a text that
leaves the last row goes on in the first one; `Room` says nothing of what the
display shows, only that the next mark has a place. The invariant says what holds in
the middle of a text. `Placed`: the address counter of the display is where
`currentX`, `currentY` say, also behind a full row, where the memory goes on in a
row below or above. `Sent`: exactly the letters sent so far are on the glass, in order,
and each word is in one piece. `Behind`: they all stand before the cursor, so that the
next letter overwrites none. `Joint`: the letter before the next one of the same word is
just in front of the cursor. `WordInv`: `left` is what remains of the word that was
tested for the line break, and the rest fits into the row. All but `WordInv` hold only
while nothing has harmed the text, and a new text begins with none of the letters
of its own on the display (`NoneToCome`), whatever the last one has left there: that is
why harm does not outlive the text it falls into. `Cell` is proved injective and `Address`
right in the first column; for the other places where a text begins that is
`PlacesAssumption`.

`FittingTextsHaveRoom` is `TextsFit /\ Spec => []Room`, with nothing about the run in its
hypothesis. `HasRoom` is a budget: every mark takes at most one column, and a row that is
left wastes at most `w`, the length of the longest word that may reach the last column
(`LateWords`); what is left of the rows must be enough. That is
`Spent`: the columns passed, 20 for each row, are no more than the marks sent and `w` for
each row left, at each mark (`SpentHere`, `SpentRow`). A word that breaks the line
is such a late word because the text has not got further to the right than its marks
(`NotAhead`), so its length is within `w` (`LateWord`). A space behind a full row takes
another row; only a space can fill one if no late word has 20 letters (`RowEnd`),
so two together are needed, which `OneSpace` excludes. `HasRoom` is
sufficient, not necessary. `FittingTextsShown` puts the two theorems together: texts that fit can
be read.

**Only model-checked**: all liveness (`UploadProgress`, `ScanEnds`,
`DeletionHonoured`, `KeysHandled`, `PassesEnd`, `ListsAskedFor`,
`CommandsReturn`, `ProceduresEnd`, `ShutdownEnds`), which needs ENABLED;
and the hypothesis named above, `RepliesAreReal`. It depends on the replies
(with a reply `<<0, 0, 163, 255, 255>>` TLC finds a window across two replies that
passes), and a condition on `Replies` that excludes every such window, behind any number of
short reads and with any spoilt length, would only say the property over again.

## 5. What was found

The three violation runs, quoted under `findings`:

* `DB_update` marks all unsent rows of the employee when one of them has been
  posted (DataBase.c:250); a row that never reached the server is lost for it.
* A failing query of `DB_check_id_exists` is acknowledged as "not there", so the
  server forgets an employee who remains in the table and the sensor
  (curl_client.c:507).
* The LED counts a pass with nothing to send as a failure (threads.c:95), where
  threads.c:75 and 97 speak of failures to send data: it lights after
  `g_max_retries` idle passes. `LedTracksStreak` speaks of passes that sent nothing,
  which is what the code counts; `LedMeansFailures` says what the comments do.

Noted while modelling, without a run of their own:

* `send_get_request` unlocks `httpMutex` twice (curl_client.c:241, 257), although
  the comment at line 241 says it is released before the response is processed.
  The second unlock frees it under another thread, and two requests overlap;
  `Locks` has this step, and `SectionsExclusive` therefore speaks of the display
  and the database only;
* a read from the sensor has no time limit (`VMIN` is 1 in UART.c:32, where
  packet.h:74 speaks of one second); a reply that never comes keeps main, and
  `displayMutex`, for good. A reply left over after an error is taken for the
  answer to the next command, and that one's for the one after it: nothing flushes
  the line after `UART_Init`. A partial write repeats the whole packet (UART.c:57);
* `enrolling` has a minute by its comment (FP_enrolling.c:27), but the loops at
  lines 73 and 107 do not look at it. From an image too messy for `image2Tz(1)`
  there is no way out (`ProceduresEnd` excepts it);
* a `fingerFastSearch` that fails counts as "new finger" (FP_enrolling.c:98), and
  pages from 163 on are never found (packet.c:256);
* `findFinger` prints the number into two characters (FP_find_finger.c:76, 165):
  from page 10 on it writes beyond them. A match at page 0 counts as FAILED;
* `GPIO_close(GPIO_LED_RED)` closes the descriptor with the number of the pin
  (threads.c:110; GPIO.c:114 asks for a descriptor). The leak ends when the
  descriptors reach that number; until then each pass costs one, and a temporary
  file that gets the number is closed under its owner;
* after a failed start `keyboard_initialized` stays set while `keybord_fd` is 0, so
  cleanup closes stdin (main.c:125);
* SIGINT while main holds `displayMutex` waits for ever on its own mutex
  (signal_handlers.c:44). systemd stops a service with SIGTERM, for which there is
  no handler. The joins at main.c:556 are never reached. SIGINT before the threads
  exist joins threads that were never created, and locks inside libraries that the
  signal interrupts (malloc, stdio, SQLite) come on top, outside the model. The
  handler destroys `sqlMutex` before `DB_close` locks it (lines 91, 105);
* `lcd20x4_i2c_setCursor` ors the column into the address (lcd20x4_i2c.c:89): in
  rows 2 and 3 columns whose low three bits are 4 to 7, and in every row those from
  16 on, land elsewhere, although line 79 allows 0 to 19. No call uses them. A word
  never fills the last column, a text beyond row 3 goes on in row 0, and a second
  space behind a full row blanks a place of another row (`RestKept` allows for it);
* `lcd20x4_i2c_puts` never gets past a newline: the length of the word there is 0, so
  `i += wordLen - 1` takes the loop back to the same character (lcd20x4_i2c.c:204),
  for good and with `displayMutex` held. `LCD_MESSAGE` is read with `%[^"]`
  (config.c:92), which accepts one. The texts of `Lcd` have no newline;
* main.c:293 and 364 print up to 36 characters into `mydata`, which has 23;
* the time is cut to an `int` (threads.c:48), which ends in 2038 where `time_t`
  has 64 bits;
* a number typed in is checked and written in two critical sections (main.c:273),
  between which the employee may be deleted; foreign keys are not enforced;
* `getNextAvailableID` tells `SQLITE_ROW` from everything else, so a step that fails
  (busy, I/O error) gives 0 + 1 = 1, and a query that cannot be prepared gives 0
  (DataBase.c:23-30; its comment at line 12 says "the next available ID"). Enrolling
  then stores the new template over that of employee 1, or on page 0;
* the failure of `DB_newEmployee` is ignored and "added successfully" is shown
  (main.c:406, 408). The server lists a number without a row, which the next
  enrolment uses again, with its page: a second reason why `FreshPages` excepts
  failing queries;
* `*`, any other keys, `#` is recognised as `*#`, because only these two keys
  reach the buffer (main.c:385-393);
* `enter_ID_keypad` looks at its minute only before a blocking read, so a key
  pressed later is still handled (keypad.c:53);
* a failing `curl_easy_init` returns from `send_post_request` with `httpMutex`
  locked (curl_client.c:94); `LocksReleased`, `NoWaitCycle` and the liveness of
  `Locks` hold up to that moment, which `leaked` records;
* `deleteModel` clears the LCD without `displayMutex` when `post_requestThread`
  calls it (FP_delete.c:14).

## 6. Abstractions

* Time is days in `Attendance`, and `Retention` is months as a number of days.
  The clock never goes back.
* Direction and FPM are payload of a row and left out. Row numbers are not
  reused: rowids grow in the model, where SQLite may reuse the highest one after
  the newest row has been purged.
* A SELECT without an index tests a row when it gets there, so rows an UPDATE on
  the same connection has marked meanwhile are passed over.
* A failed GET only repeats; the list of deletions is a set, and its order the
  server's.
* In `Roster` a search covers all pages and a procedure is atomic. For the first
  see `SearchPages` of `Fingerprint`, for the second section 2.
* In `FpmLink` a reply announces a length of two or more; with a shorter one the
  code would copy a negative number of bytes. The sensor answers in order. A
  hang-up of the line (`read` returns 0) and partial writes are left out, and
  noise never makes a length byte 0 or 1.
* In `Fingerprint` the sensor merges two scans exactly when they are of one
  finger, and a search finds a page exactly when it holds that finger. `MaxEvents`
  counts procedures and disturbances together.
* In `Process` a thread has at most one temporary file at a time; a full table
  makes `open` fail, other failures of `open` after the start are left out.
* In `Lcd` the display takes a write or loses it; half a write (two of the four
  bytes of a character) is left out, as is the initialization of the display.
* Main asks for a sign-in and an enrolment one at a time, as the code does.

## 7. Plan

Written, in this order: `DataBase`, `Attendance`, `AttendanceLedger`, `Roster`,
`Keyboard` with `LineEditor`, `Locks`, `Packet`, `CommandLink`, `FpmLink`,
`Fingerprint`, `Process`, `Lcd`, `SensorLibrary`, `AttendanceLed`.

What would come next: `Process` with the curl handles and the SIGINT that arrives in a
library.

### Not modelled

* Configuration (config.c): a text file read before any thread runs; its values
  are constants of the modules. A negative `g_max_retries` would skip `init`.
* Logging, `check_and_clear_file`, build files: no decision reads them.
* libcurl, cJSON and SQLite themselves; the contents of messages.
* The commands of packet.c nobody calls (`getParameters`, `setSecurityLevel`,
  `emptyDatabase` and others), and `lcd20x4_i2c_printf` and
  `lcd20x4_i2c_display`.
