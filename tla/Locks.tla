------------------------------- MODULE Locks -------------------------------
(***************************************************************************)
(* The mutexes the four threads share: displayMutex with displayCond,      *)
(* sqlMutex and httpMutex, and every place where fingerPrint (main.c),     *)
(* clockThread, databaseThread and post_requestThread (threads.c, with     *)
(* DataBase.c and curl_client.c below them) lock or unlock one of them.    *)
(* What a thread does inside a section is modelled elsewhere: here it is   *)
(* only what it may return.                                                *)
(*                                                                         *)
(* The mutexes are default (normal) ones: pthread_mutex_unlock does not    *)
(* ask who holds it, it frees it.  pthread_mutex_lock on them never fails. *)
(***************************************************************************)
EXTENDS Integers

CONSTANTS
    MaxRetries,    \* g_max_retries
    MaxRows,       \* bound: unsent rows of one pass of DB_find
    MaxItems       \* bound: elements of one list of deletions

\* main exits before any thread starts when g_max_retries is 0.
LocksAssumption ==
    /\ MaxRetries \in Nat \ {0}
    /\ MaxRows \in Nat
    /\ MaxItems \in Nat

ASSUME LocksAssumption

Threads == {"main", "clock", "database", "deletion"}
Mutexes == {"display", "sql", "http"}
Nobody  == "nobody"

VARIABLES
    owner,     \* who locked each mutex last and has not seen it unlocked
    place,     \* where each thread is
    tries,     \* attempts of the loops around DB_write and send_json_new_employee
    rows,      \* rows the SELECT of DB_find has still to return
    items,     \* elements of the list process_response has still to handle
    leaked     \* history: send_post_request has returned without its unlock

counters == <<tries, rows, items>>
vars     == <<owner, place, counters, leaked>>

\* The places where a thread waits for a mutex, and those where it is between
\* its lock and its unlock.
Waiting ==
    [display |-> {"press", "turn", "signalled", "expired", "rested"},
     sql     |-> {"write", "check", "insert", "remove", "purge", "pass",
                  "list", "delete", "restore"},
     http    |-> {"report", "post", "get", "ack"}]

Inside ==
    [display |-> {"scan", "write", "writing", "check", "checking", "enrol", "insert",
                  "inserting", "report", "reporting", "remove", "removing", "done",
                  "clear", "listen", "show", "redraw"},
     sql     |-> {"writing", "checking", "inserting", "removing", "purging",
                  "passing", "post", "posting", "verifying", "deleting", "restoring"},
     http    |-> {"reporting", "posting", "getting", "acking"}]

Init ==
    /\ owner = [m \in Mutexes |-> Nobody]
    /\ place = [main |-> "idle", clock |-> "date", database |-> "pass", deletion |-> "get"]
    /\ tries = 0 /\ rows = 0 /\ items = 0
    /\ leaked = FALSE

-----------------------------------------------------------------------------
(* Moves of a thread *)

Goto(t, to) == place' = [place EXCEPT ![t] = to]

Step(t, from, to) == place[t] = from /\ Goto(t, to) /\ UNCHANGED owner

\* pthread_mutex_lock
Lock(t, m, from, to) ==
    /\ place[t] = from /\ owner[m] = Nobody
    /\ owner' = [owner EXCEPT ![m] = t]
    /\ Goto(t, to)

\* pthread_mutex_unlock
Freed(m) == owner' = [owner EXCEPT ![m] = Nobody]

Unlock(t, m, from, to) == place[t] = from /\ Freed(m) /\ Goto(t, to)

\* send_post_request: it returns to ok or to failed, in the latter case without
\* an unlock when curl_easy_init has returned NULL.
SendPost(t, from, inside, ok, failed) ==
    \/ Lock(t, "http", from, inside) /\ UNCHANGED leaked
    \/ Lock(t, "http", from, failed) /\ leaked' = TRUE
    \/ Unlock(t, "http", inside, ok) /\ UNCHANGED leaked
    \/ Unlock(t, "http", inside, failed) /\ UNCHANGED leaked

-----------------------------------------------------------------------------
(* The main thread *)

\* A key that needs the display; for *#, getNextAvailableID comes first, without
\* a mutex.
PressKey == Step("main", "idle", "press") /\ UNCHANGED <<counters, leaked>>

TakeDisplay ==
    /\ \E job \in {"scan", "enrol"} : Lock("main", "display", "press", job)
    /\ UNCHANGED counters

\* findFinger: matched, not in the library, or failed and a number was typed.
\* The write after a typed number is not repeated.
Scan ==
    /\ \/ Step("main", "scan", "write") /\ tries' = 0
       \/ Step("main", "scan", "done") /\ UNCHANGED tries
       \/ Step("main", "scan", "check") /\ tries' = MaxRetries - 1
    /\ UNCHANGED <<rows, items>>

\* DB_check_id_exists of the typed number.
Check ==
    /\ \/ Lock("main", "sql", "check", "checking")
       \/ Unlock("main", "sql", "checking", "write")
       \/ Unlock("main", "sql", "checking", "done")
    /\ UNCHANGED counters

\* attempts < g_max_retries, retries < g_max_retries: another attempt is left.
MoreTries == tries + 1 < MaxRetries

\* DB_write, until it succeeds or the attempts are used up.
Write ==
    \/ Lock("main", "sql", "write", "writing") /\ UNCHANGED counters
    \/ Unlock("main", "sql", "writing", "done") /\ UNCHANGED counters
    \/ /\ Unlock("main", "sql", "writing", "write") /\ MoreTries
       /\ tries' = tries + 1 /\ UNCHANGED <<rows, items>>

\* enrolling
Enrol ==
    /\ Step("main", "enrol", "insert") \/ Step("main", "enrol", "done")
    /\ UNCHANGED counters

\* A plausible slip: an error of DB_newEmployee returns without the unlock.
NewEmployee_Leak ==
    \/ Lock("main", "sql", "insert", "inserting") /\ UNCHANGED counters
    \/ Unlock("main", "sql", "inserting", "report") /\ tries' = 0 /\ UNCHANGED <<rows, items>>
    \/ Step("main", "inserting", "report") /\ tries' = 0 /\ UNCHANGED <<rows, items>>

\* DB_newEmployee, with or without an error
NewEmployee ==
    \/ Lock("main", "sql", "insert", "inserting") /\ UNCHANGED counters
    \/ Unlock("main", "sql", "inserting", "report") /\ tries' = 0 /\ UNCHANGED <<rows, items>>

\* send_json_new_employee, until it succeeds or the attempts are used up.
Report ==
    /\ place["main"] \in {"report", "reporting"}
    /\ LET after == IF MoreTries THEN "report" ELSE "remove"
       IN  SendPost("main", "report", "reporting", "done", after)
    /\ tries' = IF place'["main"] = "report" THEN tries + 1 ELSE tries
    /\ UNCHANGED <<rows, items>>

\* DB_delete of the employee that could not be reported.
Remove ==
    /\ \/ Lock("main", "sql", "remove", "removing")
       \/ Unlock("main", "sql", "removing", "done")
    /\ UNCHANGED counters

\* pthread_cond_signal(&displayCond) wakes clockThread if it waits.
Woken(p) == CASE p = "listening" -> "signalled"
              [] p = "resting"   -> "rested"
              [] OTHER           -> p

SignalDisplay ==
    /\ place["main"] = "done"
    /\ place' = [place EXCEPT !["main"] = "clear", !["clock"] = Woken(@)]
    /\ UNCHANGED <<owner, counters>>

\* lcd20x4_i2c_clear() and pthread_mutex_unlock(&displayMutex)
GiveDisplay == Unlock("main", "display", "clear", "idle") /\ UNCHANGED counters

MainThread ==
    \/ Report
    \/ /\ \/ TakeDisplay \/ Scan \/ Check \/ Write \/ Enrol \/ NewEmployee
          \/ Remove \/ SignalDisplay \/ GiveDisplay
       /\ UNCHANGED leaked

-----------------------------------------------------------------------------
(* clockThread *)

\* A new day: DB_delete_old_records; any other time goes on to the display.
Date ==
    /\ Step("clock", "date", "purge") \/ Step("clock", "date", "turn")
    /\ UNCHANGED counters

\* A plausible slip: the purge does not ask for the mutex.
Purge_NoLock ==
    /\ Step("clock", "purge", "purging") \/ Step("clock", "purging", "turn")
    /\ UNCHANGED counters

\* DB_delete_old_records
Purge ==
    /\ \/ Lock("clock", "sql", "purge", "purging")
       \/ Unlock("clock", "sql", "purging", "turn")
    /\ UNCHANGED counters

\* pthread_cond_timedwait(&displayCond, &displayMutex, one second), again and
\* again until it times out.  It may also wake up for no reason.
AwaitDisplay ==
    /\ \/ Lock("clock", "display", "turn", "listen")
       \/ Unlock("clock", "display", "listen", "listening")
       \/ Step("clock", "listening", "signalled")
       \/ Lock("clock", "display", "signalled", "listen")
       \/ Step("clock", "listening", "expired")
       \/ Lock("clock", "display", "expired", "show")
    /\ UNCHANGED counters

\* The time is on the LCD; a minute, or a signal, later the loop starts over.
ShowTime ==
    /\ \/ Unlock("clock", "display", "show", "resting")
       \/ Step("clock", "resting", "rested")
       \/ Lock("clock", "display", "rested", "redraw")
       \/ Unlock("clock", "display", "redraw", "date")
    /\ UNCHANGED counters

ClockThread == (Date \/ Purge \/ AwaitDisplay \/ ShowTime) /\ UNCHANGED leaked

-----------------------------------------------------------------------------
(* databaseThread *)

\* DB_find keeps sqlMutex for the whole pass.
Pass ==
    \/ /\ Lock("database", "sql", "pass", "passing")
       /\ rows' \in 0..MaxRows /\ UNCHANGED <<tries, items>>
    \/ /\ Step("database", "passing", "post") /\ rows > 0
       /\ rows' = rows - 1 /\ UNCHANGED <<tries, items>>
    \/ Unlock("database", "sql", "passing", "sleep") /\ rows = 0 /\ UNCHANGED counters

\* A plausible slip: a row is posted until the server takes it.
Post_Again == SendPost("database", "post", "posting", "passing", "post") /\ UNCHANGED counters

\* send_json_data of a row
Post == SendPost("database", "post", "posting", "passing", "passing") /\ UNCHANGED counters

\* The timed wait on databaseCond, whose mutex no other thread uses.
Sleep == Step("database", "sleep", "pass") /\ UNCHANGED counters

DatabaseThread == Post \/ ((Pass \/ Sleep) /\ UNCHANGED leaked)

-----------------------------------------------------------------------------
(* post_requestThread *)

\* A plausible slip: the mutex is kept while the response is processed.
BeforeResponse_Kept == UNCHANGED owner

\* pthread_mutex_unlock(&httpMutex) before process_response
BeforeResponse == Freed("http")

\* send_get_request: failure (then it is sent again at once), an empty body, or a
\* list; process_response gives up a body that is no list.
Get ==
    \/ Lock("deletion", "http", "get", "getting") /\ UNCHANGED counters
    \/ Unlock("deletion", "http", "getting", "get") /\ UNCHANGED counters
    \/ Unlock("deletion", "http", "getting", "pause") /\ UNCHANGED counters
    \/ /\ place["deletion"] = "getting" /\ BeforeResponse
       /\ \/ Goto("deletion", "get") /\ UNCHANGED items
          \/ Goto("deletion", "list") /\ items' \in 0..MaxItems
       /\ UNCHANGED <<tries, rows>>

\* DB_check_id_exists of the next element; one that is no number is passed over.
Verify ==
    /\ items > 0
    /\ \/ Lock("deletion", "sql", "list", "verifying") /\ UNCHANGED items
       \/ Step("deletion", "list", "list") /\ items' = items - 1
       \/ Unlock("deletion", "sql", "verifying", "delete") /\ UNCHANGED items
       \/ Unlock("deletion", "sql", "verifying", "ack") /\ UNCHANGED items
    /\ UNCHANGED <<tries, rows>>

\* DB_delete; when it fails, on to the next element.
Delete ==
    /\ \/ Lock("deletion", "sql", "delete", "deleting") /\ UNCHANGED items
       \/ Unlock("deletion", "sql", "deleting", "erase") /\ UNCHANGED items
       \/ Unlock("deletion", "sql", "deleting", "list") /\ items' = items - 1
    /\ UNCHANGED <<tries, rows>>

\* deleteModel, which clears the LCD; when it fails, DB_restore, then on to the
\* next element.
Erase ==
    /\ \/ Step("deletion", "erase", "ack") /\ UNCHANGED items
       \/ Step("deletion", "erase", "restore") /\ UNCHANGED items
       \/ Lock("deletion", "sql", "restore", "restoring") /\ UNCHANGED items
       \/ Unlock("deletion", "sql", "restoring", "list") /\ items' = items - 1
    /\ UNCHANGED <<tries, rows>>

\* send_json_ack_delete: on to the next element, or the request starts over.
Acknowledge ==
    /\ \/ Lock("deletion", "http", "ack", "acking") /\ UNCHANGED items
       \/ Unlock("deletion", "http", "acking", "list") /\ items' = items - 1
       \/ Unlock("deletion", "http", "acking", "get") /\ items' = 0
    /\ UNCHANGED <<tries, rows>>

\* The end of send_get_request unlocks the mutex a second time.
EndOfList ==
    /\ Unlock("deletion", "http", "list", "pause") /\ items = 0
    /\ UNCHANGED counters

\* The timed wait on requestCond, whose mutex no other thread uses.
Pause == Step("deletion", "pause", "get") /\ UNCHANGED counters

DeletionThread ==
    /\ Get \/ Verify \/ Delete \/ Erase \/ Acknowledge \/ EndOfList \/ Pause
    /\ UNCHANGED leaked

-----------------------------------------------------------------------------
Next == PressKey \/ MainThread \/ ClockThread \/ DatabaseThread \/ DeletionThread

Spec == Init /\ [][Next]_vars

(* Fairness: every thread goes on and gets a mutex that is free again and    *)
(* again; sensor, keypad and server answer.  Nobody has to press a key.      *)
FairSpec ==
    /\ Spec
    /\ SF_vars(MainThread) /\ SF_vars(ClockThread)
    /\ SF_vars(DatabaseThread) /\ SF_vars(DeletionThread)

-----------------------------------------------------------------------------
(* Properties *)

MainPlaces     == {"idle", "press", "scan", "write", "writing", "check", "checking",
                   "enrol", "insert", "inserting", "report", "reporting", "remove",
                   "removing", "done", "clear"}
ClockPlaces    == {"date", "purge", "purging", "turn", "listen", "listening", "signalled",
                   "expired", "show", "resting", "rested", "redraw"}
DatabasePlaces == {"pass", "passing", "post", "posting", "sleep"}
DeletionPlaces == {"get", "getting", "list", "verifying", "delete", "deleting", "erase",
                   "restore", "restoring", "ack", "acking", "pause"}

\* The places of process_response in which it has an element in hand.
Handling == {"verifying", "delete", "deleting", "erase", "restore", "restoring", "ack", "acking"}

\* Type invariant; an element in hand is one of the list.
TypeOK ==
    /\ owner \in [Mutexes -> Threads \cup {Nobody}]
    /\ DOMAIN place = Threads
    /\ place["main"] \in MainPlaces /\ place["clock"] \in ClockPlaces
    /\ place["database"] \in DatabasePlaces /\ place["deletion"] \in DeletionPlaces
    /\ tries \in 0..MaxRetries - 1
    /\ rows \in 0..MaxRows
    /\ items \in 0..MaxItems
    /\ place["deletion"] \in Handling => items > 0
    /\ leaked \in BOOLEAN

InSection(m, t) == place[t] \in Inside[m]

\* One thread at a time uses the display and one the database, although the
\* second unlock of send_get_request frees mutexes of others and the condition
\* variable gives the display away in the middle of clockThread's section.
SectionsExclusive ==
    \A m \in {"display", "sql"}, t, u \in Threads :
        InSection(m, t) /\ InSection(m, u) => t = u

\* No other path through the sections than the one of a failing curl_easy_init,
\* whatever fails on it, leaves one of them without unlocking its mutex.
LocksReleased ==
    ~ leaked => \A m \in Mutexes, t \in Threads : owner[m] = t => InSection(m, t)

\* No threads wait for each other in a circle, nor one for itself, as long as
\* curl_easy_init has not failed: among any of them one is not waiting for a mutex
\* of another.  process_response takes httpMutex again, DB_find takes it with
\* sqlMutex held, and main takes both with displayMutex held.
NoWaitCycle ==
    ~ leaked =>
        \A S \in (SUBSET Threads) \ {{}} :
            \E t \in S : \A m \in Mutexes : place[t] \in Waiting[m] => owner[m] \notin S

\* Every key ends with the menu again, every pass of DB_find ends, and the list
\* of deletions is asked for again and again, although each thread waits for the
\* others in turn; only a failing curl_easy_init can stop them.
KeysHandled   == place["main"] = "press" ~> (place["main"] = "idle" \/ leaked)
PassesEnd     == place["database"] = "pass" ~> (place["database"] = "sleep" \/ leaked)
ListsAskedFor == []<>(place["deletion"] = "getting" \/ leaked)

-----------------------------------------------------------------------------
(* What comments of the code promise and the code does not keep *)

=============================================================================
