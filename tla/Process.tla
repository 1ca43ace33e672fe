------------------------------ MODULE Process ------------------------------
(***************************************************************************)
(* The life of one process of the service: start with its retries (main.c, *)
(* GPIO.c, I2C.c, UART.c), the table of open descriptors while the four    *)
(* threads run, and the SIGINT handler (signal_handlers.c).                *)
(*                                                                         *)
(* What the threads do with records, sensor and LCD is modelled elsewhere; *)
(* here a thread at work only opens and closes temporary files (journals,  *)
(* sockets, the buzzer).  The kernel gives the lowest free number to an    *)
(* open and hands SIGINT to the main thread.  Nothing of this state survives *)
(* the process: after systemd's restart it is Init again.                  *)
(***************************************************************************)
EXTENDS Integers, FiniteSets

CONSTANTS
    MaxFd,         \* the largest descriptor number the kernel gives
    LedPin,        \* GPIO_LED_RED
    OtherPins,     \* GPIO_BUTTON_IN, GPIO_BUTTON_OUT, GPIO_BUTTON_NEW, GPIO_BUZZER
    MaxRetries,    \* g_max_retries
    MaxTemps       \* bound: temporary files open at once

Fds     == 0..MaxFd
NoFd    == -1
Pins    == {LedPin} \cup OtherPins
Workers == {"clock", "database", "deletion"}
Threads == {"main"} \cup Workers
Devices == {"i2c", "keyboard", "fpm"}

\* Descriptors 0, 1 and 2, three devices, the database and file_URL come before
\* every pin number, as 44 and 66 to 69 do.
ProcessAssumption ==
    /\ MaxFd \in Nat /\ LedPin \in 8..MaxFd - 1
    /\ OtherPins \subseteq 8..MaxFd /\ LedPin \notin OtherPins
    /\ MaxRetries \in Nat \ {0} /\ MaxTemps \in Nat

ASSUME ProcessAssumption

\* What a descriptor may refer to: the standard streams, a device, the database,
\* file_URL, the LED, or a temporary file of a thread, which has its name.
Files == {"std", "db", "url", "led"} \cup Devices \cup Threads
Free  == "free"

VARIABLES
    table,       \* the kernel's table: what each number refers to
    fd,          \* i2c_fd, keybord_fd, fpm_fd, and fd_led of the pass of databaseThread
    temp,        \* the descriptor of each thread's temporary file
    ready,       \* lcd_initialized and keyboard_initialized
    pins,        \* gpio_..._initialized: the pins initialized
    attempts,    \* retries of main
    at,          \* where each thread is
    display,     \* who holds displayMutex
    stop,        \* the stop flag
    collided     \* history: databaseThread has opened the LED while a temporary
                 \* file had the number LedPin

descriptors == <<fd, temp>>
starting    == <<ready, pins, attempts>>
vars        == <<table, fd, temp, ready, pins, attempts, at, display, stop, collided>>

Init ==
    /\ table = [n \in Fds |-> IF n \in 0..2 THEN "std" ELSE Free]
    /\ fd = [d \in Devices \cup {"led"} |-> IF d = "led" THEN NoFd ELSE 0]
    /\ temp = [t \in Threads |-> NoFd]
    /\ ready = {} /\ pins = {} /\ attempts = 0
    /\ at = [t \in Threads |-> IF t = "main" THEN "gpio" ELSE "absent"]
    /\ display = "nobody" /\ stop = FALSE /\ collided = FALSE

Goto(t, to) == at' = [at EXCEPT ![t] = to]

-----------------------------------------------------------------------------
(* Descriptors *)

Full      == \A n \in Fds : table[n] # Free
Lowest(n) == table[n] = Free /\ \A m \in Fds : m < n => table[m] # Free

\* open of f returns n.
Open(n, f) == Lowest(n) /\ table' = [table EXCEPT ![n] = f]

\* The table after a close of the numbers in S, whatever they refer to.
Without(S) == [n \in Fds |-> IF n \in S THEN Free ELSE table[n]]

\* close, GPIO_close, UART_close, I2C_close, fclose
Close(S) == table' = Without(S)

\* The process is gone, and the kernel has closed everything.
Ended ==
    /\ table' = [n \in Fds |-> Free]
    /\ at' = [t \in Threads |-> "exited"]
    /\ temp' = [t \in Threads |-> NoFd]

\* exit, or a return from main
Exit == Ended /\ UNCHANGED <<fd, starting, display, stop, collided>>

-----------------------------------------------------------------------------
(* Start: init and its retries *)

\* A plausible slip: the keyboard's descriptor is forgotten.
CleanupNumbers_NoKeyboard(h) ==
    pins' \cup {n \in Fds : "lcd" \in ready /\ n = h["i2c"]}

\* cleanup_resources: pin numbers, and the numbers the flags say are open.  The
\* flags are never reset, fpm_initialized is never set before a failure.
CleanupNumbers(h) ==
    pins'
    \cup {n \in Fds : \/ "lcd" \in ready /\ n = h["i2c"]
                      \/ "keyboard" \in ready /\ n = h["keyboard"]}

\* init fails with the descriptor variables h: main tries again or gives up.
InitFails(h) ==
    /\ fd' = h
    /\ attempts' = attempts + 1
    /\ \/ /\ attempts + 1 < MaxRetries
          /\ Close(CleanupNumbers(h)) /\ Goto("main", "gpio") /\ UNCHANGED temp
       \/ attempts + 1 = MaxRetries /\ Ended

InitGpio ==
    /\ at["main"] = "gpio"
    /\ \/ /\ pins' = Pins /\ Goto("main", "i2c")
          /\ UNCHANGED <<table, descriptors, attempts>>
       \/ /\ \E S \in SUBSET Pins : pins' = pins \cup S
          /\ InitFails(fd)
    /\ UNCHANGED <<ready, display, stop, collided>>

After == [i2c |-> "keyboard", keyboard |-> "fpm", fpm |-> "open"]

\* The flag that init sets after a device; cleanup_resources never finds the one
\* of the sensor set.
Flag == [i2c |-> {"lcd"}, keyboard |-> {"keyboard"}, fpm |-> {}]

\* What a failed open leaves in the descriptor variable: I2C_Init the error of
\* open, UART_Init its own FAILED, which is the number of stdin.
OpenError == [i2c |-> -1, keyboard |-> 0, fpm |-> 0]

\* lcd20x4_i2c_init, UART_Init of the keyboard and of the sensor.  Number 0 would
\* count as a failure of UART_Init, but the LCD is opened before and has it.
InitDevice(d) ==
    /\ at["main"] = d /\ UNCHANGED pins
    /\ \/ \E n \in Fds :
             /\ d = "i2c" \/ n >= 1
             /\ Open(n, d) /\ fd' = [fd EXCEPT ![d] = n]
             /\ ready' = ready \cup Flag[d]
             /\ Goto("main", After[d]) /\ UNCHANGED <<temp, attempts>>
       \/ InitFails([fd EXCEPT ![d] = OpenError[d]]) /\ UNCHANGED ready
       \* ioctl fails: i2c_fd keeps the number of a closed descriptor
       \/ /\ d = "i2c" /\ UNCHANGED ready
          /\ \E n \in Fds : Lowest(n) /\ InitFails([fd EXCEPT ![d] = n])
    /\ UNCHANGED <<display, stop, collided>>

\* DB_open; on an error the process ends.
OpenDatabase ==
    /\ at["main"] = "open"
    /\ \E n \in Fds : Open(n, "db")
    /\ Goto("main", "file")
    /\ UNCHANGED <<descriptors, starting, display, stop, collided>>

\* The LED is switched off through a descriptor that is closed at once, then
\* initFile opens file_URL, which may fail.
OpenFile ==
    /\ at["main"] = "file"
    /\ (\E n \in Fds : Open(n, "url")) \/ UNCHANGED table
    /\ Goto("main", "create")
    /\ UNCHANGED <<descriptors, starting, display, stop, collided>>

\* pthread_create of clockThread, databaseThread, post_requestThread
CreateThread ==
    /\ at["main"] = "create"
    /\ \/ /\ at["clock"] = "absent"
          /\ Goto("clock", "top")
       \/ /\ at["clock"] # "absent" /\ at["database"] = "absent"
          /\ Goto("database", "top")
       \/ /\ at["database"] # "absent" /\ at["deletion"] = "absent"
          /\ at' = [at EXCEPT !["deletion"] = "top", !["main"] = "idle"]
    /\ UNCHANGED <<table, descriptors, starting, display, stop, collided>>

\* A start that fails for good: DB_open, curl_global_init, pthread_create, or
\* the LED that cannot be opened.
StartFails == at["main"] \in {"open", "file", "create"} /\ Exit

-----------------------------------------------------------------------------
(* Threads at work *)

\* A key that needs the display, from the lock of displayMutex to its unlock,
\* which wakes clockThread.
Key ==
    /\ \/ /\ at["main"] = "idle" /\ display = "nobody"
          /\ display' = "main" /\ Goto("main", "busy")
       \/ /\ at["main"] = "busy" /\ temp["main"] = NoFd
          /\ display' = "nobody"
          /\ at' = [at EXCEPT !["main"] = "idle", !["clock"] = IF @ = "listening" THEN "woken" ELSE @]
    /\ UNCHANGED <<table, descriptors, starting, stop, collided>>

AtWork(t) ==
    CASE t = "main"     -> at[t] = "busy"
      [] t = "clock"    -> at[t] = "date"
      [] t = "database" -> at[t] = "pass"
      [] OTHER          -> at[t] = "ask"

\* A thread at work opens a temporary file.  When the table is full it goes on
\* without, except for buzzer: GPIO_open ends the process.
OpenTemp(t) ==
    /\ AtWork(t) /\ temp[t] = NoFd
    /\ Cardinality({u \in Threads : temp[u] # NoFd}) < MaxTemps
    /\ \E n \in Fds : Open(n, t) /\ temp' = [temp EXCEPT ![t] = n]
    /\ UNCHANGED <<fd, starting, at, display, stop, collided>>

BuzzerFails == AtWork("main") /\ Full /\ Exit

CloseTemp(t) ==
    /\ temp[t] # NoFd
    /\ Close({temp[t]}) /\ temp' = [temp EXCEPT ![t] = NoFd]
    /\ UNCHANGED <<fd, starting, at, display, stop, collided>>

\* A plausible slip: the descriptor of the LED is not closed at all.
ClosePin_Not == UNCHANGED table

\* GPIO_close(GPIO_LED_RED) closes the number of the pin, not fd_led.
ClosePin == Close({LedPin})

\* databaseThread: it opens the LED, works, closes the pin's number, and waits
\* for g_db_sleep or a signal.
Upload ==
    /\ \/ /\ at["database"] = "top" /\ ~ stop
          /\ \E n \in Fds : Open(n, "led") /\ fd' = [fd EXCEPT !["led"] = n]
          /\ collided' = (collided \/ table[LedPin] \in Threads)
          /\ Goto("database", "pass")
       \/ /\ at["database"] = "pass" /\ temp["database"] = NoFd
          /\ ClosePin /\ fd' = [fd EXCEPT !["led"] = NoFd]
          /\ Goto("database", "sleep") /\ UNCHANGED collided
       \/ /\ at["database"] = "sleep"
          /\ Goto("database", "top")
          /\ UNCHANGED <<table, fd, collided>>
    /\ UNCHANGED <<temp, starting, display, stop>>

\* GPIO_open ends the process when the table is full.
LedFails == at["database"] = "top" /\ ~ stop /\ Full /\ Exit

\* post_requestThread asks again at once after a failure, else it waits.
Request ==
    /\ \/ /\ at["deletion"] = "top" /\ ~ stop /\ Goto("deletion", "ask")
       \/ /\ at["deletion"] = "ask" /\ temp["deletion"] = NoFd
          /\ Goto("deletion", "top") \/ Goto("deletion", "pause")
       \/ at["deletion"] = "pause" /\ Goto("deletion", "top")
    /\ UNCHANGED <<table, descriptors, starting, display, stop, collided>>

\* clockThread: the purge of a new day, without displayMutex.
Date ==
    /\ \/ at["clock"] = "top" /\ ~ stop /\ Goto("clock", "date")
       \/ at["clock"] = "date" /\ temp["clock"] = NoFd /\ Goto("clock", "turn")
    /\ UNCHANGED <<table, descriptors, starting, display, stop, collided>>

\* clockThread waits for displayCond until a second has passed without a signal;
\* the inner loop ends, without a wait, when stop is set.
Listen ==
    /\ \/ /\ at["clock"] \in {"turn", "woken"} /\ display = "nobody"
          /\ IF stop THEN display' = "clock" /\ Goto("clock", "show")
                     ELSE display' = "nobody" /\ Goto("clock", "listening")
       \/ /\ at["clock"] = "listening" /\ display = "nobody"
          /\ display' = "clock" /\ Goto("clock", "show")
    /\ UNCHANGED <<table, descriptors, starting, stop, collided>>

\* A plausible slip: the minute is waited for by pthread_cond_wait.
Rest_Untimed ==
    /\ \/ at["clock"] = "show" /\ display' = "nobody" /\ Goto("clock", "resting")
       \/ /\ at["clock"] = "rested" /\ display = "nobody"
          /\ Goto("clock", "top") /\ UNCHANGED display
    /\ UNCHANGED <<table, descriptors, starting, stop, collided>>

\* The time is on the LCD.  A minute or a signal later the mutex is taken back
\* and given up.
Rest ==
    /\ \/ at["clock"] = "show" /\ display' = "nobody" /\ Goto("clock", "resting")
       \/ /\ at["clock"] \in {"resting", "rested"} /\ display = "nobody"
          /\ Goto("clock", "top") /\ UNCHANGED display
    /\ UNCHANGED <<table, descriptors, starting, stop, collided>>

\* A loop that finds stop set ends its thread.
EndThread(t) ==
    /\ at[t] = "top" /\ stop /\ Goto(t, "ended")
    /\ UNCHANGED <<table, descriptors, starting, display, stop, collided>>

-----------------------------------------------------------------------------
(* SIGINT *)

Starting == {"gpio", "i2c", "keyboard", "fpm", "open", "file", "create"}

\* handle_sigint interrupts the main thread wherever it is, also with
\* displayMutex in its hands, and never returns to it.
Interrupt ==
    /\ at["main"] \in Starting \cup {"idle", "busy"}
    /\ stop' = TRUE /\ Goto("main", "signal")
    /\ UNCHANGED <<table, descriptors, starting, display, collided>>

\* What a signal to its condition variable does to a worker: it ends a wait, and
\* is lost when there is none.
Woken(p) == CASE p = "listening" -> "woken"
              [] p = "resting"   -> "rested"
              [] p \in {"sleep", "pause"} -> "top"
              [] OTHER -> p

\* The handler locks displayMutex, databaseMutex and requestMutex in turn and
\* signals; the last two are held by nobody but for the start of a wait.
WakeWorkers ==
    /\ \/ /\ at["main"] = "signal" /\ display = "nobody"
          /\ at' = [at EXCEPT !["main"] = "signalled", !["clock"] = Woken(@)]
       \/ /\ at["main"] = "signalled"
          /\ at' = [at EXCEPT !["main"] = "join", !["database"] = Woken(@),
                              !["deletion"] = Woken(@)]
    /\ UNCHANGED <<table, descriptors, starting, display, stop, collided>>

\* pthread_join of the three threads.  The join of a thread that was never
\* created is undefined: it returns, or the process crashes.
Join ==
    /\ at["main"] = "join"
    /\ \/ /\ \A t \in Workers : at[t] \in {"ended", "absent"}
          /\ Goto("main", "close")
          /\ UNCHANGED <<table, descriptors, starting, display, stop, collided>>
       \/ /\ \E t \in Workers : at[t] = "absent"
          /\ Exit

\* sqlMutex has been destroyed when DB_close locks it, which is undefined: the
\* database is closed or left open.  The two UARTs, I2C and file_URL follow; what
\* the variables of devices never opened hold is closed as well.
CloseAll ==
    /\ at["main"] = "close" /\ Goto("main", "exit")
    /\ \E F \in {{"url"}, {"url", "db"}} :
          Close({fd[d] : d \in Devices} \cup {n \in Fds : table[n] \in F})
    /\ UNCHANGED <<descriptors, starting, display, stop, collided>>

ExitHandler == at["main"] = "exit" /\ Exit

-----------------------------------------------------------------------------
Start == InitGpio \/ (\E d \in Devices : InitDevice(d)) \/ OpenDatabase \/ OpenFile \/ CreateThread

ClockThread    == Date \/ Listen \/ Rest \/ EndThread("clock")
DatabaseThread == Upload \/ EndThread("database")
DeletionThread == Request \/ EndThread("deletion")
Handler        == WakeWorkers \/ Join \/ CloseAll \/ ExitHandler

Next ==
    \/ Start \/ StartFails
    \/ Key \/ BuzzerFails \/ LedFails
    \/ \E t \in Threads : OpenTemp(t) \/ CloseTemp(t)
    \/ ClockThread \/ DatabaseThread \/ DeletionThread
    \/ Interrupt \/ Handler

Spec == Init /\ [][Next]_vars

(* Fairness: the handler and the threads go on; a thread at work closes its  *)
(* file and is done with its work after finitely many of them (server and    *)
(* sensor answer); the timed waits end.  Nobody has to press a key.          *)
FairSpec ==
    /\ Spec
    /\ WF_vars(Handler)
    /\ SF_vars(ClockThread) /\ SF_vars(DatabaseThread) /\ SF_vars(DeletionThread)
    /\ \A t \in Workers : WF_vars(CloseTemp(t))

-----------------------------------------------------------------------------
(* Properties *)

ClockPlaces    == {"top", "date", "turn", "listening", "woken", "show", "resting", "rested"}
DatabasePlaces == {"top", "pass", "sleep"}
DeletionPlaces == {"top", "ask", "pause"}
HandlerPlaces  == {"signal", "signalled", "join", "close", "exit"}
Common         == {"absent", "ended", "exited"}

\* Type invariant: also, a thread has a temporary file only while at work, or
\* where the signal has stopped it.
TypeOK ==
    /\ table \in [Fds -> Files \cup {Free}]
    /\ fd \in [Devices \cup {"led"} -> Fds \cup {NoFd}]
    /\ temp \in [Threads -> Fds \cup {NoFd}]
    /\ ready \subseteq {"lcd", "keyboard"} /\ pins \subseteq Pins /\ attempts \in 0..MaxRetries
    /\ DOMAIN at = Threads
    /\ at["main"] \in Starting \cup {"idle", "busy", "exited"} \cup HandlerPlaces
    /\ at["clock"] \in ClockPlaces \cup Common
    /\ at["database"] \in DatabasePlaces \cup Common
    /\ at["deletion"] \in DeletionPlaces \cup Common
    /\ display \in {"nobody", "main", "clock"}
    /\ stop \in BOOLEAN /\ collided \in BOOLEAN
    /\ \A t \in Threads : temp[t] # NoFd => AtWork(t) \/ (t = "main" /\ at[t] \in HandlerPlaces)

\* Some thread runs that uses the devices and the database.
Serving ==
    \/ at["main"] \in {"idle", "busy"}
    \/ \E t \in Workers : at[t] \notin Common

\* As long as a thread runs, also while the signal handler is waiting for it, the
\* descriptor variables refer to their own open devices and the database is open,
\* whatever databaseThread closes; and whatever failed before, each attempt of
\* init starts with no device open.
DevicesInHand ==
    /\ Serving =>
        /\ \A d \in Devices : fd[d] \in Fds /\ table[fd[d]] = d
        /\ \E n \in Fds : table[n] = "db"
    /\ at["main"] = "gpio" => \A n \in Fds : table[n] \notin Devices

\* databaseThread closes a number that may by then be that of a file another
\* thread has just opened.  Only a temporary file with the number of the pin is
\* hit; any other descriptor a thread has in hand is still its file.
StolenOnlyAtPin ==
    /\ \A t \in Threads : temp[t] \notin {NoFd, LedPin} => table[temp[t]] = t
    /\ at["database"] = "pass" /\ fd["led"] # LedPin => table[fd["led"]] = "led"

\* Each pass leaves a descriptor of the LED open until LedPin itself is the
\* lowest free number; from then on the pass closes what it has opened, and none
\* is left above, unless a temporary file had that number at the wrong moment.
LeakStopsAtPin ==
    ~ collided => \A n \in Fds : n > LedPin => table[n] # "led"

\* That is all the wrong argument of GPIO_close can do in the pass (threads.c:110).
PinHarmBounded == StolenOnlyAtPin /\ LeakStopsAtPin

\* A signal ends the process, although the wake-ups may be lost, when it has not
\* interrupted the main thread with displayMutex locked: then the handler waits
\* for its own thread.
ShutdownEnds ==
    at["main"] = "signal" /\ display # "main" ~> at["main"] = "exited"
=============================================================================
