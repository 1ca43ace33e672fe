--------------------------- MODULE Process_proofs ---------------------------
(***************************************************************************)
(* Proofs about module Process, for any table of descriptors, any pin      *)
(* numbers beyond those of the devices, any number of retries and of       *)
(* temporary files: the types, that the devices stay in hand while threads *)
(* run, and how far the leak of the LED's descriptors goes.                *)
(***************************************************************************)
EXTENDS Process, TLAPS

USE ProcessAssumption DEF ProcessAssumption, Fds, NoFd

-----------------------------------------------------------------------------
(* The inductive invariant *)

Alive(t) == at[t] \notin Common

\* From the last device on, and as long as something needs them, all devices are
\* open.
Settled ==
    \/ at["main"] \in {"open", "file", "create", "idle", "busy"}
    \/ \E t \in Workers : Alive(t)
    \/ temp["main"] # NoFd /\ at["main"] # "exit"

\* d is open under the number its variable has.
InHand(d) == fd[d] \in 0..7 /\ table[fd[d]] = d

\* How many numbers are in use at each stage of the start, at most.
Used == [gpio |-> 3, i2c |-> 3, keyboard |-> 4, fpm |-> 5, open |-> 6, file |-> 7]

\* The devices that are open at a stage of init.
Had == [gpio |-> {}, i2c |-> {}, keyboard |-> {"i2c"}, fpm |-> {"i2c", "keyboard"}]

Early == {"gpio", "i2c", "keyboard", "fpm"}

\* While init is under way, only its devices are open, under their own numbers,
\* and the flags say so.
InitInv ==
    at["main"] \in Early =>
        /\ \A n \in Fds : table[n] \in {"std", Free} \cup Had[at["main"]]
        /\ \A n \in Fds : table[n] \in Had[at["main"]] => n = fd[table[n]]
        /\ \A d \in Had[at["main"]] : InHand(d) /\ Flag[d] \subseteq ready

\* No thread exists yet, and the numbers are taken from below.
StartInv ==
    at["main"] \in DOMAIN Used =>
        /\ \A t \in Workers : at[t] = "absent"
        /\ \A n \in Fds : n >= Used[at["main"]] => table[n] = Free

\* What is open for good has a number below every pin.
LowInv == \A n \in Fds : table[n] \in {"std", "db", "url"} \cup Devices => n <= 7

StandardInv == \A n \in Fds : table[n] = "std" => n <= 2

SettledInv ==
    /\ Settled => \A d \in Devices : InHand(d)
    /\ Settled /\ at["main"] # "open" => \E n \in 0..7 : table[n] = "db"
    /\ at["main"] \in {"close", "exit"} => \A t \in Workers : ~ Alive(t)

\* Between two passes the number of the pin is not that of an LED's descriptor.
PinInv ==
    /\ at["database"] # "pass" => table[LedPin] # "led"
    /\ at["database"] = "pass" => fd["led"] \in Fds

IInv == TypeOK /\ InitInv /\ StartInv /\ LowInv /\ StandardInv /\ SettledInv
        /\ StolenOnlyAtPin /\ PinInv /\ LeakStopsAtPin

-----------------------------------------------------------------------------
(* Types *)

USE DEF Pins, Workers, Threads, Devices, Files, Free, Goto, descriptors, starting

\* Every open and close leaves a table behind.
LEMMA TableTypes ==
    ASSUME table \in [Fds -> Files \cup {Free}]
    PROVE  /\ \A n \in Fds, f \in Files : Open(n, f) => table' \in [Fds -> Files \cup {Free}]
           /\ \A S : Close(S) => table' \in [Fds -> Files \cup {Free}]
BY DEF Open, Close, Without

\* The part of TypeOK that is about where the threads are.
PlacesOK ==
    /\ DOMAIN at = Threads
    /\ at["main"] \in Starting \cup {"idle", "busy", "exited"} \cup HandlerPlaces
    /\ at["clock"] \in ClockPlaces \cup Common
    /\ at["database"] \in DatabasePlaces \cup Common
    /\ at["deletion"] \in DeletionPlaces \cup Common

TempPlaces == \A t \in Threads : temp[t] # NoFd => AtWork(t) \/ (t = "main" /\ at[t] \in HandlerPlaces)

USE DEF Starting, HandlerPlaces, ClockPlaces, DatabasePlaces, DeletionPlaces, Common

\* A process that has ended keeps no file and no thread.
LEMMA EndedTypes ==
    ASSUME Ended
    PROVE  /\ table' \in [Fds -> Files \cup {Free}] /\ PlacesOK' /\ TempPlaces'
           /\ temp' \in [Threads -> Fds \cup {NoFd}]
BY DEF Ended, PlacesOK, TempPlaces

LEMMA TypeInit == Init => TypeOK
<1> SUFFICES ASSUME Init PROVE TypeOK
  OBVIOUS
<1>1. table \in [Fds -> Files \cup {Free}] /\ temp \in [Threads -> Fds \cup {NoFd}]
  BY DEF Init
<1>2. fd \in [Devices \cup {"led"} -> Fds \cup {NoFd}]
  BY DEF Init
<1>3. PlacesOK
  BY DEF Init, PlacesOK
<1>4. TempPlaces
  BY DEF Init, TempPlaces
<1>5. ready = {} /\ pins = {} /\ attempts \in 0..MaxRetries /\ display = "nobody"
  BY DEF Init
<1>6. stop \in BOOLEAN /\ collided \in BOOLEAN
  BY DEF Init
<1> QED BY <1>1, <1>2, <1>3, <1>4, <1>5, <1>6 DEF TypeOK, PlacesOK, TempPlaces

\* A failure of init ends the process or goes back to the first pin.
LEMMA TypeInitFails ==
    ASSUME TypeOK, NEW h \in [Devices \cup {"led"} -> Fds \cup {NoFd}],
           at["main"] \in Starting, InitFails(h)
    PROVE  /\ table' \in [Fds -> Files \cup {Free}] /\ PlacesOK' /\ TempPlaces'
           /\ temp' \in [Threads -> Fds \cup {NoFd}]
           /\ fd' \in [Devices \cup {"led"} -> Fds \cup {NoFd}] /\ attempts' \in 0..MaxRetries
<1>1. fd' = h /\ attempts' \in 0..MaxRetries
  BY DEF InitFails, TypeOK
<1>2. CASE Ended
  BY <1>1, <1>2, EndedTypes
<1>3. CASE Close(CleanupNumbers(h)) /\ Goto("main", "gpio") /\ UNCHANGED temp
  <2>1. table' \in [Fds -> Files \cup {Free}]
    BY <1>3, TableTypes DEF TypeOK
  <2>2. PlacesOK'
    BY <1>3 DEF TypeOK, PlacesOK
  <2>3. TempPlaces'
    BY <1>3 DEF TypeOK, TempPlaces, AtWork
  <2> QED BY <1>1, <1>3, <2>1, <2>2, <2>3 DEF TypeOK
<1> QED BY <1>2, <1>3 DEF InitFails

LEMMA TypeStart == TypeOK /\ Start => TypeOK'
<1> SUFFICES ASSUME TypeOK, Start PROVE TypeOK'
  OBVIOUS
<1> USE TableTypes, EndedTypes DEF TypeOK
<1>1. CASE InitGpio
  <2>1. CASE UNCHANGED <<table, descriptors, attempts>> /\ pins' = Pins /\ Goto("main", "i2c")
    BY <1>1, <2>1 DEF InitGpio, AtWork
  <2>2. CASE InitFails(fd) /\ pins' \subseteq Pins
    BY <1>1, <2>2, TypeInitFails DEF InitGpio, PlacesOK, TempPlaces
  <2>3. ASSUME NEW S \in SUBSET Pins, pins' = pins \cup S PROVE pins' \subseteq Pins
    BY <2>3
  <2> QED BY <1>1, <2>1, <2>2, <2>3 DEF InitGpio
<1>2. ASSUME NEW d \in Devices, InitDevice(d) PROVE TypeOK'
  <2>1. ASSUME NEW n \in Fds, Open(n, d), fd' = [fd EXCEPT ![d] = n], ready' = ready \cup Flag[d],
               Goto("main", After[d]), UNCHANGED <<temp, attempts>>
        PROVE  TypeOK'
    <3>1. table' \in [Fds -> Files \cup {Free}]
      BY <2>1
    <3>2. fd' \in [Devices \cup {"led"} -> Fds \cup {NoFd}]
      BY <2>1
    <3>3. ready' \subseteq {"lcd", "keyboard"}
      <4>1. Flag[d] \subseteq {"lcd", "keyboard"}
        BY DEF Flag
      <4> QED BY <2>1, <4>1
    <3>4. After[d] \in {"keyboard", "fpm", "open"} /\ at["main"] = d
      BY <1>2 DEF After, InitDevice
    <3>5. PlacesOK' /\ TempPlaces'
      BY <2>1, <3>4 DEF PlacesOK, TempPlaces, AtWork
    <3> QED BY <1>2, <2>1, <3>1, <3>2, <3>3, <3>5 DEF InitDevice, PlacesOK, TempPlaces
  <2>2. ASSUME NEW n \in Fds \cup {NoFd}, InitFails([fd EXCEPT ![d] = n]), UNCHANGED ready
        PROVE  TypeOK'
    <3>1. [fd EXCEPT ![d] = n] \in [Devices \cup {"led"} -> Fds \cup {NoFd}]
      OBVIOUS
    <3>2. at["main"] \in Starting
      BY <1>2 DEF InitDevice
    <3> QED BY <1>2, <2>2, <3>1, <3>2, TypeInitFails DEF InitDevice, PlacesOK, TempPlaces
  <2>3. OpenError[d] \in Fds \cup {NoFd}
    BY DEF OpenError
  <2> QED BY <1>2, <2>1, <2>2, <2>3 DEF InitDevice
<1>3. CASE OpenDatabase
  BY <1>3 DEF OpenDatabase, AtWork
<1>4. CASE OpenFile
  BY <1>4 DEF OpenFile, AtWork
<1>5. CASE CreateThread
  BY <1>5 DEF CreateThread, AtWork
<1> QED BY <1>1, <1>2, <1>3, <1>4, <1>5 DEF Start

LEMMA TypeWork ==
    TypeOK /\ (Key \/ \E t \in Threads : OpenTemp(t) \/ CloseTemp(t)) => TypeOK'
<1> SUFFICES ASSUME TypeOK PROVE (Key \/ \E t \in Threads : OpenTemp(t) \/ CloseTemp(t)) => TypeOK'
  OBVIOUS
<1> USE TableTypes DEF TypeOK
<1>1. ASSUME Key PROVE TypeOK'
  BY <1>1, SMTT(30) DEF Key, AtWork
<1>2. ASSUME NEW t \in Threads, OpenTemp(t) PROVE TypeOK'
  BY <1>2, SMTT(30) DEF OpenTemp, AtWork
<1>3. ASSUME NEW t \in Threads, CloseTemp(t) PROVE TypeOK'
  BY <1>3 DEF CloseTemp, AtWork
<1> QED BY <1>1, <1>2, <1>3

LEMMA TypeThreads == TypeOK /\ (ClockThread \/ DatabaseThread \/ DeletionThread) => TypeOK'
<1> SUFFICES ASSUME TypeOK PROVE ClockThread \/ DatabaseThread \/ DeletionThread => TypeOK'
  OBVIOUS
<1> USE TableTypes DEF TypeOK
<1>1. ASSUME Date \/ Listen \/ Rest PROVE TypeOK'
  BY <1>1, SMTT(30) DEF Date, Listen, Rest, AtWork
<1>2. ASSUME Upload PROVE TypeOK'
  <2>1. ASSUME NEW n \in Fds, Open(n, "led"), fd' = [fd EXCEPT !["led"] = n],
               collided' = (collided \/ table[LedPin] \in Threads),
               Goto("database", "pass"), at["database"] = "top"
        PROVE  TypeOK'
    <3>1. collided' \in BOOLEAN
      BY <2>1
    <3>2. table' \in [Fds -> Files \cup {Free}]
      BY <2>1
    <3> QED BY <1>2, <2>1, <3>1, <3>2 DEF Upload, AtWork
  <2>2. CASE at["database"] = "pass"
    <3>1. table' \in [Fds -> Files \cup {Free}]
      BY <1>2, <2>2 DEF Upload, ClosePin
    <3>2. fd' \in [Devices \cup {"led"} -> Fds \cup {NoFd}] /\ collided' \in BOOLEAN
      BY <1>2, <2>2 DEF Upload
    <3>3. PlacesOK' /\ TempPlaces'
      BY <1>2, <2>2 DEF Upload, PlacesOK, TempPlaces, AtWork
    <3> QED BY <1>2, <2>2, <3>1, <3>2, <3>3 DEF Upload, PlacesOK, TempPlaces
  <2>3. CASE at["database"] = "sleep"
    BY <1>2, <2>3 DEF Upload, AtWork
  <2> QED BY <1>2, <2>1, <2>2, <2>3 DEF Upload
<1>3. ASSUME Request PROVE TypeOK'
  BY <1>3 DEF Request, AtWork
<1>4. ASSUME NEW t \in Workers, EndThread(t) PROVE TypeOK'
  BY <1>4 DEF EndThread, AtWork
<1> QED BY <1>1, <1>2, <1>3, <1>4 DEF ClockThread, DatabaseThread, DeletionThread

LEMMA TypeExit == TypeOK /\ Exit => TypeOK'
BY EndedTypes DEF TypeOK, Exit, PlacesOK, TempPlaces

LEMMA TypeHandler == TypeOK /\ (Interrupt \/ Handler) => TypeOK'
<1> SUFFICES ASSUME TypeOK PROVE Interrupt \/ Handler => TypeOK'
  OBVIOUS
<1>1. ASSUME Interrupt PROVE TypeOK'
  BY <1>1 DEF TypeOK, Interrupt, AtWork
<1>2. ASSUME WakeWorkers PROVE TypeOK'
  BY <1>2, SMTT(30) DEF TypeOK, WakeWorkers, Woken, AtWork
<1>3. ASSUME Join PROVE TypeOK'
  BY <1>3, TypeExit, SMTT(30) DEF TypeOK, Join, AtWork
<1>4. ASSUME CloseAll PROVE TypeOK'
  BY <1>4, TableTypes DEF TypeOK, CloseAll, AtWork
<1> QED BY <1>1, <1>2, <1>3, <1>4, TypeExit DEF Handler, ExitHandler

LEMMA TypeStep == TypeOK /\ [Next]_vars => TypeOK'
<1>1. TypeOK /\ UNCHANGED vars => TypeOK'
  BY DEF TypeOK, vars, AtWork
<1> QED BY <1>1, TypeStart, TypeWork, TypeThreads, TypeExit, TypeHandler
        DEF Next, StartFails, BuzzerFails, LedFails

\* Types of the process's state, for every pin, table and number of retries.
THEOREM TypeCorrect == Spec => []TypeOK
BY TypeInit, TypeStep, PTL DEF Spec

-----------------------------------------------------------------------------
(* The start *)

LEMMA InvInit == Init => IInv
<1> SUFFICES ASSUME Init PROVE IInv
  OBVIOUS
<1>1. \A n \in Fds : table[n] \in {"std", Free} /\ (table[n] = "std" => n <= 2) /\ (n >= 3 => table[n] = Free)
  BY DEF Init
<1>2. at["main"] = "gpio" /\ (\A t \in Workers : at[t] = "absent") /\ \A t \in Threads : temp[t] = NoFd
  BY DEF Init
<1>3. InitInv /\ StartInv /\ LowInv /\ StandardInv
  BY <1>1, <1>2 DEF InitInv, StartInv, LowInv, StandardInv, Had, Used
<1>4. ~ Settled
  BY <1>2 DEF Settled, Alive
<1>5. SettledInv /\ StolenOnlyAtPin /\ PinInv /\ LeakStopsAtPin
  BY <1>1, <1>2, <1>4 DEF SettledInv, StolenOnlyAtPin, PinInv, LeakStopsAtPin
<1> QED BY <1>3, <1>5, TypeInit DEF IInv

LEMMA InvExit == IInv /\ Exit => IInv'
<1> SUFFICES ASSUME IInv, Exit PROVE IInv'
  OBVIOUS
<1>1. /\ \A n \in Fds : table'[n] = Free
      /\ \A t \in Threads : at'[t] = "exited" /\ temp'[t] = NoFd
  BY DEF Exit, Ended
<1>2. ~ Settled'
  BY <1>1 DEF Settled, Alive
<1>3. InitInv' /\ StartInv' /\ LowInv' /\ StandardInv'
  BY <1>1 DEF InitInv, StartInv, LowInv, StandardInv, Used, Early
<1>4. SettledInv' /\ StolenOnlyAtPin' /\ PinInv' /\ LeakStopsAtPin'
  BY <1>1, <1>2 DEF SettledInv, StolenOnlyAtPin, PinInv, LeakStopsAtPin, Alive
<1> QED BY <1>3, <1>4, TypeExit DEF IInv

\* Nobody has a temporary file before the threads are there.
LEMMA NoTempsEarly ==
    ASSUME IInv, at["main"] \in DOMAIN Used
    PROVE  \A t \in Threads : temp[t] = NoFd
BY DEF IInv, TypeOK, StartInv, AtWork, Used

\* cleanup_resources leaves no device open, whatever flags and numbers earlier
\* attempts have left behind.
LEMMA InvInitFails ==
    ASSUME IInv, TypeOK', at["main"] \in Early, UNCHANGED collided, NEW h, InitFails(h),
           \A d \in Had[at["main"]] : h[d] = fd[d]
    PROVE  IInv'
<1>1. CASE Ended
  <2>1. /\ \A n \in Fds : table'[n] = Free
        /\ \A t \in Threads : at'[t] = "exited" /\ temp'[t] = NoFd
    BY <1>1 DEF Ended
  <2>2. ~ Settled'
    BY <2>1 DEF Settled, Alive
  <2>3. InitInv' /\ StartInv' /\ LowInv' /\ StandardInv'
    BY <2>1 DEF InitInv, StartInv, LowInv, StandardInv, Used, Early
  <2>4. SettledInv' /\ StolenOnlyAtPin' /\ PinInv' /\ LeakStopsAtPin'
    BY <2>1, <2>2 DEF SettledInv, StolenOnlyAtPin, PinInv, LeakStopsAtPin, Alive
  <2> QED BY <2>3, <2>4 DEF IInv
<1>2. CASE Close(CleanupNumbers(h)) /\ Goto("main", "gpio") /\ UNCHANGED temp
  <2>1. at' = [at EXCEPT !["main"] = "gpio"] /\ at'["main"] = "gpio"
    BY <1>2 DEF IInv, TypeOK
  <2>2. \A t \in Workers : at'[t] = "absent"
    BY <2>1 DEF IInv, TypeOK, StartInv, Used, Early
  <2>3. \A t \in Threads : temp'[t] = NoFd
    BY <1>2, NoTempsEarly DEF Early, Used
  <2>4. \A n \in Fds : table'[n] \in {"std", Free} /\ (table'[n] = "std" => table[n] = "std")
    <3> SUFFICES ASSUME NEW n \in Fds
                 PROVE  table'[n] \in {"std", Free} /\ (table'[n] = "std" => table[n] = "std")
      OBVIOUS
    <3>1. CASE table[n] \in Had[at["main"]]
      <4>1. n = h[table[n]] /\ Flag[table[n]] \subseteq ready
        BY <3>1 DEF IInv, InitInv
      <4>2. (table[n] = "i2c" /\ "lcd" \in ready) \/ (table[n] = "keyboard" /\ "keyboard" \in ready)
        <5>1. table[n] \in {"i2c", "keyboard"}
          <6>1. \A a \in Early : Had[a] \subseteq {"i2c", "keyboard"}
            BY DEF Had, Early
          <6> QED BY <3>1, <6>1
        <5>2. CASE table[n] = "i2c"
          <6>1. "lcd" \in Flag[table[n]]
            BY <5>2 DEF Flag
          <6>2. "lcd" \in ready
            BY <4>1, <6>1
          <6> QED BY <5>2, <6>2
        <5>3. CASE table[n] = "keyboard"
          <6>1. "keyboard" \in Flag[table[n]]
            BY <5>3 DEF Flag
          <6>2. "keyboard" \in ready
            BY <4>1, <6>1
          <6> QED BY <5>3, <6>2
        <5> QED BY <5>1, <5>2, <5>3
      <4>3. n \in CleanupNumbers(h)
        BY <4>1, <4>2 DEF CleanupNumbers
      <4> QED BY <1>2, <4>3 DEF Close, Without
    <3>2. CASE table[n] \in {"std", Free}
      BY <1>2, <3>2 DEF Close, Without
    <3> QED BY <3>1, <3>2 DEF IInv, InitInv
  <2>5. StandardInv' /\ LowInv'
    BY <2>4 DEF IInv, StandardInv, LowInv
  <2>6. InitInv' /\ StartInv'
    <3>1. \A n \in Fds : n >= 3 => table'[n] = Free
      BY <2>4, <2>5 DEF StandardInv
    <3> QED BY <2>1, <2>2, <2>4, <3>1 DEF InitInv, StartInv, Used, Had
  <2>7. ~ Settled'
    BY <2>1, <2>2, <2>3 DEF Settled, Alive
  <2>8. SettledInv' /\ StolenOnlyAtPin' /\ PinInv' /\ LeakStopsAtPin'
    BY <2>1, <2>2, <2>3, <2>4, <2>7 DEF SettledInv, StolenOnlyAtPin, PinInv, LeakStopsAtPin
  <2> QED BY <2>5, <2>6, <2>8 DEF IInv
<1> QED BY <1>1, <1>2 DEF InitFails

\* A device gets the lowest free number, which is below those of all pins.
LEMMA InvInitDevice ==
    ASSUME IInv, TypeOK', NEW d \in Devices, InitDevice(d)
    PROVE  IInv'
<1>1. at["main"] = d /\ d \in Early /\ UNCHANGED collided
  BY DEF InitDevice, Early
<1>2. ASSUME NEW n \in Fds, Open(n, d), fd' = [fd EXCEPT ![d] = n], ready' = ready \cup Flag[d],
             Goto("main", After[d]), UNCHANGED temp
      PROVE  IInv'
  <2>1. n <= Used[d] /\ Used[d] \in 3..5
    <3>1. Used[d] \in 3..5
      BY DEF Used
    <3>2. Used[d] \in Fds /\ table[Used[d]] = Free
      BY <1>1, <3>1 DEF IInv, StartInv, Used
    <3> QED BY <1>2, <3>1, <3>2 DEF Open, Lowest
  <2>2. /\ table'[n] = d /\ fd'[d] = n /\ table[n] = Free
        /\ \A k \in Fds : k # n => table'[k] = table[k]
        /\ \A e \in Devices : e # d => fd'[e] = fd[e]
    BY <1>2 DEF Open, Lowest, IInv, TypeOK
  <2>3. at'["main"] = After[d] /\ \A t \in Workers : at'[t] = "absent"
    BY <1>1, <1>2 DEF IInv, TypeOK, StartInv, Used
  <2>4. \A t \in Threads : temp'[t] = NoFd
    BY <1>1, <1>2, NoTempsEarly DEF Used
  <2>5. \A e \in Had[d] : e # d /\ e \in Devices /\ InHand(e) /\ Flag[e] \subseteq ready
    BY <1>1 DEF IInv, InitInv, Had
  <2>6. \A e \in Had[d] \cup {d} : InHand(e)' /\ Flag[e] \subseteq ready'
    <3> SUFFICES ASSUME NEW e \in Had[d] \cup {d} PROVE InHand(e)' /\ Flag[e] \subseteq ready'
      OBVIOUS
    <3>1. CASE e = d
      BY <1>2, <2>1, <2>2, <3>1 DEF InHand
    <3>2. CASE e \in Had[d]
      <4>1. fd'[e] = fd[e] /\ fd[e] \in 0..7 /\ table[fd[e]] = e
        BY <2>2, <2>5, <3>2 DEF InHand
      <4>2. fd[e] # n
        BY <2>2, <2>5, <3>2, <4>1
      <4>3. table'[fd[e]] = e
        BY <2>2, <4>1, <4>2
      <4> QED BY <1>2, <2>5, <3>2, <4>1, <4>3 DEF InHand
    <3> QED BY <3>1, <3>2
  <2>7. LowInv' /\ StandardInv'
    BY <2>1, <2>2 DEF IInv, LowInv, StandardInv
  <2>8. StartInv'
    <3>1. After[d] \in {"keyboard", "fpm", "open"} /\ Used[After[d]] = Used[d] + 1
      BY DEF After, Used
    <3>2. \A k \in Fds : k >= Used[d] => table[k] = Free
      BY <1>1 DEF IInv, StartInv, Used
    <3> QED BY <2>1, <2>2, <2>3, <3>1, <3>2 DEF StartInv
  <2>9. InitInv'
    <3> SUFFICES ASSUME After[d] \in Early PROVE InitInv'
      BY <2>3 DEF InitInv
    <3>1. Had[After[d]] = Had[d] \cup {d}
      BY DEF Had, After, Early
    <3>2. \A k \in Fds : k # n => table[k] \in {"std", Free} \cup Had[d]
      BY <1>1 DEF IInv, InitInv
    <3>3. \A k \in Fds : k # n /\ table[k] \in Had[d] => k = fd[table[k]]
      BY <1>1 DEF IInv, InitInv
    <3>4. \A k \in Fds : table'[k] \in {"std", Free} \cup Had[After[d]]
      BY <2>2, <3>1, <3>2
    <3>5. \A k \in Fds : table'[k] \in Had[After[d]] => k = fd'[table'[k]]
      <4> SUFFICES ASSUME NEW k \in Fds, table'[k] \in Had[After[d]] PROVE k = fd'[table'[k]]
        OBVIOUS
      <4>1. CASE k = n
        BY <2>2, <4>1
      <4>2. CASE k # n
        <5>1. table[k] \in Had[d]
          <6>1. d \notin {"std", Free} \cup Had[d]
            BY <2>5
          <6> QED BY <2>2, <3>1, <3>2, <4>2, <6>1
        <5> QED BY <2>2, <2>5, <3>3, <4>2, <5>1
      <4> QED BY <4>1, <4>2
    <3> QED BY <2>3, <2>6, <3>1, <3>4, <3>5 DEF InitInv
  <2>10. SettledInv'
    <3>1. After[d] = "open" => Had[d] \cup {d} = Devices
      BY DEF Had, After
    <3>2. Settled' => After[d] = "open"
      BY <2>3, <2>4 DEF Settled, Alive, After
    <3>3. at'["main"] \notin {"close", "exit"}
      BY <2>3 DEF After
    <3> QED BY <2>3, <2>6, <3>1, <3>2, <3>3 DEF SettledInv
  <2>11. StolenOnlyAtPin' /\ PinInv'
    <3>1. at'["database"] = "absent" /\ n # LedPin
      BY <2>1, <2>3
    <3> QED BY <1>1, <2>2, <2>4, <3>1 DEF IInv, StolenOnlyAtPin, PinInv, StartInv, Used
  <2>12. LeakStopsAtPin'
    BY <1>1, <2>2 DEF IInv, LeakStopsAtPin
  <2> QED BY <2>7, <2>8, <2>9, <2>10, <2>11, <2>12 DEF IInv
<1>3. ASSUME NEW n, InitFails([fd EXCEPT ![d] = n])
      PROVE  IInv'
  <2>1. d \notin Had[d] /\ Had[d] \subseteq Devices
    BY DEF Had
  <2>2. \A e \in Had[d] : [fd EXCEPT ![d] = n][e] = fd[e]
    BY <2>1 DEF IInv, TypeOK
  <2> QED BY <1>1, <1>3, <2>2, InvInitFails
<1> QED BY <1>2, <1>3 DEF InitDevice

\* The other steps of the start.
LEMMA InvGpio == IInv /\ TypeOK' /\ InitGpio => IInv'
<1> SUFFICES ASSUME IInv, TypeOK', InitGpio PROVE IInv'
  OBVIOUS
<1>1. at["main"] = "gpio" /\ UNCHANGED <<ready, display, stop, collided>>
  BY DEF InitGpio
<1>2. CASE InitFails(fd)
  BY <1>1, <1>2, InvInitFails DEF Early
<1>3. CASE Goto("main", "i2c") /\ UNCHANGED <<table, fd, temp>>
  <2>1. at'["main"] = "i2c" /\ \A t \in Workers : at'[t] = at[t]
    BY <1>3 DEF IInv, TypeOK
  <2>2. \A t \in Workers : at[t] = "absent"
    BY <1>1 DEF IInv, StartInv, Used
  <2>3. \A t \in Threads : temp[t] = NoFd
    BY <1>1, NoTempsEarly DEF Used
  <2>4. InitInv' /\ StartInv' /\ LowInv' /\ StandardInv'
    BY <1>1, <1>3, <2>1, <2>2 DEF IInv, InitInv, StartInv, LowInv, StandardInv, Used, Had, Early
  <2>5. ~ Settled'
    BY <1>3, <2>1, <2>2, <2>3 DEF Settled, Alive
  <2>6. SettledInv' /\ StolenOnlyAtPin' /\ PinInv' /\ LeakStopsAtPin'
    BY <1>1, <1>3, <2>1, <2>2, <2>3, <2>5 DEF IInv, SettledInv, StolenOnlyAtPin, PinInv, LeakStopsAtPin
  <2> QED BY <2>4, <2>6 DEF IInv
<1> QED BY <1>2, <1>3 DEF InitGpio, descriptors

\* The database and file_URL, from the numbers below 8.
LEMMA InvOpenFor ==
    ASSUME IInv, TypeOK', NEW f \in {"db", "url"}, NEW n \in Fds,
           at["main"] \in {"open", "file"}, Open(n, f), UNCHANGED <<fd, temp, collided>>,
           Goto("main", IF f = "db" THEN "file" ELSE "create"), f = "db" <=> at["main"] = "open"
    PROVE  IInv'
<1>1. n <= Used[at["main"]] /\ (at["main"] = "open" => Used[at["main"]] = 6)
      /\ (at["main"] = "file" => Used[at["main"]] = 7)
  BY DEF Open, Lowest, IInv, StartInv, Used
<1>2. n \in 0..7
  BY <1>1
<1>3. /\ table'[n] = f /\ table[n] = Free
      /\ \A k \in Fds : k # n => table'[k] = table[k]
  BY DEF Open, Lowest, IInv, TypeOK
<1>4. /\ at'["main"] = IF f = "db" THEN "file" ELSE "create"
      /\ \A t \in Workers : at'[t] = "absent" /\ at[t] = "absent"
  BY DEF IInv, TypeOK, StartInv, Used
<1>5. \A t \in Threads : temp'[t] = NoFd
  BY NoTempsEarly DEF Used
<1>6. LowInv' /\ StandardInv'
  BY <1>2, <1>3 DEF IInv, LowInv, StandardInv
<1>7. InitInv' /\ StartInv'
  BY <1>1, <1>3, <1>4 DEF IInv, InitInv, StartInv, Early, Used
<1>8. SettledInv'
  <2>1. \A d \in Devices : InHand(d)
    BY DEF IInv, SettledInv, Settled
  <2>2. \A d \in Devices : InHand(d)'
    BY <1>3, <2>1 DEF InHand
  <2>3. \E k \in 0..7 : table'[k] = "db"
    <3>1. CASE f = "db"
      BY <1>2, <1>3, <3>1
    <3>2. CASE f # "db"
      <4>1. PICK k \in 0..7 : table[k] = "db"
        BY <3>2 DEF IInv, SettledInv, Settled
      <4> QED BY <1>3, <4>1
    <3> QED BY <3>1, <3>2
  <2> QED BY <1>4, <2>2, <2>3 DEF SettledInv
<1>9. StolenOnlyAtPin' /\ PinInv' /\ LeakStopsAtPin'
  BY <1>2, <1>3, <1>4, <1>5 DEF IInv, StolenOnlyAtPin, PinInv, LeakStopsAtPin
<1> QED BY <1>6, <1>7, <1>8, <1>9 DEF IInv

LEMMA InvDatabaseFile == IInv /\ TypeOK' /\ (OpenDatabase \/ OpenFile) => IInv'
<1> SUFFICES ASSUME IInv, TypeOK', OpenDatabase \/ OpenFile PROVE IInv'
  OBVIOUS
<1>1. CASE OpenDatabase
  BY <1>1, InvOpenFor DEF OpenDatabase
<1>2. CASE OpenFile
  <2>1. CASE \E n \in Fds : Open(n, "url")
    BY <1>2, <2>1, InvOpenFor DEF OpenFile
  <2>2. CASE UNCHANGED table
    <3>1. at["main"] = "file" /\ at'["main"] = "create" /\ UNCHANGED <<table, fd, temp, collided>>
          /\ \A t \in Workers : at'[t] = "absent" /\ at[t] = "absent"
      BY <1>2, <2>2 DEF OpenFile, IInv, TypeOK, StartInv, Used
    <3>2. InitInv' /\ StartInv' /\ LowInv' /\ StandardInv'
      BY <3>1 DEF IInv, InitInv, StartInv, LowInv, StandardInv, Early, Used
    <3>3. (\A d \in Devices : InHand(d)) /\ \E n \in 0..7 : table[n] = "db"
      BY <3>1 DEF IInv, SettledInv, Settled
    <3>4. SettledInv'
      BY <3>1, <3>3 DEF SettledInv, InHand
    <3>5. StolenOnlyAtPin' /\ PinInv' /\ LeakStopsAtPin'
      BY <3>1 DEF IInv, StolenOnlyAtPin, PinInv, LeakStopsAtPin
    <3> QED BY <3>2, <3>4, <3>5 DEF IInv
  <2> QED BY <1>2, <2>1, <2>2 DEF OpenFile
<1> QED BY <1>1, <1>2

-----------------------------------------------------------------------------
(* Steps that touch no descriptor *)

\* A thread is created, goes on, or ends: while it did not bring one to life that
\* nobody was waiting for, the invariant keeps.
LEMMA InvMove ==
    ASSUME IInv, TypeOK', UNCHANGED <<table, fd, temp, collided>>,
           Settled' => Settled, at'["main"] \notin DOMAIN Used, at'["main"] # "open",
           Settled' => at["main"] # "open",
           at'["main"] \in {"close", "exit"} => \A t \in Workers : ~ Alive(t)',
           at'["database"] = "pass" <=> at["database"] = "pass"
    PROVE  IInv'
<1>1. InitInv' /\ StartInv' /\ LowInv' /\ StandardInv'
  BY DEF IInv, InitInv, StartInv, LowInv, StandardInv, Early, Used
<1>2. SettledInv'
  <2>1. ASSUME Settled' PROVE (\A d \in Devices : InHand(d)) /\ \E n \in 0..7 : table[n] = "db"
    BY <2>1 DEF IInv, SettledInv
  <2> QED BY <2>1 DEF SettledInv, InHand
<1>3. StolenOnlyAtPin' /\ PinInv' /\ LeakStopsAtPin'
  BY DEF IInv, StolenOnlyAtPin, PinInv, LeakStopsAtPin
<1> QED BY <1>1, <1>2, <1>3 DEF IInv

LEMMA InvCreate == IInv /\ TypeOK' /\ CreateThread => IInv'
<1> SUFFICES ASSUME IInv, TypeOK', CreateThread PROVE IInv'
  OBVIOUS
<1>1. /\ UNCHANGED <<table, fd, temp, collided>>
      /\ at["main"] = "create" /\ at'["main"] \in {"create", "idle"}
      /\ at["database"] # "pass" => at'["database"] # "pass"
      /\ at["database"] = "pass" => at'["database"] = "pass"
  BY DEF CreateThread, IInv, TypeOK, descriptors
<1> QED BY <1>1, InvMove DEF Settled, Used

LEMMA InvKey == IInv /\ TypeOK' /\ Key => IInv'
<1> SUFFICES ASSUME IInv, TypeOK', Key PROVE IInv'
  OBVIOUS
<1>1. /\ UNCHANGED <<table, fd, temp, collided>>
      /\ at["main"] \in {"idle", "busy"} /\ at'["main"] \in {"idle", "busy"}
      /\ at'["database"] = at["database"]
  BY DEF Key, IInv, TypeOK, descriptors
<1> QED BY <1>1, InvMove DEF Settled, Used

\* A thread that moves was there before, and main has left the start.
LEMMA InvWorkerMoves ==
    ASSUME IInv, TypeOK', UNCHANGED <<table, fd, temp, collided>>, NEW w \in Workers, Alive(w),
           \A t \in Threads : t # w => at'[t] = at[t],
           at'["database"] = "pass" <=> at["database"] = "pass"
    PROVE  IInv'
<1>1. at["main"] \notin DOMAIN Used
  BY DEF IInv, StartInv, Alive
<1>2. at'["main"] = at["main"] /\ Settled
  BY DEF Settled
<1>3. at["main"] \notin {"close", "exit"}
  BY DEF IInv, SettledInv
<1>4. at["main"] # "open"
  BY <1>1 DEF Used
<1> QED BY <1>1, <1>2, <1>3, <1>4, InvMove

LEMMA InvWorkers ==
    IInv /\ TypeOK' /\ (Date \/ Listen \/ Rest \/ Request \/ \E t \in Workers : EndThread(t)) => IInv'
<1> SUFFICES ASSUME IInv, TypeOK' 
             PROVE  Date \/ Listen \/ Rest \/ Request \/ (\E t \in Workers : EndThread(t)) => IInv'
  OBVIOUS
<1>1. ASSUME Date \/ Listen \/ Rest PROVE IInv'
  <2>1. /\ UNCHANGED <<table, fd, temp, collided>> /\ Alive("clock")
        /\ \A t \in Threads : t # "clock" => at'[t] = at[t]
    BY <1>1 DEF Date, Listen, Rest, IInv, TypeOK, Alive, descriptors
  <2> QED BY <2>1, InvWorkerMoves
<1>2. ASSUME Request PROVE IInv'
  <2>1. /\ UNCHANGED <<table, fd, temp, collided>> /\ Alive("deletion")
        /\ \A t \in Threads : t # "deletion" => at'[t] = at[t]
    BY <1>2 DEF Request, IInv, TypeOK, Alive, descriptors
  <2> QED BY <2>1, InvWorkerMoves
<1>3. ASSUME NEW w \in Workers, EndThread(w) PROVE IInv'
  <2>1. /\ UNCHANGED <<table, fd, temp, collided>> /\ Alive(w)
        /\ \A t \in Threads : t # w => at'[t] = at[t]
        /\ at'["database"] = "pass" <=> at["database"] = "pass"
    BY <1>3 DEF EndThread, IInv, TypeOK, Alive, descriptors
  <2> QED BY <2>1, InvWorkerMoves
<1> QED BY <1>1, <1>2, <1>3

LEMMA InvInterrupt == IInv /\ TypeOK' /\ Interrupt => IInv'
<1> SUFFICES ASSUME IInv, TypeOK', Interrupt PROVE IInv'
  OBVIOUS
<1>1. /\ UNCHANGED <<table, fd, temp, collided>> /\ at'["main"] = "signal"
      /\ \A t \in Workers : at'[t] = at[t]
  BY DEF Interrupt, IInv, TypeOK, descriptors
<1>2. Settled' => Settled /\ at["main"] # "open"
  <2>1. ASSUME at["main"] = "open", Settled' PROVE FALSE
    <3>1. \A t \in Workers : at[t] = "absent"
      BY <2>1 DEF IInv, StartInv, Used
    <3>2. temp["main"] = NoFd
      BY <2>1, NoTempsEarly DEF Used
    <3> QED BY <1>1, <2>1, <3>1, <3>2 DEF Settled, Alive
  <2>2. Settled' => Settled
    BY <1>1 DEF Settled, Alive, Interrupt, IInv, TypeOK
  <2> QED BY <2>1, <2>2
<1> QED BY <1>1, <1>2, InvMove DEF Used

LEMMA InvWakeJoin == IInv /\ TypeOK' /\ (WakeWorkers \/ Join) => IInv'
<1> SUFFICES ASSUME IInv, TypeOK' PROVE WakeWorkers \/ Join => IInv'
  OBVIOUS
<1>1. ASSUME WakeWorkers PROVE IInv'
  <2>1. /\ UNCHANGED <<table, fd, temp, collided>> /\ at'["main"] \in {"signalled", "join"}
        /\ at["main"] \in {"signal", "signalled"}
    BY <1>1 DEF WakeWorkers, IInv, TypeOK, descriptors
  <2>2. \A t \in Workers : (Alive(t)' <=> Alive(t)) /\ (at'[t] = "pass" <=> at[t] = "pass")
    BY <1>1 DEF WakeWorkers, Woken, Alive, IInv, TypeOK
  <2>3. Settled' => Settled
    BY <2>1, <2>2 DEF Settled
  <2> QED BY <2>1, <2>2, <2>3, InvMove DEF Used
<1>2. ASSUME Join PROVE IInv'
  <2>1. CASE Exit
    BY <2>1, InvExit
  <2>2. CASE UNCHANGED <<table, fd, temp, collided>> /\ Goto("main", "close")
             /\ (\A t \in Workers : at[t] \in {"ended", "absent"}) /\ at["main"] = "join"
    <3>1. at'["main"] = "close" /\ \A t \in Workers : at'[t] = at[t] /\ ~ Alive(t)
      BY <2>2 DEF IInv, TypeOK, Alive
    <3>2. Settled' => Settled
      BY <2>2, <3>1 DEF Settled, Alive
    <3> QED BY <2>2, <3>1, <3>2, InvMove DEF Used, Alive
  <2> QED BY <1>2, <2>1, <2>2 DEF Join, descriptors
<1> QED BY <1>1, <1>2

-----------------------------------------------------------------------------
(* Descriptors at work *)

\* An open takes a free number, a thread at work finds the start behind it.
LEMMA InvOpenTemp ==
    ASSUME IInv, TypeOK', NEW t \in Threads, OpenTemp(t)
    PROVE  IInv'
<1>1. PICK n \in Fds : Open(n, t) /\ temp' = [temp EXCEPT ![t] = n]
  BY DEF OpenTemp
<1>2. /\ table'[n] = t /\ table[n] = Free /\ temp'[t] = n
      /\ \A k \in Fds : k # n => table'[k] = table[k]
      /\ \A u \in Threads : u # t => temp'[u] = temp[u]
      /\ UNCHANGED <<fd, at, collided>>
  BY <1>1 DEF OpenTemp, Open, Lowest, IInv, TypeOK
<1>3. at["main"] \notin DOMAIN Used /\ at["main"] # "open"
  BY DEF OpenTemp, AtWork, IInv, StartInv, TypeOK, Used
<1>4. InitInv' /\ StartInv'
  BY <1>2, <1>3 DEF InitInv, StartInv, Early, Used
<1>5. LowInv' /\ StandardInv'
  BY <1>2 DEF IInv, LowInv, StandardInv
<1>6. SettledInv'
  <2>1. Settled' => Settled
    BY <1>2 DEF OpenTemp, AtWork, Settled, Alive
  <2>2. ASSUME Settled PROVE (\A d \in Devices : InHand(d)') /\ \E k \in 0..7 : table'[k] = "db"
    <3>1. \A d \in Devices : InHand(d)
      BY <2>2 DEF IInv, SettledInv
    <3>2. \A d \in Devices : InHand(d)'
      BY <1>2, <3>1 DEF InHand
    <3>3. PICK k \in 0..7 : table[k] = "db"
      BY <1>3, <2>2 DEF IInv, SettledInv
    <3> QED BY <1>2, <3>2, <3>3
  <2>3. at'["main"] \in {"close", "exit"} => \A u \in Workers : ~ Alive(u)'
    BY <1>2 DEF IInv, SettledInv, Alive
  <2> QED BY <2>1, <2>2, <2>3 DEF SettledInv
<1>7. StolenOnlyAtPin'
  BY <1>2 DEF IInv, TypeOK, StolenOnlyAtPin, PinInv
<1>8. PinInv' /\ LeakStopsAtPin'
  BY <1>2 DEF IInv, PinInv, LeakStopsAtPin
<1> QED BY <1>4, <1>5, <1>6, <1>7, <1>8 DEF IInv

\* A close by its owner hits the owner's file, or the number of the pin.
LEMMA InvCloseTemp ==
    ASSUME IInv, TypeOK', NEW t \in Threads, CloseTemp(t)
    PROVE  IInv'
<1> DEFINE n == temp[t]
<1>1. n \in Fds /\ (n = LedPin \/ table[n] = t)
  BY DEF CloseTemp, IInv, TypeOK, StolenOnlyAtPin
<1>2. /\ table'[n] = Free /\ temp'[t] = NoFd
      /\ \A k \in Fds : k # n => table'[k] = table[k]
      /\ \A u \in Threads : u # t => temp'[u] = temp[u]
      /\ UNCHANGED <<fd, at, collided>>
  BY <1>1 DEF CloseTemp, Close, Without, IInv, TypeOK
<1>3. at["main"] \notin DOMAIN Used /\ at["main"] # "open"
  BY NoTempsEarly DEF CloseTemp, Used
<1> HIDE DEF n
<1>4. InitInv' /\ StartInv'
  BY <1>2, <1>3 DEF InitInv, StartInv, Early, Used
<1>5. LowInv' /\ StandardInv'
  BY <1>1, <1>2 DEF IInv, LowInv, StandardInv
<1>6. SettledInv'
  <2>1. Settled' => Settled
    <3>1. temp["main"] = NoFd => temp'["main"] = NoFd
      BY <1>2
    <3> QED BY <1>2, <3>1 DEF Settled, Alive
  <2>2. ASSUME Settled PROVE (\A d \in Devices : InHand(d)') /\ \E k \in 0..7 : table'[k] = "db"
    <3>1. \A d \in Devices : InHand(d)
      BY <2>2 DEF IInv, SettledInv
    <3>2. \A d \in Devices : InHand(d)'
      BY <1>1, <1>2, <3>1 DEF InHand
    <3>3. PICK k \in 0..7 : table[k] = "db"
      BY <1>3, <2>2 DEF IInv, SettledInv
    <3> QED BY <1>1, <1>2, <3>2, <3>3
  <2>3. at'["main"] \in {"close", "exit"} => \A u \in Workers : ~ Alive(u)'
    BY <1>2 DEF IInv, SettledInv, Alive
  <2> QED BY <2>1, <2>2, <2>3 DEF SettledInv
<1>7. StolenOnlyAtPin'
  BY <1>1, <1>2 DEF IInv, TypeOK, StolenOnlyAtPin, PinInv
<1>8. PinInv' /\ LeakStopsAtPin'
  BY <1>1, <1>2 DEF IInv, PinInv, LeakStopsAtPin
<1> QED BY <1>4, <1>5, <1>6, <1>7, <1>8 DEF IInv

\* The pass opens the LED under the lowest number and closes that of the pin.
LEMMA InvUpload == IInv /\ TypeOK' /\ Upload => IInv'
<1> SUFFICES ASSUME IInv, TypeOK', Upload PROVE IInv'
  OBVIOUS
<1>1. Alive("database") /\ at["main"] \notin DOMAIN Used /\ at["main"] \notin {"open", "close", "exit"}
  BY DEF Upload, Alive, IInv, StartInv, SettledInv, Used
<1>2. (\A d \in Devices : InHand(d)) /\ \E k \in 0..7 : table[k] = "db"
  BY <1>1 DEF IInv, SettledInv, Settled
<1>3. ASSUME NEW n \in Fds, Open(n, "led"), fd' = [fd EXCEPT !["led"] = n], UNCHANGED temp,
             collided' = (collided \/ table[LedPin] \in Threads),
             at["database"] = "top", Goto("database", "pass")
      PROVE  IInv'
  <2>1. /\ table'[n] = "led" /\ table[n] = Free /\ fd'["led"] = n
        /\ \A k \in Fds : k # n => table'[k] = table[k]
        /\ \A d \in Devices : fd'[d] = fd[d]
        /\ at'["database"] = "pass" /\ at'["main"] = at["main"]
    BY <1>3 DEF Open, Lowest, IInv, TypeOK
  <2>2. InitInv' /\ StartInv' /\ LowInv' /\ StandardInv'
    BY <1>1, <2>1 DEF IInv, InitInv, StartInv, LowInv, StandardInv, Early, Used
  <2>3. SettledInv'
    <3>1. \A d \in Devices : InHand(d)'
      BY <1>2, <2>1 DEF InHand
    <3>2. \E k \in 0..7 : table'[k] = "db"
      BY <1>2, <2>1
    <3> QED BY <1>1, <2>1, <3>1, <3>2 DEF SettledInv
  <2>4. StolenOnlyAtPin' /\ PinInv'
    BY <1>3, <2>1 DEF IInv, TypeOK, StolenOnlyAtPin, PinInv
  <2>5. LeakStopsAtPin'
    <3>1. CASE n > LedPin
      <4>1. table[LedPin] # Free /\ table[LedPin] # "led"
        BY <1>3, <3>1 DEF Open, Lowest, IInv, PinInv
      <4>2. table[LedPin] \notin {"std", "db", "url"} \cup Devices
        BY DEF IInv, LowInv
      <4>3. table[LedPin] \in Threads
        BY <4>1, <4>2 DEF IInv, TypeOK
      <4> QED BY <1>3, <4>3 DEF LeakStopsAtPin
    <3>2. CASE ~ (n > LedPin)
      BY <1>3, <2>1, <3>2 DEF IInv, LeakStopsAtPin
    <3> QED BY <3>1, <3>2
  <2> QED BY <2>2, <2>3, <2>4, <2>5 DEF IInv
<1>4. CASE at["database"] = "pass"
  <2>1. /\ table'[LedPin] = Free /\ UNCHANGED <<temp, collided>>
        /\ \A k \in Fds : k # LedPin => table'[k] = table[k]
        /\ \A d \in Devices : fd'[d] = fd[d]
        /\ at'["database"] = "sleep" /\ at'["main"] = at["main"]
    BY <1>4 DEF Upload, ClosePin, Close, Without, IInv, TypeOK
  <2>2. InitInv' /\ StartInv' /\ LowInv' /\ StandardInv'
    BY <1>1, <2>1 DEF IInv, InitInv, StartInv, LowInv, StandardInv, Early, Used
  <2>3. SettledInv'
    <3>1. \A d \in Devices : InHand(d)'
      BY <1>2, <2>1 DEF InHand
    <3>2. \E k \in 0..7 : table'[k] = "db"
      BY <1>2, <2>1
    <3> QED BY <1>1, <2>1, <3>1, <3>2 DEF SettledInv
  <2>4. StolenOnlyAtPin' /\ PinInv' /\ LeakStopsAtPin'
    BY <2>1 DEF IInv, TypeOK, StolenOnlyAtPin, PinInv, LeakStopsAtPin
  <2> QED BY <2>2, <2>3, <2>4 DEF IInv
<1>5. CASE at["database"] = "sleep"
  <2>1. /\ UNCHANGED <<table, fd, temp, collided>> /\ at'["database"] = "top"
        /\ \A t \in Threads : t # "database" => at'[t] = at[t]
    BY <1>5 DEF Upload, IInv, TypeOK
  <2> QED BY <1>1, <1>5, <2>1, InvWorkerMoves
<1> QED BY <1>3, <1>4, <1>5 DEF Upload

LEMMA InvCloseAll == IInv /\ TypeOK' /\ CloseAll => IInv'
<1> SUFFICES ASSUME IInv, TypeOK', CloseAll PROVE IInv'
  OBVIOUS
<1>1. PICK F \in {{"url"}, {"url", "db"}} :
         Close({fd[d] : d \in Devices} \cup {n \in Fds : table[n] \in F})
  BY DEF CloseAll
<1>2. /\ \A n \in Fds : table'[n] \in {table[n], Free}
      /\ at'["main"] = "exit" /\ (\A t \in Workers : at'[t] = at[t] /\ ~ Alive(t))
      /\ UNCHANGED <<fd, temp, collided>>
  BY <1>1 DEF CloseAll, Close, Without, IInv, TypeOK, SettledInv, descriptors
<1>3. ~ Settled'
  BY <1>2 DEF Settled, Alive
<1>4. InitInv' /\ StartInv' /\ LowInv' /\ StandardInv' /\ SettledInv'
  BY <1>2, <1>3 DEF IInv, InitInv, StartInv, LowInv, StandardInv, SettledInv, Early, Used, Alive
<1>5. StolenOnlyAtPin'
  <2>1. ASSUME NEW t \in Threads, temp[t] \notin {NoFd, LedPin} PROVE table'[temp[t]] = t
    <3>1. t = "main" /\ table[temp[t]] = "main" /\ temp[t] \in Fds
      BY <1>2, <2>1 DEF IInv, TypeOK, AtWork, Alive, StolenOnlyAtPin
    <3>2. \A d \in Devices : table[fd[d]] = d
      BY <2>1, <3>1 DEF CloseAll, IInv, SettledInv, Settled, InHand
    <3>3. temp[t] \notin {fd[d] : d \in Devices} \cup {n \in Fds : table[n] \in F}
      BY <3>1, <3>2
    <3> QED BY <1>1, <3>1, <3>3 DEF Close, Without
  <2> QED BY <1>2, <2>1 DEF StolenOnlyAtPin, Alive
<1>6. PinInv' /\ LeakStopsAtPin'
  BY <1>2 DEF IInv, PinInv, LeakStopsAtPin, Alive
<1> QED BY <1>4, <1>5, <1>6 DEF IInv

-----------------------------------------------------------------------------
(* The theorems *)

LEMMA InvNext == IInv /\ [Next]_vars => IInv'
<1> SUFFICES ASSUME IInv, [Next]_vars PROVE IInv'
  OBVIOUS
<1>1. TypeOK'
  BY TypeStep DEF IInv
<1>2. CASE Start
  BY <1>1, <1>2, InvGpio, InvInitDevice, InvDatabaseFile, InvCreate DEF Start
<1>3. CASE StartFails \/ BuzzerFails \/ LedFails
  BY <1>3, InvExit DEF StartFails, BuzzerFails, LedFails
<1>4. CASE Key \/ \E t \in Threads : OpenTemp(t) \/ CloseTemp(t)
  BY <1>1, <1>4, InvKey, InvOpenTemp, InvCloseTemp
<1>5. CASE ClockThread \/ DatabaseThread \/ DeletionThread
  BY <1>1, <1>5, InvWorkers, InvUpload DEF ClockThread, DatabaseThread, DeletionThread
<1>6. CASE Interrupt \/ Handler
  BY <1>1, <1>6, InvInterrupt, InvWakeJoin, InvCloseAll, InvExit DEF Handler, ExitHandler
<1>7. CASE UNCHANGED vars
  BY <1>1, <1>7 DEF vars, IInv, InitInv, StartInv, LowInv, StandardInv, SettledInv, Settled, Alive,
                    InHand, StolenOnlyAtPin, PinInv, LeakStopsAtPin
<1> QED BY <1>2, <1>3, <1>4, <1>5, <1>6, <1>7 DEF Next

LEMMA Invariance == Spec => []IInv
BY InvInit, InvNext, PTL DEF Spec

\* While threads run, the devices and the database are open under the numbers the
\* program uses, and every attempt of init starts with no device open.
THEOREM DevicesKept == Spec => []DevicesInHand
<1>1. IInv => DevicesInHand
  <2> SUFFICES ASSUME IInv PROVE DevicesInHand
    OBVIOUS
  <2>1. ASSUME Serving PROVE (\A d \in Devices : InHand(d)) /\ \E n \in 0..7 : table[n] = "db"
    BY <2>1 DEF Serving, IInv, SettledInv, Settled, StartInv, Alive, Used
  <2>2. at["main"] = "gpio" => \A n \in Fds : table[n] \notin Devices
    BY DEF IInv, InitInv, Had, Early
  <2> QED BY <2>1, <2>2 DEF DevicesInHand, InHand
<1> QED BY <1>1, Invariance, PTL

\* Closing the pin in place of the descriptor costs only a temporary file that has
\* the number of the pin, and the leak of databaseThread does not go past it.
THEOREM PinHarm == Spec => []PinHarmBounded
<1>1. IInv => PinHarmBounded
  BY DEF IInv, PinHarmBounded
<1> QED BY <1>1, Invariance, PTL
=============================================================================
