----------------------------- MODULE Locks_proofs -----------------------------
(***************************************************************************)
(* Proofs about Locks, for any number of attempts, rows and elements.      *)
(***************************************************************************)
EXTENDS Locks, TLAPS

USE DEF Threads, Mutexes, Nobody

-----------------------------------------------------------------------------
(* Sections *)

\* Who is inside a section of display or sql holds its mutex.  For http this is
\* false: EndOfList may have unlocked it.
Owned ==
    \A m \in {"display", "sql"}, t \in Threads : InSection(m, t) => owner[m] = t

SectionInv ==
    /\ DOMAIN owner = Mutexes /\ DOMAIN place = Threads
    /\ Owned
    /\ LocksReleased

\* A move between two places in the same sections, m set aside.
Fits(m, from, to) ==
    \A n \in Mutexes : n # m => (from \in Inside[n] <=> to \in Inside[n])

LEMMA GotoEffect ==
    ASSUME DOMAIN place = Threads, NEW t \in Threads, NEW to, Goto(t, to)
    PROVE  /\ DOMAIN place' = Threads /\ place'[t] = to
           /\ \A u \in Threads : u # t => place'[u] = place[u]
  BY DEF Goto

\* A step that locks and unlocks nothing and stays in its sections.
LEMMA StepKeeps ==
    ASSUME SectionInv, NEW t \in Threads, NEW from, NEW to, Step(t, from, to),
           Fits("none", from, to), UNCHANGED leaked
    PROVE  SectionInv'
<1>1. /\ DOMAIN place' = Threads /\ owner' = owner
      /\ \A m \in Mutexes, u \in Threads : InSection(m, u)' <=> InSection(m, u)
  BY GotoEffect DEF SectionInv, Step, Fits, InSection
<1>2. DOMAIN owner' = Mutexes
  BY <1>1 DEF SectionInv
<1>3. Owned'
  BY <1>1 DEF SectionInv, Owned
<1>4. LocksReleased'
  BY <1>1 DEF SectionInv, LocksReleased
<1> QED
  BY <1>1, <1>2, <1>3, <1>4 DEF SectionInv

\* A lock: nobody was inside, because somebody inside would hold the mutex.
\* Only a lock of http may lead outside its section, when curl_easy_init fails.
LEMMA LockKeeps ==
    ASSUME SectionInv, NEW t \in Threads, NEW m \in Mutexes, NEW from, NEW to,
           Lock(t, m, from, to), Fits(m, from, to),
           \/ to \in Inside[m] /\ UNCHANGED leaked
           \/ m = "http" /\ leaked'
    PROVE  SectionInv'
<1>1. /\ DOMAIN place' = Threads /\ DOMAIN owner' = Mutexes
      /\ owner[m] = Nobody /\ owner'[m] = t
      /\ \A n \in Mutexes : n # m => owner'[n] = owner[n]
  BY GotoEffect DEF SectionInv, Lock
<1>2. /\ place'[t] = to /\ place[t] = from
      /\ \A u \in Threads : u # t => place'[u] = place[u]
  BY GotoEffect DEF SectionInv, Lock
<1>3. ASSUME NEW n \in {"display", "sql"}, NEW u \in Threads, InSection(n, u)'
      PROVE  owner'[n] = u
  <2>1. CASE n # m
    <3>1. InSection(n, u)
      BY <1>2, <1>3, <2>1 DEF InSection, Fits
    <3> QED
      BY <1>1, <2>1, <3>1 DEF SectionInv, Owned
  <2>2. CASE n = m
    <3>1. CASE u = t
      BY <1>1, <2>2, <3>1
    <3>2. CASE u # t
      <4>1. InSection(n, u)
        BY <1>2, <1>3, <3>2 DEF InSection
      <4>2. owner[n] = u
        BY <4>1 DEF SectionInv, Owned
      <4> QED
        BY <1>1, <2>2, <4>2
    <3> QED
      BY <3>1, <3>2
  <2> QED
    BY <2>1, <2>2
<1>4. ASSUME ~ leaked', NEW n \in Mutexes, NEW u \in Threads, owner'[n] = u
      PROVE  InSection(n, u)'
  <2>1. CASE n # m
    <3>1. owner[n] = u
      BY <1>1, <1>4, <2>1
    <3>2. InSection(n, u)
      BY <1>4, <3>1 DEF SectionInv, LocksReleased
    <3> QED
      BY <1>2, <2>1, <3>2 DEF InSection, Fits
  <2>2. CASE n = m
    BY <1>1, <1>2, <1>4, <2>2 DEF InSection
  <2> QED
    BY <2>1, <2>2
<1> QED
  BY <1>1, <1>3, <1>4 DEF SectionInv, Owned, LocksReleased

\* An unlock of display or sql comes from inside, where nobody else is.
LEMMA UnlockKeeps ==
    ASSUME SectionInv, NEW t \in Threads, NEW m \in Mutexes, NEW from, NEW to,
           Unlock(t, m, from, to), Fits(m, from, to), to \notin Inside[m],
           from \in Inside[m] \/ m = "http", UNCHANGED leaked
    PROVE  SectionInv'
<1>1. /\ DOMAIN place' = Threads /\ DOMAIN owner' = Mutexes /\ owner'[m] = Nobody
      /\ \A n \in Mutexes : n # m => owner'[n] = owner[n]
  BY GotoEffect DEF SectionInv, Unlock, Freed
<1>2. /\ place'[t] = to /\ place[t] = from
      /\ \A u \in Threads : u # t => place'[u] = place[u]
  BY GotoEffect DEF SectionInv, Unlock
<1>3. ASSUME NEW n \in {"display", "sql"}, NEW u \in Threads, InSection(n, u)'
      PROVE  owner'[n] = u
  <2>1. CASE n # m
    <3>1. InSection(n, u)
      BY <1>2, <1>3, <2>1 DEF InSection, Fits
    <3> QED
      BY <1>1, <2>1, <3>1 DEF SectionInv, Owned
  <2>2. CASE n = m
    <3>1. u # t
      BY <1>2, <1>3, <2>2 DEF InSection
    <3>2. InSection(n, u) /\ InSection(n, t)
      BY <1>2, <1>3, <2>2, <3>1 DEF InSection
    <3>3. owner[n] = u /\ owner[n] = t
      BY <3>2 DEF SectionInv, Owned
    <3> QED
      BY <3>1, <3>3
  <2> QED
    BY <2>1, <2>2
<1>4. ASSUME ~ leaked', NEW n \in Mutexes, NEW u \in Threads, owner'[n] = u
      PROVE  InSection(n, u)'
  <2>1. n # m
    BY <1>1, <1>4
  <2>2. owner[n] = u
    BY <1>1, <1>4, <2>1
  <2>3. InSection(n, u)
    BY <1>4, <2>2 DEF SectionInv, LocksReleased
  <2> QED
    BY <1>2, <2>1, <2>3 DEF InSection, Fits
<1> QED
  BY <1>1, <1>3, <1>4 DEF SectionInv, Owned, LocksReleased

\* send_post_request from a place outside http.
LEMMA SendPostKeeps ==
    ASSUME SectionInv, NEW t \in Threads, NEW from, NEW inside, NEW ok, NEW failed,
           SendPost(t, from, inside, ok, failed),
           Fits("http", from, inside), Fits("http", from, failed),
           Fits("http", inside, ok), Fits("http", inside, failed),
           inside \in Inside["http"], ok \notin Inside["http"], failed \notin Inside["http"]
    PROVE  SectionInv'
<1>1. CASE Lock(t, "http", from, inside) /\ UNCHANGED leaked
  BY <1>1, LockKeeps
<1>2. CASE Lock(t, "http", from, failed) /\ leaked' = TRUE
  BY <1>2, LockKeeps
<1>3. CASE Unlock(t, "http", inside, ok) /\ UNCHANGED leaked
  BY <1>3, UnlockKeeps
<1>4. CASE Unlock(t, "http", inside, failed) /\ UNCHANGED leaked
  BY <1>4, UnlockKeeps
<1> QED
  BY <1>1, <1>2, <1>3, <1>4 DEF SendPost

LEMMA MainSections == ASSUME SectionInv, PressKey \/ MainThread PROVE SectionInv'
<1>1. CASE PressKey
  BY <1>1, StepKeeps DEF PressKey, Fits, Inside
<1>2. CASE TakeDisplay /\ UNCHANGED leaked
  BY <1>2, LockKeeps DEF TakeDisplay, Fits, Inside
<1>3. CASE Scan /\ UNCHANGED leaked
  BY <1>3, StepKeeps DEF Scan, Fits, Inside
<1>4. CASE Check /\ UNCHANGED leaked
  BY <1>4, LockKeeps, UnlockKeeps DEF Check, Fits, Inside
<1>5. CASE Write /\ UNCHANGED leaked
  BY <1>5, LockKeeps, UnlockKeeps DEF Write, Fits, Inside
<1>6. CASE Enrol /\ UNCHANGED leaked
  BY <1>6, StepKeeps DEF Enrol, Fits, Inside
<1>7. CASE NewEmployee /\ UNCHANGED leaked
  BY <1>7, LockKeeps, UnlockKeeps DEF NewEmployee, Fits, Inside
<1>8. CASE Report
  <2>1. \/ SendPost("main", "report", "reporting", "done", "report")
        \/ SendPost("main", "report", "reporting", "done", "remove")
    BY <1>8 DEF Report
  <2> QED
    BY <2>1, SendPostKeeps DEF Fits, Inside
<1>9. CASE Remove /\ UNCHANGED leaked
  BY <1>9, LockKeeps, UnlockKeeps DEF Remove, Fits, Inside
<1>10. CASE SignalDisplay /\ UNCHANGED leaked
  <2>1. /\ owner' = owner /\ DOMAIN place' = Threads
        /\ place["main"] = "done" /\ place'["main"] = "clear"
        /\ place'["clock"] = Woken(place["clock"])
        /\ \A u \in {"database", "deletion"} : place'[u] = place[u]
    BY <1>10 DEF SignalDisplay, SectionInv
  <2>2. \A m \in Mutexes : Woken(place["clock"]) \in Inside[m] <=> place["clock"] \in Inside[m]
    BY DEF Woken, Inside
  <2>3. \A m \in Mutexes : "clear" \in Inside[m] <=> "done" \in Inside[m]
    BY DEF Inside
  <2>4. \A m \in Mutexes, u \in Threads : InSection(m, u)' <=> InSection(m, u)
    BY <2>1, <2>2, <2>3 DEF InSection
  <2> QED
    BY <1>10, <2>1, <2>4 DEF SectionInv, Owned, LocksReleased
<1>11. CASE GiveDisplay /\ UNCHANGED leaked
  BY <1>11, UnlockKeeps DEF GiveDisplay, Fits, Inside
<1> QED
  BY <1>1, <1>2, <1>3, <1>4, <1>5, <1>6, <1>7, <1>8, <1>9, <1>10, <1>11 DEF MainThread

LEMMA ClockSections == ASSUME SectionInv, ClockThread PROVE SectionInv'
<1>1. CASE Date /\ UNCHANGED leaked
  BY <1>1, StepKeeps DEF Date, Fits, Inside
<1>2. CASE Purge /\ UNCHANGED leaked
  BY <1>2, LockKeeps, UnlockKeeps DEF Purge, Fits, Inside
<1>3. CASE AwaitDisplay /\ UNCHANGED leaked
  BY <1>3, StepKeeps, LockKeeps, UnlockKeeps DEF AwaitDisplay, Fits, Inside
<1>4. CASE ShowTime /\ UNCHANGED leaked
  BY <1>4, StepKeeps, LockKeeps, UnlockKeeps DEF ShowTime, Fits, Inside
<1> QED
  BY <1>1, <1>2, <1>3, <1>4 DEF ClockThread

LEMMA DatabaseSections == ASSUME SectionInv, DatabaseThread PROVE SectionInv'
<1>1. CASE Pass /\ UNCHANGED leaked
  BY <1>1, StepKeeps, LockKeeps, UnlockKeeps DEF Pass, Fits, Inside
<1>2. CASE Post
  BY <1>2, SendPostKeeps DEF Post, Fits, Inside
<1>3. CASE Sleep /\ UNCHANGED leaked
  BY <1>3, StepKeeps DEF Sleep, Fits, Inside
<1> QED
  BY <1>1, <1>2, <1>3 DEF DatabaseThread

LEMMA DeletionSections == ASSUME SectionInv, DeletionThread PROVE SectionInv'
<1>1. CASE Get /\ UNCHANGED leaked
  <2>1. CASE Lock("deletion", "http", "get", "getting")
    BY <1>1, <2>1, LockKeeps DEF Fits, Inside
  <2>2. CASE \E to \in {"get", "pause", "list"} : Unlock("deletion", "http", "getting", to)
    BY <1>1, <2>2, UnlockKeeps DEF Fits, Inside
  <2> QED
    BY <1>1, <2>1, <2>2 DEF Get, BeforeResponse, Unlock
<1>2. CASE Verify /\ UNCHANGED leaked
  BY <1>2, StepKeeps, LockKeeps, UnlockKeeps DEF Verify, Fits, Inside
<1>3. CASE Delete /\ UNCHANGED leaked
  BY <1>3, LockKeeps, UnlockKeeps DEF Delete, Fits, Inside
<1>4. CASE Erase /\ UNCHANGED leaked
  BY <1>4, StepKeeps, LockKeeps, UnlockKeeps DEF Erase, Fits, Inside
<1>5. CASE Acknowledge /\ UNCHANGED leaked
  BY <1>5, LockKeeps, UnlockKeeps DEF Acknowledge, Fits, Inside
<1>6. CASE EndOfList /\ UNCHANGED leaked
  BY <1>6, UnlockKeeps DEF EndOfList, Fits, Inside
<1>7. CASE Pause /\ UNCHANGED leaked
  BY <1>7, StepKeeps DEF Pause, Fits, Inside
<1> QED
  BY <1>1, <1>2, <1>3, <1>4, <1>5, <1>6, <1>7 DEF DeletionThread

LEMMA SectionInit == ASSUME Init PROVE SectionInv
  BY DEF Init, SectionInv, Owned, LocksReleased, InSection, Inside

LEMMA SectionInvariant == Spec => []SectionInv
<1>1. SectionInv /\ [Next]_vars => SectionInv'
  <2>1. ASSUME SectionInv, UNCHANGED vars PROVE SectionInv'
    BY <2>1 DEF vars, SectionInv, Owned, LocksReleased, InSection
  <2> QED
    BY <2>1, MainSections, ClockSections, DatabaseSections, DeletionSections DEF Next
<1> QED
  BY <1>1, SectionInit, PTL DEF Spec

-----------------------------------------------------------------------------
(* Types *)

\* A move of one thread between its own places.
LEMMA GotoTyped ==
    ASSUME TypeOK, NEW t \in Threads, NEW to, Goto(t, to),
           /\ t = "main"     => to \in MainPlaces
           /\ t = "clock"    => to \in ClockPlaces
           /\ t = "database" => to \in DatabasePlaces
           /\ t = "deletion" => to \in DeletionPlaces
    PROVE  /\ DOMAIN place' = Threads
           /\ place'["main"] \in MainPlaces /\ place'["clock"] \in ClockPlaces
           /\ place'["database"] \in DatabasePlaces /\ place'["deletion"] \in DeletionPlaces
<1>1. /\ DOMAIN place' = Threads /\ place'[t] = to
      /\ \A u \in Threads : u # t => place'[u] = place[u]
  BY GotoEffect DEF TypeOK
<1> QED
  BY <1>1 DEF TypeOK

\* The owners stay owners.
LEMMA OwnerTyped ==
    ASSUME TypeOK, NEW t \in Threads, NEW m \in Mutexes,
           \/ UNCHANGED owner \/ owner' = [owner EXCEPT ![m] = t] \/ Freed(m)
    PROVE  owner' \in [Mutexes -> Threads \cup {Nobody}]
  BY DEF TypeOK, Freed

\* Any of the three moves.
Moves(t, to) ==
    /\ Goto(t, to)
    /\ \/ UNCHANGED owner
       \/ \E m \in Mutexes : owner' = [owner EXCEPT ![m] = t] \/ Freed(m)

LEMMA MovesTyped ==
    ASSUME TypeOK, NEW t \in Threads, NEW to, Moves(t, to),
           /\ t = "main"     => to \in MainPlaces
           /\ t = "clock"    => to \in ClockPlaces
           /\ t = "database" => to \in DatabasePlaces
           /\ t = "deletion" => to \in DeletionPlaces,
           tries' \in 0..MaxRetries - 1, rows' \in 0..MaxRows, items' \in 0..MaxItems,
           IF t = "deletion" THEN to \in Handling => items' > 0 ELSE items' = items,
           leaked' \in BOOLEAN
    PROVE  TypeOK'
<1>1. owner' \in [Mutexes -> Threads \cup {Nobody}]
  BY OwnerTyped DEF Moves
<1>2. /\ DOMAIN place' = Threads
      /\ place'["main"] \in MainPlaces /\ place'["clock"] \in ClockPlaces
      /\ place'["database"] \in DatabasePlaces /\ place'["deletion"] \in DeletionPlaces
  BY GotoTyped DEF Moves
<1>3. place'["deletion"] \in Handling => items' > 0
  <2>1. /\ place'[t] = to
        /\ \A u \in Threads : u # t => place'[u] = place[u]
    BY GotoEffect DEF TypeOK, Moves
  <2>2. CASE t = "deletion"
    BY <2>1, <2>2
  <2>3. CASE t # "deletion"
    BY <2>1, <2>3 DEF TypeOK
  <2> QED
    BY <2>2, <2>3
<1> QED
  BY <1>1, <1>2, <1>3 DEF TypeOK

\* Only send_post_request touches the history variable.
LEMMA LeakTyped == ASSUME TypeOK, Next PROVE leaked' \in BOOLEAN
<1>1. leaked \in BOOLEAN
  BY DEF TypeOK
<1>2. leaked' = leaked \/ leaked' = TRUE
  BY DEF Next, PressKey, MainThread, Report, ClockThread, DatabaseThread, Post,
         DeletionThread, SendPost
<1> QED
  BY <1>1, <1>2

\* Every step of main but the signal is a move of main and counts as it may.
LEMMA MainTyped ==
    ASSUME TypeOK, PressKey \/ MainThread
    PROVE  TypeOK'
<1> USE LocksAssumption DEF LocksAssumption
<1>1. CASE SignalDisplay
  <2>1. Woken(place["clock"]) \in ClockPlaces
    BY DEF TypeOK, Woken, ClockPlaces
  <2>2. /\ DOMAIN place' = Threads
        /\ place'["main"] = "clear" /\ place'["clock"] = Woken(place["clock"])
        /\ place'["database"] = place["database"] /\ place'["deletion"] = place["deletion"]
    BY <1>1 DEF SignalDisplay, TypeOK
  <2>3. "clear" \in MainPlaces
    BY DEF MainPlaces
  <2>4. leaked' \in BOOLEAN
    BY LeakTyped DEF Next
  <2> QED
    BY <1>1, <2>1, <2>2, <2>3, <2>4 DEF SignalDisplay, TypeOK, counters
<1>2. ASSUME PressKey \/ TakeDisplay \/ Scan \/ Check \/ Write \/ Enrol \/ NewEmployee
             \/ Report \/ Remove \/ GiveDisplay
      PROVE  /\ \E to \in MainPlaces : Moves("main", to)
             /\ tries' \in 0..MaxRetries - 1 /\ rows' = rows /\ items' = items
  <2> USE DEF Moves, Step, Lock, Unlock, MainPlaces, counters
  <2>1. CASE PressKey
    BY <2>1 DEF PressKey, TypeOK
  <2>2. CASE TakeDisplay
    BY <2>2 DEF TakeDisplay, TypeOK
  <2>3. CASE Scan
    BY <2>3 DEF Scan, TypeOK
  <2>4. CASE Check
    BY <2>4 DEF Check, TypeOK
  <2>5. CASE Write
    BY <2>5 DEF Write, MoreTries, TypeOK
  <2>6. CASE Enrol
    BY <2>6 DEF Enrol, TypeOK
  <2>7. CASE NewEmployee
    BY <2>7 DEF NewEmployee, TypeOK
  <2>8. CASE Report
    <3> DEFINE after == IF MoreTries THEN "report" ELSE "remove"
    <3>0. after \in {"report", "remove"} /\ SendPost("main", "report", "reporting", "done", after)
      BY <2>8 DEF Report
    <3>1. \E to \in MainPlaces : Moves("main", to)
      <4> HIDE DEF after
      <4> QED
        BY <3>0 DEF SendPost
    <3>2. rows' = rows /\ items' = items
      BY <2>8 DEF Report
    <3>3. CASE MoreTries
      <4>1. tries + 1 \in 0..MaxRetries - 1 /\ tries \in 0..MaxRetries - 1
        BY <3>3 DEF MoreTries, TypeOK
      <4>2. tries' = tries + 1 \/ tries' = tries
        BY <2>8 DEF Report
      <4> QED
        BY <3>1, <3>2, <4>1, <4>2
    <3>4. CASE ~ MoreTries
      <4>1. place'["main"] # "report"
        <5>1. SendPost("main", "report", "reporting", "done", "remove")
          BY <3>0, <3>4
        <5>2. \E to \in {"reporting", "done", "remove"} : Goto("main", to)
          BY <5>1 DEF SendPost
        <5> QED
          BY <5>2, GotoEffect DEF TypeOK
      <4>2. tries' = tries /\ tries \in 0..MaxRetries - 1
        BY <2>8, <4>1 DEF Report, TypeOK
      <4> QED
        BY <3>1, <3>2, <4>2
    <3> QED
      BY <3>1, <3>2, <3>3, <3>4
  <2>9. CASE Remove
    BY <2>9 DEF Remove, TypeOK
  <2>10. CASE GiveDisplay
    BY <2>10 DEF GiveDisplay, TypeOK
  <2> QED
    BY <1>2, <2>1, <2>2, <2>3, <2>4, <2>5, <2>6, <2>7, <2>8, <2>9, <2>10
<1>3. ASSUME PressKey \/ TakeDisplay \/ Scan \/ Check \/ Write \/ Enrol \/ NewEmployee
             \/ Report \/ Remove \/ GiveDisplay
      PROVE  TypeOK'
  <2>1. PICK to \in MainPlaces : Moves("main", to)
    BY <1>2, <1>3
  <2>2. /\ tries' \in 0..MaxRetries - 1 /\ rows' \in 0..MaxRows
        /\ items' \in 0..MaxItems /\ items' = items
    BY <1>2, <1>3 DEF TypeOK
  <2>3. leaked' \in BOOLEAN
    BY LeakTyped DEF Next
  <2> QED
    BY <2>1, <2>2, <2>3, MovesTyped
<1> QED
  BY <1>1, <1>3 DEF MainThread

LEMMA ClockTyped == ASSUME TypeOK, ClockThread PROVE TypeOK'
<1>1. PICK to \in ClockPlaces : Moves("clock", to)
  BY DEF ClockThread, Date, Purge, AwaitDisplay, ShowTime, Moves, Step, Lock, Unlock, ClockPlaces
<1>2. UNCHANGED counters
  BY DEF ClockThread, Date, Purge, AwaitDisplay, ShowTime
<1>3. /\ tries' \in 0..MaxRetries - 1 /\ rows' \in 0..MaxRows
      /\ items' \in 0..MaxItems /\ items' = items
  BY <1>2 DEF TypeOK, counters
<1>4. leaked' \in BOOLEAN
  BY LeakTyped DEF Next
<1> QED
  BY <1>1, <1>3, <1>4, MovesTyped

LEMMA DatabaseTyped == ASSUME TypeOK, DatabaseThread PROVE TypeOK'
<1> USE LocksAssumption DEF LocksAssumption
<1>1. PICK to \in DatabasePlaces : Moves("database", to)
  BY DEF DatabaseThread, Pass, Post, Sleep, SendPost, Moves, Step, Lock, Unlock, DatabasePlaces
<1>2. tries' = tries /\ items' = items
  BY DEF DatabaseThread, Pass, Post, Sleep, counters
<1>3. rows' \in 0..MaxRows
  BY DEF DatabaseThread, Pass, Post, Sleep, counters, TypeOK
<1>4. tries' \in 0..MaxRetries - 1 /\ items' \in 0..MaxItems
  BY <1>2 DEF TypeOK
<1>5. leaked' \in BOOLEAN
  BY LeakTyped DEF Next
<1> QED
  BY <1>1, <1>2, <1>3, <1>4, <1>5, MovesTyped

\* What each step of the deletion thread makes of the element in hand.
LEMMA DeletionTyped == ASSUME TypeOK, DeletionThread PROVE TypeOK'
<1> USE LocksAssumption DEF LocksAssumption
<1> USE DEF Moves, Step, Lock, Unlock
<1>1. PICK to \in DeletionPlaces : /\ Moves("deletion", to)
                                   /\ items' \in 0..MaxItems
                                   /\ to \in Handling => items' > 0
  <2> USE DEF DeletionPlaces, Handling
  <2>1. CASE Get
    BY <2>1 DEF Get, BeforeResponse, counters, TypeOK
  <2>2. CASE Verify
    BY <2>2 DEF Verify, TypeOK
  <2>3. CASE Delete
    BY <2>3 DEF Delete, TypeOK
  <2>4. CASE Erase
    BY <2>4 DEF Erase, TypeOK
  <2>5. CASE Acknowledge
    BY <2>5 DEF Acknowledge, TypeOK
  <2>6. CASE EndOfList
    BY <2>6 DEF EndOfList, counters, TypeOK
  <2>7. CASE Pause
    BY <2>7 DEF Pause, counters, TypeOK
  <2> QED
    BY <2>1, <2>2, <2>3, <2>4, <2>5, <2>6, <2>7 DEF DeletionThread
<1>2. tries' = tries /\ rows' = rows
  BY DEF DeletionThread, Get, Verify, Delete, Erase, Acknowledge, EndOfList, Pause, counters
<1>3. tries' \in 0..MaxRetries - 1 /\ rows' \in 0..MaxRows
  BY <1>2 DEF TypeOK
<1>4. leaked' \in BOOLEAN
  BY LeakTyped DEF Next
<1> QED
  BY <1>1, <1>3, <1>4, MovesTyped

\* Type correctness, the number of attempts included.
THEOREM TypeCorrect == Spec => []TypeOK
<1>1. Init => TypeOK
  <2>1. Init => leaked \in BOOLEAN
    BY DEF Init
  <2> QED
    BY <2>1, LocksAssumption
     DEF LocksAssumption, Init, TypeOK, Handling, MainPlaces, ClockPlaces, DatabasePlaces, DeletionPlaces
<1>2. TypeOK /\ [Next]_vars => TypeOK'
  <2>1. ASSUME TypeOK, UNCHANGED vars PROVE TypeOK'
    BY <2>1 DEF vars, counters, TypeOK
  <2> QED
    BY <2>1, MainTyped, ClockTyped, DatabaseTyped, DeletionTyped DEF Next
<1> QED
  BY <1>1, <1>2, PTL DEF Spec

-----------------------------------------------------------------------------
(* Results *)

\* One thread at a time uses the display and one the database, whatever the
\* second unlock of httpMutex and a failing curl_easy_init do to that mutex.
THEOREM Exclusion == Spec => []SectionsExclusive
<1>1. SectionInv => SectionsExclusive
  BY DEF SectionInv, Owned, SectionsExclusive
<1> QED
  BY <1>1, SectionInvariant, PTL

\* Every path through the sections unlocks what it locked, as long as
\* curl_easy_init does not fail.
THEOREM Released == Spec => []LocksReleased
<1>1. SectionInv => LocksReleased
  BY DEF SectionInv
<1> QED
  BY <1>1, SectionInvariant, PTL

\* Who is inside http waits for nothing; who is inside sql waits for nothing but
\* http; and nobody waits for a mutex inside its own section.
LEMMA LockOrder ==
    ASSUME NEW p, NEW m \in Mutexes, NEW n \in Mutexes, p \in Inside[n], p \in Waiting[m]
    PROVE  n # "http" /\ m # n /\ (n = "sql" => m = "http") /\ (n = "display" => m \in {"sql", "http"})
<1>1. CASE n = "http"
  BY <1>1 DEF Inside, Waiting
<1>2. CASE n = "sql"
  BY <1>2 DEF Inside, Waiting
<1>3. CASE n = "display"
  BY <1>3 DEF Inside, Waiting
<1> QED
  BY <1>1, <1>2, <1>3

\* The threads never wait for each other in a circle: each is inside the section
\* whose mutex it holds, and waits for mutexes further down in the order display,
\* sql, http only.
THEOREM NoDeadlock == Spec => []NoWaitCycle
<1>1. ASSUME LocksReleased PROVE NoWaitCycle
  <2> SUFFICES ASSUME ~ leaked, NEW S \in SUBSET Threads, S # {},
                      \A t \in S : \E m \in Mutexes : place[t] \in Waiting[m] /\ owner[m] \in S
               PROVE  FALSE
    BY DEF NoWaitCycle
  <2>1. ASSUME NEW t \in S, NEW m \in Mutexes, place[t] \in Waiting[m], owner[m] \in S
        PROVE  \E u \in S, n \in Mutexes :
                   /\ place[u] \in Waiting[n] /\ owner[n] \in S
                   /\ m # "http" /\ (m = "sql" => n = "http")
                   /\ (m = "display" => n \in {"sql", "http"})
    <3>1. place[owner[m]] \in Inside[m]
      BY <1>1, <2>1 DEF LocksReleased, InSection
    <3>2. PICK n \in Mutexes : place[owner[m]] \in Waiting[n] /\ owner[n] \in S
      BY <2>1
    <3>3. m # "http" /\ (m = "sql" => n = "http") /\ (m = "display" => n \in {"sql", "http"})
      <4> DEFINE p == place[owner[m]]
      <4>1. p \in Inside[m] /\ p \in Waiting[n]
        BY <3>1, <3>2
      <4> HIDE DEF p
      <4> QED
        BY <4>1, LockOrder
    <3>4. owner[m] \in S
      BY <2>1
    <3> QED
      BY <3>2, <3>3, <3>4
  <2>2. \A t \in S : ~ (place[t] \in Waiting["http"] /\ owner["http"] \in S)
    BY <2>1
  <2>3. \A t \in S : ~ (place[t] \in Waiting["sql"] /\ owner["sql"] \in S)
    BY <2>1, <2>2
  <2>4. \A t \in S : ~ (place[t] \in Waiting["display"] /\ owner["display"] \in S)
    BY <2>1, <2>2, <2>3
  <2> QED
    BY <2>2, <2>3, <2>4
<1> QED
  BY <1>1, Released, PTL
=============================================================================
