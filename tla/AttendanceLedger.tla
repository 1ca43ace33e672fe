-------------------------- MODULE AttendanceLedger --------------------------
(***************************************************************************)
(* What the terminal promises about attendance records, without threads,   *)
(* mutexes, cursors, retries or crashes: a ledger to which one page after  *)
(* the other is added, whose pages reach the server any number of times,   *)
(* in which an employee's pages are closed together once the server has    *)
(* one of the open ones, and whose oldest pages are torn out.  Attendance  *)
(* implements it (Attendance!LedgerSpec).                                  *)
(***************************************************************************)
EXTENDS Integers, Functions

CONSTANT IDs       \* employee numbers

VARIABLES
    book,          \* page number -> employee and state of the page
    issued,        \* pages added so far
    received       \* pages the server has

lvars == <<book, issued, received>>

\* The open pages of an employee.
Open(i) == {r \in DOMAIN book : book[r].ID = i /\ book[r].Saved = "X"}

Init == book = [r \in {} |-> {}] /\ issued = 0 /\ received = {}

\* A new page is open and is the last one.
Enter(i) ==
    /\ book' = [r \in DOMAIN book \cup {issued + 1} |->
                   IF r = issued + 1 THEN [ID |-> i, Saved |-> "X"] ELSE book[r]]
    /\ issued' = issued + 1
    /\ UNCHANGED received

\* The server stores an open page; it may store it again later.
Deliver(i) ==
    /\ \E r \in Open(i) : received' = received \cup {r}
    /\ UNCHANGED <<book, issued>>

\* The pages of an employee are closed, which takes an open page of the same
\* employee that the server has.
Close(i) ==
    /\ Open(i) \cap received # {}
    /\ book' = [r \in DOMAIN book |->
                   IF book[r].ID = i THEN [book[r] EXCEPT !.Saved = "V"] ELSE book[r]]
    /\ UNCHANGED <<issued, received>>

\* Pages are torn out, each of them older than every page that stays.
Expire(gone) ==
    /\ \A r \in gone, q \in DOMAIN book \ gone : r < q
    /\ book' = Restrict(book, DOMAIN book \ gone)
    /\ UNCHANGED <<issued, received>>

Next ==
    \/ \E i \in IDs : Enter(i) \/ Deliver(i) \/ Close(i)
    \/ \E gone \in SUBSET DOMAIN book : Expire(gone)

Spec == Init /\ [][Next]_lvars
=============================================================================
