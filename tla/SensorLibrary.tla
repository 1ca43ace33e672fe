--------------------------- MODULE SensorLibrary ---------------------------
(***************************************************************************)
(* What the fingerprint procedures promise of the sensor's library: the    *)
(* abstract specification of Fingerprint (Fingerprint!LibrarySpec), and    *)
(* what Roster builds on.                                                  *)
(*                                                                         *)
(* Images, buffers, searches and single commands are gone.  A procedure is *)
(* a job that begins, writes at most one page, its own, and ends with a    *)
(* result.  As long as nothing gives cause for doubt, what is stored is a  *)
(* model of a finger the search does not find, and the result is true.     *)
(***************************************************************************)
EXTENDS Integers

CONSTANTS
    Threads, main,
    Pages,           \* places of the library
    SearchPages,     \* those that a search covers
    Templates,       \* what a page may hold,
    Nothing,         \* nothing, for example
    Libraries        \* what the library may hold at the start

VARIABLES
    library,         \* what each page holds
    job,             \* what each thread does with the sensor
    page,            \* the page of the job, and of main's last enrolment
    stored,          \* main's enrolment has written its page
    doubt,           \* causes for doubt in main's job: "link", "search"
    disturbed,       \* what a thread hears now may be the answer to another
    success          \* the last job of each thread has returned SUCCESS

libraryVars == <<library, job, page, stored, doubt, disturbed, success>>

Causes == {"link", "search"}

Init ==
    /\ library \in Libraries
    /\ job = [t \in Threads |-> "idle"] /\ page = [t \in Threads |-> 0]
    /\ stored = FALSE /\ doubt = {} /\ disturbed = FALSE
    /\ success = [t \in Threads |-> FALSE]

\* main enrols at a new page, looks for a finger, or takes its last enrolment back.
\* The other thread deletes.
Begin(t, j, n) ==
    /\ job[t] = "idle" /\ job' = [job EXCEPT ![t] = j]
    /\ page' = [page EXCEPT ![t] = n]
    /\ success' = [success EXCEPT ![t] = FALSE]
    /\ UNCHANGED <<library, stored, doubt, disturbed>>

Begins ==
    \/ \E n \in Pages : Begin(main, "enrol", n)
    \/ Begin(main, "find", 0)
    \/ page[main] # 0 /\ Begin(main, "delete", page[main])
    \/ \E t \in Threads \ {main}, n \in Pages : Begin(t, "delete", n)

\* The finger of x is on no page that the search covers.
IsNew(x) == \A q \in SearchPages : library[q].finger # x.finger

\* The enrolment writes its page, once.
Store(x) ==
    /\ job[main] = "enrol" /\ ~stored /\ stored' = TRUE
    /\ "link" \notin doubt => x.merged
    /\ doubt = {} => IsNew(x)
    /\ library' = [library EXCEPT ![page[main]] = x]
    /\ disturbed' \in BOOLEAN
    /\ UNCHANGED <<job, page, doubt, success>>

\* A deletion empties its page.
Empty(t) ==
    /\ job[t] = "delete"
    /\ library' = [library EXCEPT ![page[t]] = Nothing]
    /\ disturbed' \in BOOLEAN
    /\ UNCHANGED <<job, page, stored, doubt, success>>

\* The job of t ends, with SUCCESS when r.  The number of a successful enrolment is kept.
End(t, r) ==
    /\ job' = [job EXCEPT ![t] = "idle"]
    /\ success' = [success EXCEPT ![t] = r]
    /\ page' = IF job[t] = "enrol" /\ r THEN page ELSE [page EXCEPT ![t] = 0]
    /\ IF t = main THEN stored' = FALSE /\ doubt' = {} ELSE UNCHANGED <<stored, doubt>>
    /\ disturbed' \in BOOLEAN
    /\ UNCHANGED library

\* An enrolment is a success exactly when there is a model on its page now.
EndEnrolment(r) ==
    /\ job[main] = "enrol"
    /\ "link" \notin doubt /\ ~disturbed' =>
           /\ r <=> stored
           /\ stored => library[page[main]].merged
    /\ End(main, r)

\* A deletion succeeds only when its page is empty.
EndDeletion(t, r) ==
    /\ job[t] = "delete"
    /\ r /\ ~disturbed' => library[page[t]] = Nothing
    /\ End(t, r)

EndSearch == job[main] = "find" /\ End(main, FALSE)

\* What the threads hear becomes doubtful, or is sure again.
Doubts ==
    /\ doubt \subseteq doubt' /\ doubt' \subseteq Causes
    /\ doubt' # doubt => job[main] \in {"enrol", "find"} /\ ~stored
    /\ disturbed' \in BOOLEAN
    /\ UNCHANGED <<library, job, page, stored, success>>

Next ==
    \/ Begins
    \/ \E x \in Templates : Store(x)
    \/ \E t \in Threads : Empty(t)
    \/ \E r \in BOOLEAN : EndEnrolment(r) \/ \E t \in Threads : EndDeletion(t, r)
    \/ EndSearch
    \/ Doubts

Spec == Init /\ [][Next]_libraryVars
=============================================================================
