---------------------------- MODULE Fingerprint ----------------------------
(***************************************************************************)
(* The fingerprint procedures over a link that does what CommandLink says: *)
(* enrolling (FP_enrolling.c) and findFinger (FP_find_finger.c) of the     *)
(* main thread, deleteModel (FP_delete.c) of the main thread and of        *)
(* post_requestThread, at the grain of one command to the sensor.          *)
(*                                                                         *)
(* The sensor keeps the image of a finger, two character buffers and a     *)
(* library of templates.  It carries out a command and answers it in one   *)
(* step; the thread hears an answer in a later one.  It may also refuse.   *)
(***************************************************************************)
EXTENDS CommandLink, Packet, FiniteSets

CONSTANTS
    main, deletion,   \* the threads that send commands
    Fingers, NoFinger,
    Pages,            \* places of the library
    SearchPages,      \* the pages fingerFastSearch covers: 0 to 0xA2
    Libraries,        \* what earlier runs have left in the library
    NumLimit,         \* the numbers below it fit into num of findFinger: 10
    MaxProcedures,    \* bound: procedures of each thread
    MaxEvents         \* bound: procedures and broken replies in all

\* An image is of a finger, and clear enough for the features to be found or not.
NoImage  == [finger |-> NoFinger, clear |-> FALSE]
Images   == {NoImage} \cup [finger : Fingers, clear : BOOLEAN]

\* A buffer or a page holds the features of one scan, or a model made of two.
Nothing   == [finger |-> NoFinger, merged |-> FALSE]
Templates == {Nothing} \cup [finger : Fingers, merged : BOOLEAN]
Model(f)  == [finger |-> f, merged |-> TRUE]

\* An answer is a confirmation code, followed by a page number after a search.
Ok == <<FINGERPRINT_OK>>

FingerprintAssumption ==
    /\ main # deletion /\ Threads = {main, deletion}
    /\ NoFinger \notin Fingers
    /\ \A p \in Pages : p \in Nat /\ 0 < p /\ p < 65536
    /\ SearchPages \subseteq Pages
    /\ Libraries \subseteq [Pages -> Templates]
    /\ NumLimit \in Nat /\ MaxProcedures \in Nat /\ MaxEvents \in Nat

ASSUME FingerprintAssumption

\* Answers need not hold the codes that are treated like another one.
AnswersAssumption ==
    LET Matching == {<<FINGERPRINT_OK, p>> : p \in SearchPages}
    IN  /\ Matching \cup {<<c>> : c \in {FINGERPRINT_OK, FINGERPRINT_PACKETRECIEVER,
               FINGERPRINT_NOFINGER, FINGERPRINT_IMAGEMESS, FINGERPRINT_NOTFOUND,
               FINGERPRINT_ENROLLMISMATCH}} \subseteq Answers
        /\ Answers \cup Errors \subseteq Matching \cup {<<c>> : c \in 0..255}

ASSUME AnswersAssumption

VARIABLES
    image,      \* ImageBuffer
    char,       \* CharBuffer1 and CharBuffer2
    library,    \* the stored templates
    place,      \* where each thread is
    page,       \* pageId of enrolling, id_N of deleteModel
    late,       \* the time of an image loop is over
    result,     \* what the last procedure of each thread returned
    scanned,    \* history: the finger whose features main's procedure works with
    stored,     \* history: the sensor has carried out a store of this procedure
    trouble,    \* history: what went wrong in main's procedure
    procedures, \* bound: how many each thread has begun
    broken      \* bound: how many replies have been broken

sensor == <<image, char, library>>
vars   == <<linkVars, sensor, place, page, late, result, scanned, stored, trouble,
          procedures, broken>>

\* The results of the procedures: SUCCESS and FAILED, ERROR and TIMEOUT, or a number.
SUCCESS == <<"success">>
FAILED  == <<"failed">>
ERROR   == <<"error">>
TIMEOUT == <<"timeout">>
Found(n) == <<"found", n>>
None    == <<>>

EnrolPlaces == {"image1", "tz1", "search", "lift", "image2", "tz2", "create", "create2", "store"}
FindPlaces  == {"scan", "convert", "match"}

Init ==
    /\ LinkInit
    /\ image = NoImage /\ char = [i \in 1..2 |-> Nothing]
    /\ library \in Libraries
    /\ place = [t \in Threads |-> "idle"]
    /\ page = [t \in Threads |-> 0]
    /\ late = FALSE
    /\ result = [t \in Threads |-> None]
    /\ scanned = NoFinger /\ stored = FALSE /\ trouble = {}
    /\ procedures = [t \in Threads |-> 0] /\ broken = 0

\* The bound on what happens in all.
Events == broken + procedures[main] + procedures[deletion]

\* A step may disturb the link, by an overlap or a broken reply.
MayDisturb ==
    LET breaks == disturbed' /\ ~disturbed /\ asking' # Threads
    IN  /\ broken' = IF breaks THEN broken + 1 ELSE broken
        /\ breaks => Events < MaxEvents

-----------------------------------------------------------------------------
(* The sensor: what each command does, and the answer to it *)

\* f lies on the sensor, or nothing.
GetImage(t, f) ==
    /\ IF f = NoFinger
       THEN Command(t, <<FINGERPRINT_NOFINGER>>) /\ UNCHANGED image
       ELSE /\ Command(t, Ok)
            /\ \E clear \in BOOLEAN : image' = [finger |-> f, clear |-> clear]
    /\ UNCHANGED <<char, library, scanned, stored>>

\* The same image gives the same answer again.
Image2Tz(t, slot) ==
    /\ IF image.clear
       THEN /\ Command(t, Ok)
            /\ char' = [char EXCEPT ![slot] = [finger |-> image.finger, merged |-> FALSE]]
       ELSE /\ Command(t, <<FINGERPRINT_IMAGEMESS>>)
            /\ UNCHANGED char
    /\ scanned' = IF slot = 1 THEN image.finger ELSE scanned
    /\ UNCHANGED <<image, library, stored>>

\* What the sensor takes for one finger.
Mergeable == char[1].finger = char[2].finger /\ char[1] # Nothing

CreateModel(t) ==
    /\ IF Mergeable
       THEN Command(t, Ok) /\ char' = [i \in 1..2 |-> Model(char[1].finger)]
       ELSE Command(t, <<FINGERPRINT_ENROLLMISMATCH>>) /\ UNCHANGED char
    /\ UNCHANGED <<image, library, scanned, stored>>

StoreModel(t) ==
    /\ Command(t, Ok)
    /\ library' = [library EXCEPT ![page[t]] = char[1]]
    /\ stored' = TRUE
    /\ UNCHANGED <<image, char, scanned>>

DeleteTemplate(t) ==
    /\ Command(t, Ok)
    /\ library' = [library EXCEPT ![page[t]] = Nothing]
    /\ UNCHANGED <<image, char, scanned, stored>>

\* The pages that match CharBuffer1.
Matches == {p \in SearchPages : char[1] # Nothing /\ library[p].finger = char[1].finger}

FingerFastSearch(t) ==
    /\ \/ \E p \in Matches : Command(t, <<FINGERPRINT_OK, p>>)
       \/ Matches = {} /\ Command(t, <<FINGERPRINT_NOTFOUND>>)
    /\ UNCHANGED <<image, char, library, scanned, stored>>

\* The codes with which the sensor answers a command that it does not carry out.
Refusals(p) ==
    {FINGERPRINT_PACKETRECIEVER} \cup
    CASE p \in {"image1", "lift", "image2", "scan"} -> {FINGERPRINT_IMAGEFAIL}
      [] p = "store" -> {FINGERPRINT_BADLOCATION, FINGERPRINT_FLASHERR}
      [] p = "delete" -> {FINGERPRINT_DELETEFAIL}
      [] OTHER -> {}

Refuse(t) ==
    /\ \E code \in Refusals(place[t]) : <<code>> \in Answers /\ Command(t, <<code>>)
    /\ UNCHANGED <<image, char, library, scanned, stored>>

\* The image loops look at the clock before they ask.
LoopPlaces == {"image1", "image2", "scan"}

May(t) == place[t] \in LoopPlaces => ~late

Sends(t) ==
    /\ May(t)
    /\ \/ /\ place[t] \in LoopPlaces \cup {"lift"}
          /\ \E f \in Fingers \cup {NoFinger} : GetImage(t, f)
       \/ place[t] \in {"tz1", "convert"} /\ Image2Tz(t, 1)
       \/ place[t] = "tz2" /\ Image2Tz(t, 2)
       \/ place[t] \in {"search", "match"} /\ FingerFastSearch(t)
       \/ place[t] \in {"create", "create2"} /\ CreateModel(t)
       \/ place[t] = "store" /\ StoreModel(t)
       \/ place[t] = "delete" /\ DeleteTemplate(t)
    /\ MayDisturb
    /\ UNCHANGED <<place, page, late, result, trouble, procedures>>

IsRefused(t) ==
    /\ place[t] # "idle" /\ May(t)
    /\ Refuse(t)
    /\ MayDisturb
    /\ UNCHANGED <<place, page, late, result, trouble, procedures>>

-----------------------------------------------------------------------------
(* The main thread *)

Begin(t, p, n) ==
    /\ place[t] = "idle"
    /\ procedures[t] < MaxProcedures /\ Events < MaxEvents
    /\ procedures' = [procedures EXCEPT ![t] = @ + 1]
    /\ place' = [place EXCEPT ![t] = p]
    /\ page' = [page EXCEPT ![t] = n]
    /\ result' = [result EXCEPT ![t] = None]
    /\ UNCHANGED <<linkVars, sensor, late, scanned, stored, trouble, broken>>

\* enrolling, findFinger, or the deleteModel that undoes an enrolment the server
\* could not be told of.
StartProcedure ==
    \/ \E n \in Pages : Begin(main, "image1", n)
    \/ Begin(main, "scan", 0)
    \/ page[main] # 0 /\ Begin(main, "delete", page[main])

\* main, at p, hears r.
Hears(p, r) ==
    /\ place[main] = p
    /\ Return(main, r)
    /\ MayDisturb
    /\ UNCHANGED <<sensor, procedures>>

\* main goes on at p.  What went wrong is remembered.
GoTo(p) ==
    /\ place' = [place EXCEPT ![main] = p]
    /\ trouble' = IF disturbed' THEN trouble \cup {"link"} ELSE trouble
    /\ UNCHANGED <<page, late, result, scanned, stored>>

Finish(t, r) ==
    /\ place' = [place EXCEPT ![t] = "idle"]
    /\ result' = [result EXCEPT ![t] = r]

\* The number stays in main's hand when enrolling has succeeded.
End(r) ==
    /\ Finish(main, r)
    /\ page' = IF place[main] = "store" /\ r = SUCCESS THEN page ELSE [page EXCEPT ![main] = 0]
    /\ late' = FALSE /\ scanned' = NoFinger /\ stored' = FALSE /\ trouble' = {}

\* The loops for the first and for the second image, and that of findFinger.
HearImage(p, next) ==
    \E r \in Answers \cup Errors :
        /\ Hears(p, r)
        /\ GoTo(IF r[1] = FINGERPRINT_OK THEN next ELSE p)

\* image2Tz(1) of enrolling is repeated until it succeeds.
HearFeatures ==
    \E r \in Answers \cup Errors :
        /\ Hears("tz1", r)
        /\ GoTo(IF r[1] = FINGERPRINT_OK THEN "search" ELSE "tz1")

\* The search has failed, but enrolling takes that for a new finger.
Unsearched ==
    /\ place' = [place EXCEPT ![main] = "lift"]
    /\ trouble' = trouble \cup {"search"} \cup (IF disturbed' THEN {"link"} ELSE {})
    /\ UNCHANGED <<page, late, result, scanned, stored>>

\* A plausible slip: a finger that is known is enrolled again.
HearSearch_Known ==
    \E r \in Answers \cup Errors :
        /\ Hears("search", r)
        /\ IF r[1] \in {FINGERPRINT_OK, FINGERPRINT_NOTFOUND} THEN GoTo("lift") ELSE Unsearched

HearSearch ==
    \E r \in Answers \cup Errors :
        /\ Hears("search", r)
        /\ CASE r[1] = FINGERPRINT_OK -> End(ERROR)
             [] r[1] = FINGERPRINT_NOTFOUND -> GoTo("lift")
             [] OTHER -> Unsearched

\* A plausible slip: the finger has to be there.
HearLift_Present ==
    \E r \in Answers \cup Errors :
        /\ Hears("lift", r)
        /\ GoTo(IF r[1] = FINGERPRINT_OK THEN "image2" ELSE "lift")

\* The finger has to be taken off.
HearLift ==
    \E r \in Answers \cup Errors :
        /\ Hears("lift", r)
        /\ GoTo(IF r[1] = FINGERPRINT_NOFINGER THEN "image2" ELSE "lift")

\* The result of image2Tz(2) is not looked at.
HearSecondFeatures == \E r \in Answers \cup Errors : Hears("tz2", r) /\ GoTo("create")

\* A plausible slip: the model is stored after a mismatch.
HearCreate_Lenient(p) ==
    \E r \in Answers \cup Errors :
        /\ Hears(p, r)
        /\ IF r[1] = FINGERPRINT_PACKETRECIEVER THEN End(FAILED) ELSE GoTo("store")

\* A second try after a mismatch; other codes go on to the store.
HearCreate(p) ==
    \E r \in Answers \cup Errors :
        /\ Hears(p, r)
        /\ CASE r[1] = FINGERPRINT_PACKETRECIEVER -> End(FAILED)
             [] r[1] = FINGERPRINT_ENROLLMISMATCH ->
                    IF p = "create" THEN GoTo("create2") ELSE End(FAILED)
             [] OTHER -> GoTo("store")

\* A plausible slip: an error of the flash memory is not reported.
HearStore_NoFlash ==
    \E r \in Answers \cup Errors :
        /\ Hears("store", r)
        /\ End(IF r[1] = FINGERPRINT_PACKETRECIEVER THEN FAILED ELSE SUCCESS)

\* A code without a case ends the function without a return.
HearStore ==
    \E r \in Answers \cup Errors :
        /\ Hears("store", r)
        /\ CASE r[1] = FINGERPRINT_OK -> End(SUCCESS)
             [] r[1] \in {FINGERPRINT_PACKETRECIEVER, FINGERPRINT_BADLOCATION,
                          FINGERPRINT_FLASHERR} -> End(FAILED)
             [] OTHER -> End(SUCCESS) \/ End(FAILED)

\* A plausible slip: the result of image2Tz(1) is not looked at.
HearConvert_Unchecked == \E r \in Answers \cup Errors : Hears("convert", r) /\ GoTo("match")

HearConvert ==
    \E r \in Answers \cup Errors :
        /\ Hears("convert", r)
        /\ IF r[1] = FINGERPRINT_OK THEN GoTo("match") ELSE End(FAILED)

\* num has room for one digit; a longer number overwrites what is next to it.
Number(n) == IF n < NumLimit THEN {n} ELSE Pages

\* An OK without a page is page 0, which findFinger's caller takes for FAILED.
HearMatch ==
    \E r \in Answers \cup Errors :
        /\ Hears("match", r)
        /\ CASE r[1] = FINGERPRINT_OK ->
                    IF Len(r) = 1 THEN End(FAILED)
                    ELSE \E n \in Number(r[2]) : End(Found(n))
             [] r[1] = FINGERPRINT_NOTFOUND -> End(ERROR)
             [] OTHER -> End(FAILED)

\* A plausible slip: only errors of reception count.
Deleted_Lenient(r) == IF r[1] = FINGERPRINT_PACKETRECIEVER THEN FAILED ELSE SUCCESS

\* What deleteModel returns.
Deleted(r) == IF r[1] = FINGERPRINT_OK THEN SUCCESS ELSE FAILED

HearDelete == \E r \in Answers \cup Errors : Hears("delete", r) /\ End(Deleted(r))

\* The time of a loop is over.
TimeOut ==
    /\ place[main] \in LoopPlaces /\ main \notin asking /\ late
    /\ End(IF place[main] = "scan" THEN FAILED ELSE TIMEOUT)
    /\ UNCHANGED <<linkVars, sensor, procedures, broken>>

MainHears ==
    \/ HearImage("image1", "tz1") \/ HearFeatures \/ HearSearch \/ HearLift
    \/ HearImage("image2", "tz2") \/ HearSecondFeatures
    \/ HearCreate("create") \/ HearCreate("create2") \/ HearStore
    \/ HearImage("scan", "convert") \/ HearConvert \/ HearMatch
    \/ HearDelete

-----------------------------------------------------------------------------
(* post_requestThread, and the world *)

StartDeletion == \E n \in Pages : Begin(deletion, "delete", n)

DeletionHears ==
    \E r \in Answers \cup Errors :
        /\ Return(deletion, r)
        /\ Finish(deletion, Deleted(r))
        /\ page' = [page EXCEPT ![deletion] = 0]
        /\ MayDisturb
        /\ UNCHANGED <<sensor, late, scanned, stored, trouble, procedures>>

TimePasses ==
    /\ place[main] \in LoopPlaces /\ ~late /\ late' = TRUE
    /\ UNCHANGED <<linkVars, sensor, place, page, result, scanned, stored, trouble, procedures, broken>>

BrokenReply ==
    /\ Disturb /\ MayDisturb
    /\ UNCHANGED <<sensor, place, page, late, result, scanned, stored, trouble, procedures>>

Next ==
    \/ StartProcedure \/ MainHears \/ TimeOut
    \/ \E t \in Threads : Sends(t) \/ IsRefused(t)
    \/ StartDeletion \/ DeletionHears
    \/ TimePasses \/ BrokenReply

\* While main waits in HearLift, the sensor finds no finger.
FingerGone == place[main] = "lift" /\ Sends(main) /\ answer'[main] = <<FINGERPRINT_NOFINGER>>

\* A sensor that is asked again and again obeys in the end, people take their
\* fingers off, and commands return: FpmLink!CommandsReturn.
Fairness ==
    /\ WF_vars(MainHears \/ TimeOut) /\ WF_vars(DeletionHears) /\ WF_vars(TimePasses)
    /\ SF_vars(Sends(main)) /\ SF_vars(FingerGone)

Spec     == Init /\ [][Next]_vars
FairSpec == Spec /\ Fairness

-----------------------------------------------------------------------------
(* Properties *)

TypeOK ==
    /\ asking \subseteq Threads
    /\ \A t \in asking : place[t] # "idle"
    /\ image \in Images
    /\ char \in [1..2 -> Templates]
    /\ library \in [Pages -> Templates]
    /\ place[main] \in {"idle", "delete"} \cup EnrolPlaces \cup FindPlaces
    /\ place[deletion] \in {"idle", "delete"}
    /\ page \in [Threads -> Pages \cup {0}]
    /\ \A t \in Threads : place[t] \in EnrolPlaces \cup {"delete"} => page[t] # 0
    /\ late \in BOOLEAN /\ stored \in BOOLEAN
    /\ scanned \in Fingers \cup {NoFinger}
    /\ trouble \subseteq {"link", "search"}

\* In the step that ends a procedure: all its commands were undisturbed.
Clean == "link" \notin trouble /\ ~disturbed'

\* What enrolling returns is true unless the link was disturbed: SUCCESS exactly
\* when the sensor has stored a model of the finger that was scanned, at the page
\* main is going to give out as its number (FP_enrolling.c:212, main.c:404).
EnrolTellsTruth ==
    [][place[main] \in EnrolPlaces /\ place'[main] = "idle" /\ Clean =>
         /\ result'[main] = SUCCESS <=> stored
         /\ stored => library[page[main]] = Model(scanned)]_vars

\* Only a model of two scans is ever stored: no path goes on to storeModel after
\* a createModel that has failed (FP_enrolling.c:186), if the link is undisturbed.
OnlyModelsStored ==
    [][\A p \in Pages :
         library'[p] \notin {library[p], Nothing} /\ "link" \notin trouble => library'[p].merged]_vars

\* A finger that the sensor can find is not enrolled a second time, if the search
\* was answered and the link undisturbed (FP_enrolling.c:98).  The search covers
\* SearchPages only.
NoSecondTemplate ==
    [][\A p \in Pages :
         library'[p] \notin {library[p], Nothing} /\ trouble = {} =>
            \A q \in SearchPages \ {p} : library[q].finger # library'[p].finger]_vars

\* The number findFinger returns is that of a page which holds the finger that was
\* scanned, if it fits into num and the link is undisturbed (FP_find_finger.c:165).
MatchIsTrue ==
    [][\A n \in Pages :
         /\ place[main] = "match" /\ place'[main] = "idle" /\ result'[main] = Found(n)
         /\ Clean /\ answer[main][2] < NumLimit
         => library[n].finger = scanned]_vars

\* deleteModel returns SUCCESS only when the page is empty, for both threads, if
\* the link was undisturbed (FP_delete.c:16, curl_client.c:520).
DeletedIsGone ==
    [][\A t \in Threads :
         /\ place[t] = "delete" /\ place'[t] = "idle" /\ result'[t] = SUCCESS
         /\ ~disturbed'
         => library[page[t]] = Nothing]_vars

\* Every procedure of main ends and frees displayMutex when fingers are taken off
\* again: unless the link was disturbed, or the first image is one from which no
\* features can be had, on which image2Tz(1) is repeated for ever
\* (FP_enrolling.c:73, 107).
ProceduresEnd ==
    place[main] # "idle" ~> \/ place[main] = "idle" \/ "link" \in trouble
                            \/ place[main] = "tz1" /\ ~image.clear

\* What a thread does with the library at a place.
JobAt(p) == IF p \in EnrolPlaces THEN "enrol" ELSE IF p \in FindPlaces THEN "find" ELSE p

\* The procedures keep the sensor's library as SensorLibrary says: whatever the
\* answers, the refusals and the interleaving of the two threads, an enrolment
\* writes at most one page, once and its own, a finger the search finds is not
\* stored again, only deletions empty a page, and a result that is not in doubt
\* tells what has been done (FP_enrolling.c, FP_delete.c).
Library == INSTANCE SensorLibrary WITH
               job     <- [t \in Threads |-> JobAt(place[t])],
               doubt   <- trouble,
               success <- [t \in Threads |-> result[t] = SUCCESS]

LibrarySpec == Library!Spec
=============================================================================
