---------------------------- MODULE Roster_proofs ---------------------------
(***************************************************************************)
(* Proofs about Roster, for every value of its constants.                  *)
(***************************************************************************)
EXTENDS Roster, TLAPS

USE DEF world, stores, server, mainVars, delVars

-----------------------------------------------------------------------------
(* The sensor's library *)

\* Storing a template touches its page only.
LEMMA StoreEffect ==
    ASSUME NEW p, NEW who, StoreAt(p, who)
    PROVE  /\ DOMAIN templates' = DOMAIN templates \cup {p}
           /\ templates'[p] = who
           /\ \A q \in DOMAIN templates : q # p => templates'[q] = templates[q]
  BY DEF StoreAt

\* Deleting one, too.
LEMMA ForgetEffect ==
    ASSUME NEW p, templates' = Forget(p)
    PROVE  /\ DOMAIN templates' = DOMAIN templates \ {p}
           /\ \A q \in DOMAIN templates' : templates'[q] = templates[q]
  BY DEF Forget, Restrict

\* enrolling adds one known person under the page it was given, or nothing.
LEMMA StoreSomebody ==
    ASSUME \E who \in Unknown : StoreAt(page, who)
    PROVE  /\ DOMAIN templates' = DOMAIN templates \cup {page}
           /\ templates'[page] \in Persons
           /\ \A q \in DOMAIN templates : q # page => templates'[q] = templates[q]
<1>1. PICK who \in Persons : StoreAt(page, who)
  BY DEF Unknown
<1> QED
  BY <1>1, StoreEffect

-----------------------------------------------------------------------------
(* Type correctness *)

\* What can fail is chosen once.
LEMMA FaultsKept == ASSUME [Next]_vars PROVE faults' = faults
  BY DEF Next, Enrolment, Deletion, EnrolStart, EnrolSucceeds, EnrolFails,
         EnrolReturnsGarbage, NewEmployee, Report, ReportFails, RollbackModel,
         RollbackRow, RequestDeletion, GetList, CheckItem, ListDone, DeleteRow,
         DeleteRowFails, DeleteModel, DeleteModelMisheard, DeleteModelFails, RestoreRow,
         Acknowledge, AcknowledgeFails, CrashAndRestart, vars

LEMMA TypeInit == ASSUME Init PROVE TypeOK
  BY RosterAssumption DEF RosterAssumption, Init, TypeOK, NoItem

LEMMA TypeNext == ASSUME TypeOK, [Next]_vars PROVE TypeOK'
<1>0. faults' = faults
  BY FaultsKept
<1> USE <1>0, RosterAssumption DEF RosterAssumption, NoItem, MayFail
<1>1. CASE EnrolStart
  BY <1>1 DEF TypeOK, EnrolStart, AvailableIDs, NextID
<1>2. CASE EnrolSucceeds
  <2>1. /\ DOMAIN templates' \subseteq 0..MaxID
        /\ \A p \in DOMAIN templates' : templates'[p] \in Persons
    BY <1>2, StoreSomebody DEF TypeOK, EnrolSucceeds
  <2> QED
    BY <1>2, <2>1 DEF TypeOK, EnrolSucceeds
<1>3. CASE EnrolFails
  <2>1. /\ DOMAIN templates' \subseteq 0..MaxID
        /\ \A p \in DOMAIN templates' : templates'[p] \in Persons
    <3>1. CASE UNCHANGED templates
      BY <3>1 DEF TypeOK
    <3>2. CASE \E who \in Unknown : StoreAt(page, who)
      BY <3>2, StoreSomebody DEF TypeOK
    <3> QED
      BY <1>3, <3>1, <3>2 DEF EnrolFails
  <2> QED
    BY <1>3, <2>1 DEF TypeOK, EnrolFails
<1>4. CASE EnrolReturnsGarbage
  BY <1>4 DEF TypeOK, EnrolReturnsGarbage
<1>5. CASE NewEmployee
  <2>1. employees' \subseteq 1..seq' /\ seq' \in 0..MaxID
    <3>1. CASE employees' = employees \cup {seq + 1} /\ seq' = seq + 1
      <4>1. seq + 1 \in 0..MaxID
        BY <1>5 DEF TypeOK, NewEmployee
      <4>2. \A i \in employees' : i \in 1..seq'
        BY <3>1 DEF TypeOK
      <4> QED
        BY <3>1, <4>1, <4>2
    <3>2. CASE UNCHANGED <<employees, seq>>
      BY <3>2 DEF TypeOK
    <3> QED
      BY <1>5, <3>1, <3>2 DEF NewEmployee
  <2>2. delPc' \in {"delModel", "restore"} => item' \in 1..seq'
    BY <1>5 DEF TypeOK, NewEmployee
  <2>3. mainPc' = "send" /\ retries' = 0
    BY <1>5 DEF NewEmployee
  <2> QED
    BY <1>5, <2>1, <2>2, <2>3 DEF TypeOK, NewEmployee
<1>6. CASE Report
  BY <1>6 DEF TypeOK, Report
<1>7. CASE ReportFails
  BY <1>7 DEF TypeOK, ReportFails
<1>8. CASE RollbackModel
  <2>1. /\ DOMAIN templates' \subseteq DOMAIN templates
        /\ \A p \in DOMAIN templates' : templates'[p] = templates[p]
    BY <1>8, ForgetEffect DEF RollbackModel
  <2> QED
    BY <1>8, <2>1 DEF TypeOK, RollbackModel
<1>9. CASE RollbackRow
  <2>1. employees' \subseteq 1..seq
    BY <1>9 DEF TypeOK, RollbackRow
  <2> QED
    BY <1>9, <2>1 DEF TypeOK, RollbackRow
<1>10. CASE RequestDeletion
  BY <1>10 DEF TypeOK, RequestDeletion
<1>11. CASE GetList
  BY <1>11 DEF TypeOK, GetList
<1>12. CASE CheckItem
  BY <1>12 DEF TypeOK, CheckItem, AfterCheck
<1>13. CASE ListDone
  BY <1>13 DEF TypeOK, ListDone
<1>14. CASE DeleteRow
  BY <1>14 DEF TypeOK, DeleteRow
<1>15. CASE DeleteRowFails
  BY <1>15 DEF TypeOK, DeleteRowFails
<1>16. CASE DeleteModel
  <2>1. /\ DOMAIN templates' \subseteq DOMAIN templates
        /\ \A p \in DOMAIN templates' : templates'[p] = templates[p]
    BY <1>16, ForgetEffect DEF DeleteModel
  <2> QED
    BY <1>16, <2>1 DEF TypeOK, DeleteModel
<1>17. CASE DeleteModelFails
  <2>1. /\ DOMAIN templates' \subseteq DOMAIN templates
        /\ \A p \in DOMAIN templates' : templates'[p] = templates[p]
    BY <1>17, ForgetEffect DEF DeleteModelFails
  <2> QED
    BY <1>17, <2>1 DEF TypeOK, DeleteModelFails
<1>18. CASE RestoreRow
  BY <1>18 DEF TypeOK, RestoreRow, Restored
<1>19. CASE Acknowledge
  BY <1>19 DEF TypeOK, Acknowledge, StrikeOff
<1>20. CASE AcknowledgeFails
  <2>1. onServer' \subseteq 0..MaxID /\ pending' \subseteq onServer'
    BY <1>20 DEF TypeOK, AcknowledgeFails, StrikeOff
  <2> QED
    BY <1>20, <2>1 DEF TypeOK, AcknowledgeFails
<1>21. CASE CrashAndRestart
  BY <1>21 DEF TypeOK, CrashAndRestart
<1>22. CASE DeleteModelMisheard
  BY <1>22 DEF TypeOK, DeleteModelMisheard
<1>23. CASE UNCHANGED vars
  BY <1>23 DEF TypeOK, vars
<1> QED
  BY <1>1, <1>2, <1>3, <1>4, <1>5, <1>6, <1>7, <1>8, <1>9, <1>10, <1>11, <1>12,
     <1>13, <1>14, <1>15, <1>16, <1>17, <1>18, <1>19, <1>20, <1>21, <1>22, <1>23
     DEF Next, Enrolment, Deletion

\* Every variable keeps its type; the table never holds a number its counter
\* has not reached, and unless a query can fail main enrols on the page after it.
THEOREM TypeCorrect == Spec => []TypeOK
  BY TypeInit, TypeNext, PTL DEF Spec

-----------------------------------------------------------------------------
(* Numbers in hand, as long as the database does not fail *)

\* The numbers of the main thread: the one being enrolled is the next one of the
\* table, then the last one it has given out.
MainNumbers ==
    /\ mainPc \in {"enrol", "insert"} => page = seq + 1
    /\ mainPc \in {"send", "rollModel", "rollRow"} => page \in 1..seq

\* The numbers of the deletion thread: the server lists what it asks for, each
\* number of the list is handled once, and from DeleteRow on its row is gone.
DeletionNumbers ==
    /\ onServer \subseteq 1..seq
    /\ list \subseteq onServer
    /\ delPc \in {"delRow", "delModel", "restore", "ack"} =>
          item \in onServer /\ item \notin list
    /\ delPc \in {"delModel", "restore", "ack"} => item \notin employees

\* The table's counter has passed every number that ever named an employee.
UsedNumbers == used \subseteq 1..seq

NumberInv == TypeOK /\ MainNumbers /\ DeletionNumbers /\ UsedNumbers

LEMMA NumberInit == ASSUME Init PROVE NumberInv
  BY TypeInit DEF Init, NumberInv, MainNumbers, DeletionNumbers, UsedNumbers, NoItem

LEMMA MainNumbersNext ==
    ASSUME "sql" \notin faults, NumberInv, [Next]_vars
    PROVE  MainNumbers'
<1> USE DEF NumberInv, MainNumbers
<1>1. CASE EnrolStart
  BY <1>1 DEF TypeOK, EnrolStart, AvailableIDs, NextID, MayFail
<1>2. CASE EnrolSucceeds \/ EnrolReturnsGarbage \/ EnrolFails
  BY <1>2 DEF EnrolSucceeds, EnrolReturnsGarbage, EnrolFails
<1>3. CASE NewEmployee
  BY <1>3 DEF TypeOK, NewEmployee, MayFail
<1>4. CASE Report \/ ReportFails \/ RollbackModel \/ RollbackRow
  BY <1>4 DEF Report, ReportFails, RollbackModel, RollbackRow
<1>5. CASE Deletion
  <2>1. UNCHANGED <<mainPc, page, seq>>
    BY <1>5 DEF Deletion, GetList, CheckItem, ListDone, DeleteRow, DeleteRowFails,
                DeleteModel, DeleteModelMisheard, DeleteModelFails, RestoreRow,
                Acknowledge, AcknowledgeFails
  <2> QED
    BY <2>1
<1>6. CASE RequestDeletion \/ CrashAndRestart \/ UNCHANGED vars
  BY <1>6 DEF RequestDeletion, CrashAndRestart, vars
<1> QED
  BY <1>1, <1>2, <1>3, <1>4, <1>5, <1>6 DEF Next, Enrolment

LEMMA DeletionNumbersNext ==
    ASSUME "sql" \notin faults, NumberInv, [Next]_vars
    PROVE  DeletionNumbers'
<1> USE DEF NumberInv, DeletionNumbers
<1>1. CASE \/ EnrolStart \/ EnrolSucceeds \/ EnrolFails \/ EnrolReturnsGarbage
           \/ RollbackModel
  BY <1>1 DEF EnrolStart, EnrolSucceeds, EnrolFails, EnrolReturnsGarbage, RollbackModel
<1>2. CASE NewEmployee
  <2>1. seq' = seq + 1 /\ employees' = employees \cup {seq + 1}
    BY <1>2 DEF NewEmployee, MayFail
  <2>2. \A i \in onServer : i \in 1..seq' /\ i # seq + 1
    BY <2>1 DEF TypeOK
  <2>3. UNCHANGED <<onServer, list, delPc, item>>
    BY <1>2 DEF NewEmployee
  <2> QED
    BY <2>1, <2>2, <2>3
<1>3. CASE Report \/ ReportFails
  <2>1. onServer' \in {onServer, onServer \cup {page}} /\ page \in 1..seq
    BY <1>3 DEF Report, ReportFails, MainNumbers
  <2>2. UNCHANGED <<employees, seq, delPc, list, item>>
    BY <1>3 DEF Report, ReportFails
  <2> QED
    BY <2>1, <2>2
<1>4. CASE RollbackRow
  <2>1. /\ \A i \in employees' : i \in employees
        /\ UNCHANGED <<seq, onServer, delPc, list, item>>
    BY <1>4 DEF RollbackRow
  <2> QED
    BY <2>1
<1>5. CASE GetList
  BY <1>5 DEF TypeOK, GetList
<1>6. CASE CheckItem
  BY <1>6 DEF CheckItem, CheckResults, AfterCheck, MayFail, SUCCESS, FAILED
<1>7. CASE \/ DeleteRow \/ DeleteRowFails \/ DeleteModel \/ DeleteModelMisheard
           \/ DeleteModelFails \/ ListDone
  BY <1>7 DEF DeleteRow, DeleteRowFails, DeleteModel, DeleteModelMisheard,
              DeleteModelFails, ListDone
<1>8. CASE RestoreRow
  BY <1>8 DEF RestoreRow
<1>9. CASE Acknowledge \/ AcknowledgeFails
  <2>1. onServer' = onServer \ {item} \/ onServer' = onServer
    BY <1>9 DEF Acknowledge, AcknowledgeFails, StrikeOff
  <2>2. item \notin list
    BY <1>9 DEF Acknowledge, AcknowledgeFails
  <2>3. \/ list' = list /\ delPc' = "next"
        \/ list' = {} /\ delPc' = "wait"
    BY <1>9 DEF Acknowledge, AcknowledgeFails
  <2>4. UNCHANGED seq
    BY <1>9 DEF Acknowledge, AcknowledgeFails
  <2> QED
    BY <2>1, <2>2, <2>3, <2>4
<1>10. CASE RequestDeletion \/ CrashAndRestart \/ UNCHANGED vars
  BY <1>10 DEF RequestDeletion, CrashAndRestart, vars
<1> QED
  BY <1>1, <1>2, <1>3, <1>4, <1>5, <1>6, <1>7, <1>8, <1>9, <1>10
     DEF Next, Enrolment, Deletion

LEMMA UsedNumbersNext ==
    ASSUME NumberInv, TypeOK', DeletionNumbers', [Next]_vars
    PROVE  UsedNumbers'
<1> USE DEF NumberInv, UsedNumbers
<1>1. CASE NewEmployee
  <2>0. seq \in Nat
    BY RosterAssumption DEF TypeOK, RosterAssumption
  <2>1. seq' = seq \/ seq' = seq + 1
    BY <1>1 DEF NewEmployee
  <2>2. employees' \subseteq 1..seq' /\ seq' \in Nat
    BY RosterAssumption DEF TypeOK, RosterAssumption
  <2>3. used' = used \cup employees'
    BY <1>1 DEF NewEmployee
  <2> QED
    BY <2>0, <2>1, <2>2, <2>3
<1>2. CASE Report \/ ReportFails
  BY <1>2 DEF Report, ReportFails, DeletionNumbers
<1>3. CASE \/ EnrolStart \/ EnrolSucceeds \/ EnrolFails \/ EnrolReturnsGarbage
           \/ RollbackModel \/ RollbackRow \/ RequestDeletion \/ GetList
           \/ CheckItem \/ ListDone \/ DeleteRow \/ DeleteRowFails \/ DeleteModel
           \/ DeleteModelMisheard \/ DeleteModelFails \/ RestoreRow \/ Acknowledge
           \/ AcknowledgeFails \/ CrashAndRestart \/ UNCHANGED vars
  <2>1. UNCHANGED <<used, seq>>
    BY <1>3 DEF EnrolStart, EnrolSucceeds, EnrolFails, EnrolReturnsGarbage, RollbackModel,
                RollbackRow, RequestDeletion, GetList, CheckItem, ListDone, DeleteRow,
                DeleteRowFails, DeleteModel, DeleteModelMisheard, DeleteModelFails,
                RestoreRow, Acknowledge, AcknowledgeFails, CrashAndRestart, vars
  <2> QED
    BY <2>1
<1> QED
  BY <1>1, <1>2, <1>3 DEF Next, Enrolment, Deletion

LEMMA NumberNext ==
    ASSUME "sql" \notin faults, NumberInv, [Next]_vars
    PROVE  NumberInv'
  BY TypeNext, MainNumbersNext, DeletionNumbersNext, UsedNumbersNext DEF NumberInv

LEMMA NumberInvariant == Spec => []("sql" \notin faults => NumberInv)
<1> DEFINE Inv == "sql" \notin faults => NumberInv
<1>1. Init => Inv
  BY NumberInit
<1>2. Inv /\ [Next]_vars => Inv'
  BY NumberNext, FaultsKept
<1> QED
  BY <1>1, <1>2, PTL DEF Spec

-----------------------------------------------------------------------------
(* Numbers are not given twice *)

LEMMA FreshStep ==
    ASSUME NumberInv, [Next]_vars, NEW p \in DOMAIN templates'
    PROVE  \/ p \in DOMAIN templates /\ templates'[p] = templates[p]
           \/ p \notin used
<1>1. CASE EnrolSucceeds \/ EnrolFails
  <2>1. page \notin used
    <3>1. page = seq + 1 /\ seq \in Nat
      BY <1>1, RosterAssumption
         DEF NumberInv, TypeOK, MainNumbers, EnrolSucceeds, EnrolFails, RosterAssumption
    <3>2. seq + 1 \notin 1..seq
      BY <3>1
    <3> QED
      BY <3>1, <3>2 DEF NumberInv, UsedNumbers
  <2>2. \/ UNCHANGED templates
        \/ \E who \in Unknown : StoreAt(page, who)
    BY <1>1 DEF EnrolSucceeds, EnrolFails
  <2> QED
    BY <2>1, <2>2, StoreSomebody
<1>2. CASE RollbackModel \/ DeleteModel \/ DeleteModelFails
  <2>1. \/ UNCHANGED templates
        \/ templates' = Forget(page) \/ templates' = Forget(item)
    BY <1>2 DEF RollbackModel, DeleteModel, DeleteModelFails
  <2> QED
    BY <2>1, ForgetEffect
<1>3. CASE \/ EnrolStart \/ EnrolReturnsGarbage \/ NewEmployee \/ Report
           \/ ReportFails \/ RollbackRow \/ RequestDeletion \/ GetList \/ CheckItem
           \/ ListDone \/ DeleteRow \/ DeleteRowFails \/ DeleteModelMisheard \/ RestoreRow
           \/ Acknowledge \/ AcknowledgeFails \/ CrashAndRestart \/ UNCHANGED vars
  BY <1>3 DEF EnrolStart, EnrolReturnsGarbage, NewEmployee, Report, ReportFails,
              RollbackRow, RequestDeletion, GetList, CheckItem, ListDone, DeleteRow,
              DeleteRowFails, DeleteModelMisheard, RestoreRow, Acknowledge,
              AcknowledgeFails, CrashAndRestart, vars
<1> QED
  BY <1>1, <1>2, <1>3 DEF Next, Enrolment, Deletion

\* Unless a query fails, nobody ever gets a number that has named somebody else in
\* the table or on the server, whatever happens to the sensor, the network and the
\* process.
THEOREM FreshNumbers == Spec => FreshPages
<1>1. ("sql" \notin faults => NumberInv) /\ [Next]_vars =>
         [MayFail("sql") \/ \A p \in DOMAIN templates' :
             \/ p \in DOMAIN templates /\ templates'[p] = templates[p]
             \/ p \notin used]_vars
  BY FreshStep DEF MayFail
<1> QED
  BY <1>1, NumberInvariant, PTL DEF Spec, FreshPages

-----------------------------------------------------------------------------
(* The server's list *)

\* Unless a query fails, the server never strikes off a person who still has a
\* row, however the acknowledgments, the sensor and the process itself fail.
THEOREM StruckOff == Spec => StruckOffAreGone
<1>1. ("sql" \notin faults => NumberInv) /\ [Next]_vars =>
         [MayFail("sql") \/ \A i \in onServer \ onServer' : i \notin employees]_vars
  <2> SUFFICES ASSUME "sql" \notin faults, NumberInv, [Next]_vars,
                      NEW i \in onServer \ onServer'
               PROVE  i \notin employees
    BY DEF MayFail
  <2>1. CASE Acknowledge \/ AcknowledgeFails
    BY <2>1 DEF Acknowledge, AcknowledgeFails, StrikeOff, NumberInv, DeletionNumbers
  <2>2. CASE Report \/ ReportFails
    BY <2>2 DEF Report, ReportFails
  <2>3. CASE \/ EnrolStart \/ EnrolSucceeds \/ EnrolFails \/ EnrolReturnsGarbage
             \/ NewEmployee \/ RollbackModel \/ RollbackRow \/ RequestDeletion
             \/ GetList \/ CheckItem \/ ListDone \/ DeleteRow \/ DeleteRowFails
             \/ DeleteModel \/ DeleteModelMisheard \/ DeleteModelFails \/ RestoreRow
             \/ CrashAndRestart \/ UNCHANGED vars
    BY <2>3 DEF EnrolStart, EnrolSucceeds, EnrolFails, EnrolReturnsGarbage, NewEmployee,
                RollbackModel, RollbackRow, RequestDeletion, GetList, CheckItem,
                ListDone, DeleteRow, DeleteRowFails, DeleteModel, DeleteModelMisheard,
                DeleteModelFails, RestoreRow, CrashAndRestart, vars
  <2> QED
    BY <2>1, <2>2, <2>3 DEF Next, Enrolment, Deletion
<1> QED
  BY <1>1, NumberInvariant, PTL DEF Spec, StruckOffAreGone

-----------------------------------------------------------------------------
(* The server knows every employee *)

\* Every row is on the server's list, or is the one main is reporting or rolling
\* back.
ReportedInv ==
    \A i \in employees :
        i \in onServer \/ (mainPc \in {"send", "rollModel", "rollRow"} /\ page = i)

LEMMA ReportedNext ==
    ASSUME faults \cap {"sql", "crash"} = {}, NumberInv, ReportedInv, [Next]_vars
    PROVE  ReportedInv'
<1> USE DEF ReportedInv
<1>1. CASE NewEmployee
  <2>1. employees' = employees \cup {page} /\ mainPc' = "send" /\ page' = page
    BY <1>1 DEF NewEmployee, MayFail, NumberInv, MainNumbers
  <2> QED
    BY <1>1, <2>1 DEF NewEmployee
<1>2. CASE Report
  BY <1>2 DEF Report
<1>3. CASE ReportFails
  <2>1. onServer \subseteq onServer' /\ UNCHANGED employees
    BY <1>3 DEF ReportFails
  <2>2. ~ (retries + 1 < MaxRetries) => RollbackDue(retries + 1)
    BY RosterAssumption DEF RosterAssumption, RollbackDue, NumberInv, TypeOK
  <2>3. mainPc' \in {"send", "rollModel"} /\ page' = page
    BY <1>3, <2>2 DEF ReportFails
  <2> QED
    BY <1>3, <2>1, <2>3 DEF ReportFails
<1>4. CASE RollbackModel \/ RollbackRow
  BY <1>4 DEF RollbackModel, RollbackRow, MayFail
<1>5. CASE EnrolStart \/ EnrolSucceeds \/ EnrolFails \/ EnrolReturnsGarbage
  BY <1>5 DEF EnrolStart, EnrolSucceeds, EnrolFails, EnrolReturnsGarbage
<1>6. CASE RestoreRow
  BY <1>6 DEF RestoreRow, Restored, NumberInv, DeletionNumbers
<1>7. CASE Acknowledge \/ AcknowledgeFails
  <2>1. onServer' = onServer \ {item} \/ onServer' = onServer
    BY <1>7 DEF Acknowledge, AcknowledgeFails, StrikeOff
  <2>2. item \notin employees
    BY <1>7 DEF Acknowledge, AcknowledgeFails, NumberInv, DeletionNumbers
  <2>3. UNCHANGED <<employees, mainPc, page>>
    BY <1>7 DEF Acknowledge, AcknowledgeFails
  <2> QED
    BY <2>1, <2>2, <2>3
<1>8. CASE \/ GetList \/ CheckItem \/ ListDone \/ DeleteRow \/ DeleteRowFails
           \/ DeleteModel \/ DeleteModelMisheard \/ DeleteModelFails
           \/ RequestDeletion \/ UNCHANGED vars
  BY <1>8 DEF GetList, CheckItem, ListDone, DeleteRow, DeleteRowFails, DeleteModel,
              DeleteModelMisheard, DeleteModelFails, RequestDeletion, vars
<1>9. ~ CrashAndRestart
  BY DEF CrashAndRestart, MayFail
<1> QED
  BY <1>1, <1>2, <1>3, <1>4, <1>5, <1>6, <1>7, <1>8, <1>9
     DEF Next, Enrolment, Deletion

\* Unless a query fails or the process dies half-way, the server knows every
\* employee whenever main is not enrolling.
THEOREM Reported == Spec => []EmployeesReported
<1> DEFINE Inv == faults \cap {"sql", "crash"} = {} => ReportedInv
<1>1. Init => Inv
  BY DEF Init, ReportedInv
<1>2. ("sql" \notin faults => NumberInv) /\ Inv /\ [Next]_vars => Inv'
  BY ReportedNext, FaultsKept
<1>3. Inv => EmployeesReported
  BY DEF ReportedInv, EmployeesReported
<1> QED
  BY <1>1, <1>2, <1>3, NumberInvariant, PTL DEF Spec

-----------------------------------------------------------------------------
(* The table and the sensor agree *)

\* RosterAgreement, with what it needs of the steps in between: the template is
\* there before the row, and is gone before the row is rolled back.
AgreementInv ==
    /\ \A p \in employees \ DOMAIN templates : mainPc = "rollRow" /\ page = p
    /\ \A p \in DOMAIN templates \ employees :
          \/ mainPc = "insert" /\ page = p
          \/ delPc = "delModel" /\ item = p
    /\ mainPc = "insert" => page \in DOMAIN templates
    /\ mainPc = "rollRow" => page \notin DOMAIN templates
    /\ delPc # "restore"

LEMMA AgreementNext ==
    ASSUME faults \subseteq {"http"}, NumberInv, AgreementInv, [Next]_vars
    PROVE  AgreementInv'
<1> USE DEF AgreementInv, MayFail
<1>1. CASE EnrolStart \/ EnrolReturnsGarbage
  BY <1>1 DEF EnrolStart, EnrolReturnsGarbage, SensorFails
<1>2. CASE EnrolSucceeds
  <2>1. DOMAIN templates' = DOMAIN templates \cup {page}
    BY <1>2, StoreSomebody DEF EnrolSucceeds
  <2>2. /\ mainPc = "enrol" /\ mainPc' = "insert"
        /\ UNCHANGED <<employees, page, delPc, item>>
    BY <1>2 DEF EnrolSucceeds
  <2> QED
    BY <2>1, <2>2
<1>3. CASE EnrolFails
  BY <1>3 DEF EnrolFails, SensorFails
<1>4. CASE NewEmployee
  <2>1. employees' = employees \cup {page}
    BY <1>4 DEF NewEmployee, NumberInv, MainNumbers
  <2>2. page \in DOMAIN templates
    BY <1>4 DEF NewEmployee
  <2> QED
    BY <1>4, <2>1, <2>2 DEF NewEmployee
<1>5. CASE Report \/ ReportFails
  BY <1>5 DEF Report, ReportFails
<1>6. CASE RollbackModel
  <2>1. DOMAIN templates' = DOMAIN templates \ {page}
    BY <1>6, ForgetEffect DEF RollbackModel, SensorFails
  <2>2. /\ mainPc = "rollModel" /\ mainPc' = "rollRow"
        /\ UNCHANGED <<employees, page, delPc, item>>
    BY <1>6 DEF RollbackModel, SensorFails
  <2> QED
    BY <2>1, <2>2
<1>7. CASE RollbackRow
  <2>1. /\ employees' = employees \ {page} /\ mainPc = "rollRow" /\ mainPc' = "idle"
        /\ UNCHANGED <<templates, delPc, item>>
    BY <1>7 DEF RollbackRow
  <2> QED
    BY <2>1
<1>8. CASE DeleteRow
  <2>1. /\ employees' = employees \ {item} /\ delPc = "delRow" /\ delPc' = "delModel"
        /\ UNCHANGED <<templates, mainPc, page, item>>
    BY <1>8 DEF DeleteRow
  <2> QED
    BY <2>1
<1>9. CASE DeleteModel
  <2>1. DOMAIN templates' = DOMAIN templates \ {item}
    BY <1>9, ForgetEffect DEF DeleteModel
  <2>2. item \notin employees /\ item \in 1..seq
    BY <1>9 DEF DeleteModel, NumberInv, TypeOK, DeletionNumbers
  <2>3. mainPc = "insert" => page # item
    BY <2>2 DEF NumberInv, MainNumbers, TypeOK
  <2>4. /\ delPc = "delModel" /\ delPc' = "ack"
        /\ UNCHANGED <<employees, mainPc, page, item>>
    BY <1>9 DEF DeleteModel
  <2> QED
    BY <2>1, <2>2, <2>3, <2>4
<1>10. CASE GetList \/ CheckItem \/ ListDone
  BY <1>10 DEF GetList, CheckItem, ListDone, AfterCheck
<1>11. CASE DeleteRowFails \/ Acknowledge \/ AcknowledgeFails
  BY <1>11 DEF DeleteRowFails, Acknowledge, AcknowledgeFails
<1>12. CASE RequestDeletion \/ UNCHANGED vars
  BY <1>12 DEF RequestDeletion, vars
<1>13. ~ CrashAndRestart /\ ~ DeleteModelMisheard /\ ~ DeleteModelFails /\ ~ RestoreRow
  BY DEF CrashAndRestart, DeleteModelMisheard, DeleteModelFails, RestoreRow, SensorFails
<1> QED
  BY <1>1, <1>2, <1>3, <1>4, <1>5, <1>6, <1>7, <1>8, <1>9, <1>10, <1>11, <1>12, <1>13
     DEF Next, Enrolment, Deletion

\* As long as only the network fails, the table and the sensor name the same
\* people, up to the number a thread has in hand.
THEOREM Agreement == Spec => []RosterAgreement
<1> DEFINE Inv == faults \subseteq {"http"} => AgreementInv
<1>1. Init => Inv
  BY DEF Init, AgreementInv
<1>2. ("sql" \notin faults => NumberInv) /\ Inv /\ [Next]_vars => Inv'
  <2>1. faults \subseteq {"http"} => "sql" \notin faults
    OBVIOUS
  <2>2. [Next]_vars => faults' = faults
    BY FaultsKept
  <2> QED
    BY <2>1, <2>2, AgreementNext
<1>3. Inv => RosterAgreement
  BY DEF AgreementInv, RosterAgreement, InStep
<1> QED
  BY <1>1, <1>2, <1>3, NumberInvariant, PTL DEF Spec

-----------------------------------------------------------------------------
(* A failing sensor leaves no orphan *)

\* Every template has its owner, and main never rolls back.
OrphanInv ==
    /\ Owners
    /\ mainPc \notin {"rollModel", "rollRow"}

LEMMA OrphanNext ==
    ASSUME faults \subseteq {"sensor"}, NumberInv, OrphanInv, [Next]_vars
    PROVE  OrphanInv'
<1> USE DEF OrphanInv, Owners, MayFail
<1>1. CASE EnrolStart \/ EnrolReturnsGarbage
  BY <1>1 DEF EnrolStart, EnrolReturnsGarbage
<1>2. CASE EnrolSucceeds \/ EnrolFails
  <2>1. \/ UNCHANGED templates
        \/ DOMAIN templates' = DOMAIN templates \cup {page}
    BY <1>2, StoreSomebody DEF EnrolSucceeds, EnrolFails
  <2>2. page \notin 1..seq
    BY <1>2 DEF EnrolSucceeds, EnrolFails, NumberInv, MainNumbers, TypeOK
  <2>3. /\ mainPc' \notin {"rollModel", "rollRow"}
        /\ UNCHANGED <<employees, seq, delPc, item>>
    BY <1>2 DEF EnrolSucceeds, EnrolFails
  <2> QED
    BY <2>1, <2>2, <2>3
<1>3. CASE NewEmployee
  <2>1. employees' = employees \cup {seq + 1} /\ seq' = seq + 1
    BY <1>3 DEF NewEmployee
  <2>2. \A p \in 1..seq' : p \in 1..seq \/ p = seq + 1
    BY <2>1 DEF NumberInv, TypeOK
  <2> QED
    BY <1>3, <2>1, <2>2 DEF NewEmployee
<1>4. CASE Report
  BY <1>4 DEF Report
<1>5. CASE DeleteRow
  BY <1>5 DEF DeleteRow
<1>6. CASE DeleteModel
  <2>1. DOMAIN templates' = DOMAIN templates \ {item}
    BY <1>6, ForgetEffect DEF DeleteModel
  <2> QED
    BY <1>6, <2>1 DEF DeleteModel
<1>7. CASE DeleteModelFails
  <2>1. DOMAIN templates' \subseteq DOMAIN templates
    BY <1>7, ForgetEffect DEF DeleteModelFails
  <2> QED
    BY <1>7, <2>1 DEF DeleteModelFails
<1>8. CASE RestoreRow
  BY <1>8 DEF RestoreRow, Restored
<1>9. CASE GetList \/ CheckItem \/ ListDone \/ DeleteRowFails \/ Acknowledge
  BY <1>9 DEF GetList, CheckItem, ListDone, DeleteRowFails, Acknowledge
<1>10. CASE RequestDeletion \/ UNCHANGED vars
  BY <1>10 DEF RequestDeletion, vars
<1>11. ~ (\/ ReportFails \/ RollbackModel \/ RollbackRow \/ AcknowledgeFails
          \/ DeleteModelMisheard \/ CrashAndRestart)
  BY DEF ReportFails, RollbackModel, RollbackRow, AcknowledgeFails,
         DeleteModelMisheard, CrashAndRestart
<1> QED
  BY <1>1, <1>2, <1>3, <1>4, <1>5, <1>6, <1>7, <1>8, <1>9, <1>10, <1>11
     DEF Next, Enrolment, Deletion

\* When only the sensor fails, every template under a used number belongs to an
\* employee, or to the one the deletion thread is just removing.
THEOREM Orphans == Spec => []NoOrphan
<1> DEFINE Inv == faults \subseteq {"sensor"} => OrphanInv
<1>1. Init => Inv
  BY DEF Init, OrphanInv, Owners
<1>2. ("sql" \notin faults => NumberInv) /\ Inv /\ [Next]_vars => Inv'
  <2>1. faults \subseteq {"sensor"} => "sql" \notin faults
    OBVIOUS
  <2>2. [Next]_vars => faults' = faults
    BY FaultsKept
  <2> QED
    BY <2>1, <2>2, OrphanNext
<1>3. Inv => NoOrphan
  BY DEF OrphanInv, NoOrphan
<1> QED
  BY <1>1, <1>2, <1>3, NumberInvariant, PTL DEF Spec
=============================================================================
