------------------------------ MODULE MCRoster ------------------------------
(***************************************************************************)
(* Roster with the sets of failures of the runs as values.                 *)
(***************************************************************************)
EXTENDS Roster

\* Every set of kinds of failure without failing queries, which every promise
\* excepts; and failing queries with what it takes to reach each of them.
MCFaultSets ==
    SUBSET (FaultKinds \ {"sql"}) \cup {{"sql", "http"}, {"sql", "sensor"}}
=============================================================================
