-------------------------- MODULE IncidentLifecycle --------------------------
(***************************************************************************)
(* What the status ledger promises a reader of the IRI status domain, one  *)
(* bit per resource: a resource is in an outage from the report that finds *)
(* it impaired until the report that finds it up again.  The first report  *)
(* of a resource never starts an outage, and an unknown status neither     *)
(* starts nor ends one.  StatusLedger implements this with a list of       *)
(* events and a list of incidents it searches on every report.             *)
(***************************************************************************)
CONSTANTS
    Resource,   \* the published resources
    None        \* the status of a resource nobody has reported yet

VARIABLES
    status,     \* status[r]: the status last reported for r
    outage      \* outage[r]: whether r has an incident under way

Status == {"up", "degraded", "down", "unknown"}
Impaired == {"degraded", "down"}

Init ==
    /\ status = [r \in Resource |-> None]
    /\ outage = [r \in Resource |-> FALSE]

StartsOutage(r, s) == status[r] # None /\ s \in Impaired

Report(r, s) ==
    /\ status' = [status EXCEPT ![r] = s]
    /\ outage' = [outage EXCEPT ![r] = s # "up" /\ (@ \/ StartsOutage(r, s))]

Next == \E r \in Resource, s \in Status : Report(r, s)

Spec == Init /\ [][Next]_<<status, outage>>
=============================================================================
