---------------------------- MODULE StatusLedger ----------------------------
(***************************************************************************)
(* The status ledger of activate_iri/inventory.py: it remembers the last   *)
(* observed status of every resource and turns changes into Events and     *)
(* Incidents.  Each method runs without an await, so it is one action.     *)
(*                                                                         *)
(* The time stamp of a change is its position in the event history, which  *)
(* also identifies the event and the unplanned incident it starts (the     *)
(* code hashes resource id and time stamp).  A planned incident is         *)
(* identified by its alert.                                                *)
(***************************************************************************)
EXTENDS Naturals, Sequences

CONSTANTS
    Resource,   \* ids of the resources a build publishes
    Alert,      \* ids of platform alerts, "maintenance" among them
    None,       \* no status seen yet, no incident
    MaxEvents   \* bound on the history, for model checking

ASSUME AlertAssumption == Alert \cap Nat = {}
ASSUME NoneAssumption == None \notin Nat \cup Alert \cup {"up", "degraded", "down", "unknown"}
ASSUME MaxEventsAssumption == MaxEvents \in Nat

VARIABLES
    last,       \* last[r]: the status of the latest observation of r
    events,     \* every status change so far, oldest first
    incidents   \* incident id -> incident

vars == <<last, events, incidents>>

Status == {"up", "degraded", "down", "unknown"}
Impaired == {"degraded", "down"}

Stamp == Len(events) + 1

IncidentId == Nat \cup Alert
Event == [resource : Resource, status : Status, incident : IncidentId \cup {None}]
Incident == [type : {"unplanned", "planned"},
             status : Status,
             resources : SUBSET Resource,
             events : SUBSET Nat,
             resolution : {"unresolved", "completed", "pending"}]

\* The candidates for open_incident, the one an observation of r extends.
Unresolved(r) ==
    {i \in DOMAIN incidents : /\ r \in incidents[i].resources
                              /\ incidents[i].resolution = "unresolved"}

Init ==
    /\ last = [r \in Resource |-> None]
    /\ events = <<>>
    /\ incidents = [i \in {} |-> None]

-----------------------------------------------------------------------------
(* observe: one observation of resource r with status cur.                 *)

\* Mutant: an unknown status is not remembered.
LogKnownStatus(r, cur, incident) ==
    /\ last[r] # cur
    /\ Len(events) < MaxEvents
    /\ last' = IF cur = "unknown" THEN last ELSE [last EXCEPT ![r] = cur]
    /\ events' = Append(events, [resource |-> r, status |-> cur, incident |-> incident])

Log(r, cur, incident) ==
    /\ last[r] # cur
    /\ Len(events) < MaxEvents
    /\ last' = [last EXCEPT ![r] = cur]
    /\ events' = Append(events, [resource |-> r, status |-> cur, incident |-> incident])

UnplannedIncident(r, cur) ==
    [type |-> "unplanned", status |-> cur, resources |-> {r}, events |-> {Stamp},
     resolution |-> "unresolved"]

\* Mutants: a second incident for a worsening status; an incident on first
\* sight; an unknown status taken for a recovery.
BeginsAgain(r, cur) == cur \in Impaired /\ last[r] # None
BeginsAtFirstSight(r, cur) == cur \in Impaired /\ Unresolved(r) = {}
EndsOnUnknown(r, cur) == cur \in {"up", "unknown"} /\ Unresolved(r) # {}

BeginsIncident(r, cur) == cur \in Impaired /\ last[r] # None /\ Unresolved(r) = {}
EndsIncident(r, cur) == cur = "up" /\ Unresolved(r) # {}

ObserveOutage(r, cur) ==
    /\ BeginsIncident(r, cur)
    /\ Log(r, cur, Stamp)
    /\ incidents' = [i \in DOMAIN incidents \cup {Stamp} |->
                        IF i = Stamp THEN UnplannedIncident(r, cur) ELSE incidents[i]]

Completed(incident) ==
    [type |-> incident.type, status |-> "up", resources |-> incident.resources,
     events |-> incident.events \cup {Stamp}, resolution |-> "completed"]

\* Mutant: the recovery event does not name the incident it ends.
RecoveryUnlinked(r, cur) ==
    /\ EndsIncident(r, cur)
    /\ \E open \in Unresolved(r) :
          /\ Log(r, cur, None)
          /\ incidents' = [incidents EXCEPT ![open] = Completed(@)]

\* The code takes the first candidate; OneOpenIncident says there is no other.
ObserveRecovery(r, cur) ==
    /\ EndsIncident(r, cur)
    /\ \E open \in Unresolved(r) :
          /\ Log(r, cur, open)
          /\ incidents' = [incidents EXCEPT ![open] = Completed(@)]

ObserveOther(r, cur) ==
    /\ ~BeginsIncident(r, cur) /\ ~EndsIncident(r, cur)
    /\ Log(r, cur, None)
    /\ UNCHANGED incidents

ObserveSame(r, cur) == last[r] = cur /\ UNCHANGED vars

Observe(r, cur) ==
    \/ ObserveOutage(r, cur)
    \/ ObserveRecovery(r, cur)
    \/ ObserveOther(r, cur)
    \/ ObserveSame(r, cur)

-----------------------------------------------------------------------------
(* planned_from_alerts: alerts is what the platform reports, published the *)
(* resources of the build that asked.                                      *)

PlannedIncident(published) ==
    [type |-> "planned", status |-> "degraded", resources |-> published, events |-> {},
     resolution |-> "pending"]

\* Mutant: an alert that is already known is recorded again.
PlannedAnew(alerts, published) ==
    /\ incidents' = [i \in DOMAIN incidents \cup alerts |->
                        IF i \in alerts THEN PlannedIncident(published) ELSE incidents[i]]
    /\ UNCHANGED <<last, events>>

PlannedFromAlerts(alerts, published) ==
    /\ incidents' = [i \in DOMAIN incidents \cup alerts |->
                        IF i \in DOMAIN incidents THEN incidents[i]
                                                  ELSE PlannedIncident(published)]
    /\ UNCHANGED <<last, events>>

-----------------------------------------------------------------------------
Next ==
    \/ \E r \in Resource, cur \in Status : Observe(r, cur)
    \/ \E alerts \in SUBSET Alert, published \in SUBSET Resource :
          PlannedFromAlerts(alerts, published)

Spec == Init /\ [][Next]_vars

-----------------------------------------------------------------------------
(* Properties.                                                             *)

\* Every variable keeps its type; an incident's id is a past stamp or an alert.
TypeOK ==
    /\ last \in [Resource -> Status \cup {None}]
    /\ events \in Seq(Event)
    /\ DOMAIN incidents \subseteq 1 .. Len(events) \cup Alert
    /\ incidents \in [DOMAIN incidents -> Incident]

\* The numbers of r's events, and whether n is the first of them.
EventsOf(r) == {n \in 1 .. Len(events) : events[n].resource = r}
First(r, n) == \A m \in EventsOf(r) : n <= m

\* The history explains the present: what a resource was last seen as is its
\* latest event, and no two successive events of a resource say the same
\* (observe returns early on an unchanged status).
HistoryMatchesLast ==
    \A r \in Resource :
        /\ last[r] = None <=> EventsOf(r) = {}
        /\ \A n \in EventsOf(r) :
              \/ \E m \in EventsOf(r) : /\ n < m
                                        /\ events[m].status # events[n].status
                                        /\ \A k \in EventsOf(r) : k <= n \/ m <= k
              \/ last[r] = events[n].status /\ \A m \in EventsOf(r) : m <= n

\* A resource never has two incidents under way, so the search in observe has
\* at most one answer whatever the mix of planned and unplanned incidents.
OneOpenIncident ==
    \A r \in Resource : \A i, j \in Unresolved(r) : i = j

\* An event of r after its first that found it impaired, with no recovery since.
InOutage(r) ==
    \E n \in EventsOf(r) :
        /\ events[n].status \in Impaired
        /\ ~First(r, n)
        /\ \A m \in EventsOf(r) : n < m => events[m].status # "up"

\* An incident is under way exactly while the history shows an outage: none is
\* missed, none outlives the recovery, and none is closed by an unknown status.
IncidentTracksOutage ==
    \A r \in Resource : Unresolved(r) # {} <=> InOutage(r)

\* The links published both ways agree: an event's incident lists the event
\* and covers its resource, and an incident lists only events that name it.  An
\* unplanned incident starts with an impairment and is completed by a later
\* recovery of the same resource; a planned one is never touched by observe.
IncidentEventLinks ==
    /\ \A n \in 1 .. Len(events) :
          events[n].incident # None =>
              /\ events[n].incident \in DOMAIN incidents
              /\ n \in incidents[events[n].incident].events
    /\ \A i \in DOMAIN incidents :
          /\ \A n \in incidents[i].events :
                /\ n \in 1 .. Len(events)
                /\ events[n].incident = i
                /\ incidents[i].resources = {events[n].resource}
          /\ i \in Alert => incidents[i].resolution = "pending"
          /\ i \notin Alert =>
                /\ i \in incidents[i].events
                /\ events[i].status \in Impaired
                /\ incidents[i].resolution = "completed" <=>
                       \E n \in incidents[i].events : n > i /\ events[n].status = "up"

\* What was published stays: no event is rewritten, no incident disappears, a
\* completed or planned incident never changes, and an open one only completes.
HistoryIsFinal ==
    [][/\ \A n \in 1 .. Len(events) : n <= Len(events') /\ events'[n] = events[n]
       /\ \A i \in DOMAIN incidents :
             /\ i \in DOMAIN incidents'
             /\ incidents'[i] # incidents[i] =>
                    /\ incidents[i].resolution = "unresolved"
                    /\ incidents'[i].resolution = "completed"
                    /\ incidents[i].events \subseteq incidents'[i].events]_vars

\* The ledger implements the abstract lifecycle: a resource is in an outage
\* when some incident on it is unresolved.
Lifecycle == INSTANCE IncidentLifecycle WITH
                 status <- last,
                 outage <- [r \in Resource |-> Unresolved(r) # {}]
LifecycleSpec == Lifecycle!Spec
=============================================================================
