------------------------- MODULE StatusLedgerProofs -------------------------
(***************************************************************************)
(* Proofs about the status ledger, for any resources, alerts and bound.    *)
(***************************************************************************)
EXTENDS StatusLedger, TLAPS

USE AlertAssumption, NoneAssumption, MaxEventsAssumption

\* An incident under way covers one resource: planned incidents are pending
\* from the start, and observe opens an incident on the one it observes.
OpenIsUnplanned ==
    \A i \in DOMAIN incidents :
        incidents[i].resolution = "unresolved" =>
            \E r \in Resource : incidents[i].resources = {r}

\* A new stamp is no incident's id yet.
LEMMA StampIsNew == TypeOK => Stamp \in Nat /\ Stamp \notin DOMAIN incidents
BY DEF TypeOK, Stamp

LEMMA InitType == Init => TypeOK
BY DEF Init, TypeOK

LEMMA LogType ==
    ASSUME TypeOK, NEW r \in Resource, NEW cur \in Status,
           NEW incident \in IncidentId \cup {None}, Log(r, cur, incident)
    PROVE  /\ last' \in [Resource -> Status \cup {None}]
           /\ events' \in Seq(Event)
           /\ Len(events') = Len(events) + 1
           /\ Len(events) \in Nat
BY DEF TypeOK, Log, Event

LEMMA ObserveOutageType ==
    ASSUME TypeOK, NEW r \in Resource, NEW cur \in Status, ObserveOutage(r, cur)
    PROVE  TypeOK'
<1>1. /\ last' \in [Resource -> Status \cup {None}]
      /\ events' \in Seq(Event)
      /\ Len(events') = Len(events) + 1
      /\ Len(events) \in Nat
  BY LogType, StampIsNew DEF ObserveOutage, IncidentId
<1>2. UnplannedIncident(r, cur) \in Incident
  BY StampIsNew DEF UnplannedIncident, Incident
<1>3. DOMAIN incidents' = DOMAIN incidents \cup {Stamp}
  BY DEF ObserveOutage
<1>4. DOMAIN incidents' \subseteq 1 .. Len(events') \cup Alert
  BY <1>1, <1>3 DEF TypeOK, Stamp
<1>5. incidents' \in [DOMAIN incidents' -> Incident]
  BY <1>2, <1>3 DEF TypeOK, ObserveOutage
<1> QED
  BY <1>1, <1>4, <1>5 DEF TypeOK

LEMMA ObserveRecoveryType ==
    ASSUME TypeOK, NEW r \in Resource, NEW cur \in Status, ObserveRecovery(r, cur)
    PROVE  TypeOK'
<1> PICK open \in Unresolved(r) :
          /\ Log(r, cur, open)
          /\ incidents' = [incidents EXCEPT ![open] = Completed(@)]
  BY DEF ObserveRecovery
<1>1. open \in DOMAIN incidents /\ open \in IncidentId
  BY DEF Unresolved, TypeOK, IncidentId
<1>2. /\ last' \in [Resource -> Status \cup {None}]
      /\ events' \in Seq(Event)
      /\ Len(events') = Len(events) + 1
      /\ Len(events) \in Nat
  BY <1>1, LogType
<1>3. DOMAIN incidents' = DOMAIN incidents
  BY <1>1 DEF TypeOK
<1>4. DOMAIN incidents' \subseteq 1 .. Len(events') \cup Alert
  BY <1>2, <1>3 DEF TypeOK
<1>5. incidents' \in [DOMAIN incidents' -> Incident]
  BY <1>1, <1>3, StampIsNew DEF TypeOK, Completed, Incident, Status
<1> QED
  BY <1>2, <1>4, <1>5 DEF TypeOK

LEMMA PlannedType ==
    ASSUME TypeOK, NEW alerts \in SUBSET Alert, NEW published \in SUBSET Resource,
           PlannedFromAlerts(alerts, published)
    PROVE  TypeOK'
<1>1. PlannedIncident(published) \in Incident
  BY DEF PlannedIncident, Incident, Status
<1>2. DOMAIN incidents' = DOMAIN incidents \cup alerts
  BY DEF PlannedFromAlerts
<1>3. incidents' \in [DOMAIN incidents' -> Incident]
  BY <1>1, <1>2 DEF TypeOK, PlannedFromAlerts
<1> QED
  BY <1>2, <1>3 DEF TypeOK, PlannedFromAlerts

\* Every variable of the ledger keeps its type.
THEOREM TypeCorrect == Spec => []TypeOK
<1>1. TypeOK /\ [Next]_vars => TypeOK'
  <2> SUFFICES ASSUME TypeOK, [Next]_vars PROVE TypeOK'
    OBVIOUS
  <2>1. ASSUME NEW r \in Resource, NEW cur \in Status, ObserveOther(r, cur)
        PROVE TypeOK'
    <3>1. /\ last' \in [Resource -> Status \cup {None}]
          /\ events' \in Seq(Event)
          /\ Len(events') = Len(events) + 1
          /\ Len(events) \in Nat
      BY <2>1, LogType DEF ObserveOther
    <3> QED
      BY <2>1, <3>1 DEF TypeOK, ObserveOther
  <2>2. CASE UNCHANGED vars
    BY <2>2 DEF TypeOK, vars
  <2> QED
    BY <2>1, <2>2, ObserveOutageType, ObserveRecoveryType, PlannedType
       DEF Next, Observe, ObserveSame
<1> QED
  BY <1>1, InitType, PTL DEF Spec

-----------------------------------------------------------------------------
(* At most one incident of a resource is under way.                        *)

OpenInv == OpenIsUnplanned /\ OneOpenIncident

LEMMA OutageOpens ==
    ASSUME TypeOK, OpenInv, NEW r \in Resource, NEW cur \in Status, ObserveOutage(r, cur)
    PROVE  /\ OpenInv'
           /\ Unresolved(r)' = {Stamp}
           /\ \A s \in Resource \ {r} : Unresolved(s)' = Unresolved(s)
<1>1. /\ DOMAIN incidents' = DOMAIN incidents \cup {Stamp}
      /\ incidents'[Stamp] = UnplannedIncident(r, cur)
      /\ \A i \in DOMAIN incidents : incidents'[i] = incidents[i]
  BY StampIsNew DEF ObserveOutage
<1>2. Unresolved(r) = {}
  BY DEF ObserveOutage, BeginsIncident
<1>3. Unresolved(r)' = {Stamp}
  BY <1>1, <1>2 DEF Unresolved, UnplannedIncident
<1>4. ASSUME NEW s \in Resource \ {r}
      PROVE  Unresolved(s)' = Unresolved(s)
  BY <1>1, StampIsNew DEF Unresolved, UnplannedIncident
<1>5. OpenIsUnplanned'
  BY <1>1 DEF OpenInv, OpenIsUnplanned, UnplannedIncident
<1> QED
  BY <1>3, <1>4, <1>5 DEF OpenInv, OneOpenIncident

LEMMA RecoveryCloses ==
    ASSUME TypeOK, OpenInv, NEW r \in Resource, NEW cur \in Status, ObserveRecovery(r, cur)
    PROVE  /\ OpenInv'
           /\ Unresolved(r)' = {}
           /\ \A s \in Resource \ {r} : Unresolved(s)' = Unresolved(s)
<1> PICK open \in Unresolved(r) :
          incidents' = [incidents EXCEPT ![open] = Completed(@)]
  BY DEF ObserveRecovery
<1>1. /\ DOMAIN incidents' = DOMAIN incidents
      /\ open \in DOMAIN incidents
      /\ incidents'[open] = Completed(incidents[open])
      /\ \A i \in DOMAIN incidents \ {open} : incidents'[i] = incidents[i]
  BY DEF Unresolved, TypeOK
<1>2. incidents[open].resources = {r}
  BY DEF OpenInv, OpenIsUnplanned, Unresolved
<1>3. Unresolved(r) = {open}
  BY DEF OpenInv, OneOpenIncident
<1>4. Unresolved(r)' = {}
  BY <1>1, <1>3 DEF Unresolved, Completed
<1>5. ASSUME NEW s \in Resource \ {r}
      PROVE  Unresolved(s)' = Unresolved(s)
  BY <1>1, <1>2 DEF Unresolved, Completed
<1>6. OpenIsUnplanned'
  BY <1>1 DEF OpenInv, OpenIsUnplanned, Completed
<1> QED
  BY <1>4, <1>5, <1>6 DEF OpenInv, OneOpenIncident

LEMMA PlannedKeepsOpen ==
    ASSUME TypeOK, OpenInv, NEW alerts \in SUBSET Alert, NEW published \in SUBSET Resource,
           PlannedFromAlerts(alerts, published)
    PROVE  /\ OpenInv'
           /\ \A s \in Resource : Unresolved(s)' = Unresolved(s)
<1>1. /\ DOMAIN incidents' = DOMAIN incidents \cup alerts
      /\ \A i \in DOMAIN incidents : incidents'[i] = incidents[i]
      /\ \A i \in alerts \ DOMAIN incidents : incidents'[i].resolution = "pending"
  BY DEF PlannedFromAlerts, PlannedIncident
<1>2. ASSUME NEW s \in Resource
      PROVE  Unresolved(s)' = Unresolved(s)
  BY <1>1 DEF Unresolved
<1>3. OpenIsUnplanned'
  BY <1>1 DEF OpenInv, OpenIsUnplanned
<1> QED
  BY <1>2, <1>3 DEF OpenInv, OneOpenIncident

LEMMA OpenInvAlways == Spec => []OpenInv
<1>1. Init => OpenInv
  BY DEF Init, OpenInv, OpenIsUnplanned, OneOpenIncident, Unresolved
<1>2. TypeOK /\ OpenInv /\ [Next]_vars => OpenInv'
  <2> SUFFICES ASSUME TypeOK, OpenInv, [Next]_vars PROVE OpenInv'
    OBVIOUS
  <2>1. ASSUME UNCHANGED incidents
        PROVE  OpenInv'
    BY <2>1 DEF OpenInv, OpenIsUnplanned, OneOpenIncident, Unresolved
  <2> QED
    BY <2>1, OutageOpens, RecoveryCloses, PlannedKeepsOpen
       DEF Next, Observe, ObserveOther, ObserveSame, vars
<1> QED
  BY <1>1, <1>2, TypeCorrect, PTL DEF Spec

\* The search for an open incident in observe has at most one answer.
THEOREM OneOpenIncidentAlways == Spec => []OneOpenIncident
<1>1. OpenInv => OneOpenIncident
  BY DEF OpenInv
<1> QED
  BY <1>1, OpenInvAlways, PTL

-----------------------------------------------------------------------------
(* The ledger implements the abstract lifecycle.                           *)

\* A step that leaves the unresolved incidents of every resource alone leaves
\* the abstract outage bits alone.
LEMMA ObserveImplementsReport ==
    ASSUME TypeOK, OpenInv, NEW r \in Resource, NEW cur \in Status,
           \/ ObserveOutage(r, cur)
           \/ ObserveRecovery(r, cur)
           \/ ObserveOther(r, cur)
    PROVE  Lifecycle!Report(r, cur)
<1>1. last' = [last EXCEPT ![r] = cur]
  BY DEF ObserveOutage, ObserveRecovery, ObserveOther, Log
<1>2. \A s \in Resource \ {r} : Unresolved(s)' = Unresolved(s)
  <2>1. CASE ObserveOther(r, cur)
    BY <2>1 DEF ObserveOther, Unresolved
  <2> QED
    BY <2>1, OutageOpens, RecoveryCloses
<1>3. Unresolved(r)' # {} <=>
          cur # "up" /\ (Unresolved(r) # {} \/ Lifecycle!StartsOutage(r, cur))
  <2>1. CASE ObserveOutage(r, cur)
    BY <2>1, OutageOpens
       DEF ObserveOutage, BeginsIncident, Lifecycle!StartsOutage, Impaired, Lifecycle!Impaired
  <2>2. CASE ObserveRecovery(r, cur)
    BY <2>2, RecoveryCloses DEF ObserveRecovery, EndsIncident
  <2>3. CASE ObserveOther(r, cur)
    BY <2>3 DEF ObserveOther, BeginsIncident, EndsIncident, Unresolved,
                Lifecycle!StartsOutage, Impaired, Lifecycle!Impaired
  <2> QED
    BY <2>1, <2>2, <2>3
<1>4. [s \in Resource |-> Unresolved(s) # {}]' =
          [[s \in Resource |-> Unresolved(s) # {}] EXCEPT
              ![r] = cur # "up" /\ (@ \/ Lifecycle!StartsOutage(r, cur))]
  BY <1>2, <1>3
<1> QED
  BY <1>1, <1>4 DEF Lifecycle!Report

\* The list of incidents promises no less and no more than one bit per
\* resource: the ledger refines IncidentLifecycle.
THEOREM LedgerImplementsLifecycle == Spec => LifecycleSpec
<1>1. Init => Lifecycle!Init
  BY DEF Init, Lifecycle!Init, Unresolved
<1>2. TypeOK /\ OpenInv /\ [Next]_vars =>
          [Lifecycle!Next]_<<last, [r \in Resource |-> Unresolved(r) # {}]>>
  <2> SUFFICES ASSUME TypeOK, OpenInv, [Next]_vars
               PROVE  [Lifecycle!Next]_<<last, [r \in Resource |-> Unresolved(r) # {}]>>
    OBVIOUS
  <2>1. CASE UNCHANGED vars
    BY <2>1 DEF vars, Unresolved
  <2>2. ASSUME NEW alerts \in SUBSET Alert, NEW published \in SUBSET Resource,
               PlannedFromAlerts(alerts, published)
        PROVE  UNCHANGED <<last, [r \in Resource |-> Unresolved(r) # {}]>>
    BY <2>2, PlannedKeepsOpen DEF PlannedFromAlerts
  <2>3. ASSUME NEW r \in Resource, NEW cur \in Status, Observe(r, cur)
        PROVE  Lifecycle!Next \/ UNCHANGED vars
    BY <2>3, ObserveImplementsReport
       DEF Observe, ObserveSame, Lifecycle!Next, Status, Lifecycle!Status
  <2> QED
    BY <2>1, <2>2, <2>3 DEF Next
<1> QED
  BY <1>1, <1>2, TypeCorrect, OpenInvAlways, PTL DEF Spec, LifecycleSpec, Lifecycle!Spec

-----------------------------------------------------------------------------
(* Published history is final.                                             *)

LEMMA LogAppends ==
    ASSUME TypeOK, NEW r \in Resource, NEW cur \in Status,
           NEW incident \in IncidentId \cup {None}, Log(r, cur, incident)
    PROVE  /\ \A n \in 1 .. Len(events) : n <= Len(events') /\ events'[n] = events[n]
           /\ Len(events') = Stamp
           /\ events'[Stamp] = [resource |-> r, status |-> cur, incident |-> incident]
BY DEF TypeOK, Log, Event, Stamp

\* Nothing published is rewritten: events are only appended, and an incident
\* changes only when it is completed.
THEOREM HistoryIsFinalAlways == Spec => HistoryIsFinal
<1> DEFINE Appended == \A n \in 1 .. Len(events) : n <= Len(events') /\ events'[n] = events[n]
           Kept(i) == /\ i \in DOMAIN incidents'
                      /\ incidents'[i] # incidents[i] =>
                             /\ incidents[i].resolution = "unresolved"
                             /\ incidents'[i].resolution = "completed"
                             /\ incidents[i].events \subseteq incidents'[i].events
<1>1. TypeOK /\ [Next]_vars => [Appended /\ \A i \in DOMAIN incidents : Kept(i)]_vars
  <2> SUFFICES ASSUME TypeOK, Next
               PROVE  Appended /\ \A i \in DOMAIN incidents : Kept(i)
    OBVIOUS
  <2>0. UNCHANGED events => Appended
    BY DEF TypeOK
  <2>1. ASSUME NEW r \in Resource, NEW cur \in Status, ObserveOutage(r, cur)
        PROVE  Appended /\ \A i \in DOMAIN incidents : Kept(i)
    BY <2>1, StampIsNew, LogAppends DEF ObserveOutage, IncidentId
  <2>2. ASSUME NEW r \in Resource, NEW cur \in Status, ObserveRecovery(r, cur)
        PROVE  Appended /\ \A i \in DOMAIN incidents : Kept(i)
    <3> PICK open \in Unresolved(r) :
              /\ Log(r, cur, open)
              /\ incidents' = [incidents EXCEPT ![open] = Completed(@)]
      BY <2>2 DEF ObserveRecovery
    <3>1. open \in DOMAIN incidents /\ open \in IncidentId
      BY DEF Unresolved, TypeOK, IncidentId
    <3>2. \A i \in DOMAIN incidents : Kept(i)
      BY <3>1 DEF TypeOK, Unresolved, Completed
    <3> QED
      BY <3>1, <3>2, LogAppends
  <2>3. ASSUME NEW r \in Resource, NEW cur \in Status, ObserveOther(r, cur)
        PROVE  Appended /\ \A i \in DOMAIN incidents : Kept(i)
    BY <2>3, LogAppends DEF ObserveOther
  <2>4. ASSUME NEW alerts \in SUBSET Alert, NEW published \in SUBSET Resource,
               PlannedFromAlerts(alerts, published)
        PROVE  Appended /\ \A i \in DOMAIN incidents : Kept(i)
    BY <2>0, <2>4 DEF PlannedFromAlerts
  <2>5. CASE UNCHANGED vars
    BY <2>0, <2>5 DEF vars
  <2> QED
    BY <2>1, <2>2, <2>3, <2>4, <2>5 DEF Next, Observe, ObserveSame
<1> QED
  BY <1>1, TypeCorrect, PTL DEF Spec, HistoryIsFinal

-----------------------------------------------------------------------------
(* Incidents follow the outages of the history.                            *)

\* A resource has a last status exactly when the history mentions it.
SeenInHistory == \A r \in Resource : last[r] = None <=> EventsOf(r) = {}

\* Recording a change of r adds one event to r's history, and turns the outage
\* the history shows for r the way the abstract Report turns its bit.
LEMMA LogTurnsOutage ==
    ASSUME TypeOK, NEW r \in Resource, NEW cur \in Status,
           NEW incident \in IncidentId \cup {None}, Log(r, cur, incident)
    PROVE  /\ \A s \in Resource \ {r} : /\ EventsOf(s)' = EventsOf(s)
                                        /\ InOutage(s)' <=> InOutage(s)
           /\ EventsOf(r)' = EventsOf(r) \cup {Stamp}
           /\ InOutage(r)' <=> /\ cur # "up"
                               /\ InOutage(r) \/ (cur \in Impaired /\ EventsOf(r) # {})
<1>1. /\ Len(events) \in Nat
      /\ Len(events') = Len(events) + 1
      /\ Stamp = Len(events) + 1
      /\ \A n \in 1 .. Len(events) : events'[n] = events[n]
      /\ events'[Stamp] = [resource |-> r, status |-> cur, incident |-> incident]
  BY LogAppends DEF TypeOK, Stamp
<1>2. EventsOf(r)' = EventsOf(r) \cup {Stamp}
  BY <1>1 DEF EventsOf
<1>3. ASSUME NEW s \in Resource \ {r}
      PROVE  EventsOf(s)' = EventsOf(s)
  BY <1>1 DEF EventsOf
<1>4. ASSUME NEW s \in Resource \ {r}
      PROVE  InOutage(s)' <=> InOutage(s)
  <2>1. \A n \in EventsOf(s) : n \in 1 .. Len(events) /\ events'[n] = events[n]
    BY <1>1 DEF EventsOf
  <2> QED
    BY <1>3, <2>1 DEF InOutage, First
<1>5. \A n \in EventsOf(r) : /\ n \in 1 .. Len(events)
                             /\ n < Stamp
                             /\ events'[n] = events[n]
  BY <1>1 DEF EventsOf
<1>6. \A n \in EventsOf(r) : First(r, n)' <=> First(r, n)
  BY <1>1, <1>2, <1>5 DEF First
<1>7. \A k : k = Stamp => (First(r, k)' <=> EventsOf(r) = {})
  <2> SUFFICES ASSUME NEW k, k = Stamp
               PROVE  (\A m \in EventsOf(r)' : k <= m) <=> EventsOf(r) = {}
    BY DEF First
  <2> QED
    BY <1>1, <1>2, <1>5
<1>8. InOutage(r)' <=> \/ /\ cur \in Impaired
                          /\ EventsOf(r) # {}
                       \/ cur # "up" /\ InOutage(r)
  <2>1. ASSUME NEW n \in EventsOf(r)
        PROVE  (\A m \in EventsOf(r)' : n < m => events'[m].status # "up") <=>
                   cur # "up" /\ \A m \in EventsOf(r) : n < m => events[m].status # "up"
    BY <1>1, <1>2, <1>5
  <2>2. \A m \in EventsOf(r)' : ~(Stamp < m)
    BY <1>1, <1>2, <1>5
  <2>3. events'[Stamp].status = cur
    BY <1>1
  <2>4. InOutage(r)' <=>
            \/ \E k \in {Stamp} : /\ events'[k].status \in Impaired
                                  /\ ~First(r, k)'
                                  /\ \A m \in EventsOf(r)' : k < m => events'[m].status # "up"
            \/ \E n \in EventsOf(r) : /\ events'[n].status \in Impaired
                                      /\ ~First(r, n)'
                                      /\ \A m \in EventsOf(r)' : n < m => events'[m].status # "up"
    BY <1>2 DEF InOutage
  <2>5. InOutage(r)' <=>
            \/ /\ cur \in Impaired
               /\ EventsOf(r) # {}
            \/ \E n \in EventsOf(r) :
                  /\ events[n].status \in Impaired
                  /\ ~First(r, n)
                  /\ cur # "up" /\ \A m \in EventsOf(r) : n < m => events[m].status # "up"
    BY <1>5, <1>6, <1>7, <2>1, <2>2, <2>3, <2>4
  <2> QED
    BY <2>5 DEF InOutage
<1>9. cur \in Impaired => cur # "up"
  BY DEF Impaired
<1> QED
  BY <1>2, <1>3, <1>4, <1>8, <1>9

LEMMA SeenInHistoryAlways == Spec => []SeenInHistory
<1>1. Init => SeenInHistory
  <2> SUFFICES ASSUME Init, NEW r \in Resource
               PROVE  last[r] = None /\ EventsOf(r) = {}
    BY DEF SeenInHistory
  <2>1. Len(events) = 0
    BY DEF Init
  <2> QED
    BY <2>1 DEF Init, EventsOf
<1>2. TypeOK /\ SeenInHistory /\ [Next]_vars => SeenInHistory'
  <2> SUFFICES ASSUME TypeOK, SeenInHistory, [Next]_vars PROVE SeenInHistory'
    OBVIOUS
  <2>1. ASSUME NEW r \in Resource, NEW cur \in Status,
               NEW incident \in IncidentId \cup {None}, Log(r, cur, incident)
        PROVE  SeenInHistory'
    <3>1. last' = [last EXCEPT ![r] = cur] /\ cur # None
      BY <2>1 DEF Log, Status
    <3> QED
      BY <2>1, <3>1, LogTurnsOutage DEF SeenInHistory, TypeOK
  <2>2. ASSUME UNCHANGED <<last, events>>
        PROVE  SeenInHistory'
    BY <2>2 DEF SeenInHistory, EventsOf
  <2>3. ASSUME NEW r \in Resource, NEW cur \in Status, Observe(r, cur)
        PROVE  SeenInHistory'
    <3>1. CASE ObserveRecovery(r, cur)
      BY <3>1, <2>1 DEF ObserveRecovery, Unresolved, TypeOK, IncidentId
    <3> QED
      BY <3>1, <2>1, <2>2, <2>3, StampIsNew
         DEF Observe, ObserveOutage, ObserveOther, ObserveSame, IncidentId, vars
  <2> QED
    BY <2>2, <2>3 DEF Next, PlannedFromAlerts, vars
<1> QED
  BY <1>1, <1>2, TypeCorrect, PTL DEF Spec

\* An incident is under way on a resource exactly while its history shows an
\* outage: an impairment after the first sight with no recovery since.
THEOREM IncidentTracksOutageAlways == Spec => []IncidentTracksOutage
<1>1. Init => IncidentTracksOutage
  <2> SUFFICES ASSUME Init, NEW r \in Resource
               PROVE  Unresolved(r) = {} /\ ~InOutage(r)
    BY DEF IncidentTracksOutage
  <2>1. Len(events) = 0
    BY DEF Init
  <2> QED
    BY <2>1 DEF Init, InOutage, EventsOf, Unresolved
<1>2. TypeOK /\ OpenInv /\ SeenInHistory /\ IncidentTracksOutage /\ [Next]_vars
          => IncidentTracksOutage'
  <2> SUFFICES ASSUME TypeOK, OpenInv, SeenInHistory, IncidentTracksOutage, [Next]_vars
               PROVE  IncidentTracksOutage'
    OBVIOUS
  <2>1. CASE UNCHANGED vars
    BY <2>1 DEF vars, IncidentTracksOutage, Unresolved, InOutage, EventsOf, First
  <2>2. ASSUME NEW alerts \in SUBSET Alert, NEW published \in SUBSET Resource,
               PlannedFromAlerts(alerts, published)
        PROVE  IncidentTracksOutage'
    <3>1. \A s \in Resource : InOutage(s)' <=> InOutage(s)
      BY <2>2 DEF PlannedFromAlerts, InOutage, EventsOf, First
    <3> QED
      BY <2>2, <3>1, PlannedKeepsOpen DEF IncidentTracksOutage
  <2>3. ASSUME NEW r \in Resource, NEW cur \in Status,
               \/ ObserveOutage(r, cur)
               \/ ObserveRecovery(r, cur)
               \/ ObserveOther(r, cur)
        PROVE  IncidentTracksOutage'
    <3>1. PICK incident \in IncidentId \cup {None} : Log(r, cur, incident)
      BY <2>3, StampIsNew
         DEF ObserveOutage, ObserveRecovery, ObserveOther, Unresolved, TypeOK, IncidentId
    <3>2. \A s \in Resource \ {r} : /\ Unresolved(s)' = Unresolved(s)
                                    /\ InOutage(s)' <=> InOutage(s)
      <4>1. CASE ObserveOther(r, cur)
        BY <3>1, <4>1, LogTurnsOutage DEF ObserveOther, Unresolved
      <4> QED
        BY <2>3, <3>1, <4>1, LogTurnsOutage, OutageOpens, RecoveryCloses
    <3>3. Unresolved(r)' # {} <=>
              cur # "up" /\ (Unresolved(r) # {} \/ (cur \in Impaired /\ last[r] # None))
      <4>1. CASE ObserveOutage(r, cur)
        BY <4>1, OutageOpens DEF ObserveOutage, BeginsIncident, Impaired
      <4>2. CASE ObserveRecovery(r, cur)
        BY <4>2, RecoveryCloses DEF ObserveRecovery, EndsIncident
      <4>3. CASE ObserveOther(r, cur)
        BY <4>3 DEF ObserveOther, BeginsIncident, EndsIncident, Unresolved, Impaired
      <4> QED
        BY <2>3, <4>1, <4>2, <4>3
    <3>4. InOutage(r)' <=> cur # "up" /\ (InOutage(r) \/ (cur \in Impaired /\ last[r] # None))
      BY <3>1, LogTurnsOutage DEF SeenInHistory
    <3> QED
      BY <3>2, <3>3, <3>4 DEF IncidentTracksOutage
  <2> QED
    BY <2>1, <2>2, <2>3 DEF Next, Observe, ObserveSame
<1> QED
  BY <1>1, <1>2, TypeCorrect, OpenInvAlways, SeenInHistoryAlways, PTL DEF Spec

-----------------------------------------------------------------------------
(* The history explains the present.                                       *)

LEMMA LogKeepsHistory ==
    ASSUME TypeOK, HistoryMatchesLast, NEW r \in Resource, NEW cur \in Status,
           NEW incident \in IncidentId \cup {None}, Log(r, cur, incident)
    PROVE  HistoryMatchesLast'
<1> DEFINE Latest(s, n) == last[s] = events[n].status /\ \A m \in EventsOf(s) : m <= n
           Next2(s, n, m) == /\ n < m
                             /\ events[m].status # events[n].status
                             /\ \A k \in EventsOf(s) : k <= n \/ m <= k
<1>1. /\ Stamp \in Nat
      /\ last' = [last EXCEPT ![r] = cur]
      /\ last[r] # cur
      /\ cur # None
      /\ events'[Stamp].status = cur
      /\ EventsOf(r)' = EventsOf(r) \cup {Stamp}
      /\ \A s \in Resource \ {r} : EventsOf(s)' = EventsOf(s)
  <2>1. Stamp \in Nat
    BY StampIsNew
  <2>2. last' = [last EXCEPT ![r] = cur] /\ last[r] # cur
    BY DEF Log
  <2>3. cur # None
    BY DEF Status
  <2>4. events'[Stamp].status = cur
    <3>1. events'[Stamp] = [resource |-> r, status |-> cur, incident |-> incident]
      BY LogAppends
    <3> QED
      BY <3>1
  <2> QED
    BY <2>1, <2>2, <2>3, <2>4, LogTurnsOutage
<1>2. \A s \in Resource : \A n \in EventsOf(s) : /\ n \in Nat
                                                 /\ n < Stamp
                                                 /\ events'[n] = events[n]
  <2>1. /\ Len(events) \in Nat
        /\ \A n \in 1 .. Len(events) : events'[n] = events[n]
    BY LogAppends, LogType
  <2> QED
    BY <2>1 DEF EventsOf, Stamp
<1>3. ASSUME NEW s \in Resource \ {r}, NEW n \in EventsOf(s)
      PROVE  Latest(s, n)' \/ \E m \in EventsOf(s)' : Next2(s, n, m)'
  <2>1. last'[s] = last[s]
    BY <1>1 DEF TypeOK
  <2>2. CASE Latest(s, n)
    BY <1>1, <1>2, <2>1, <2>2
  <2>3. ASSUME NEW m \in EventsOf(s), Next2(s, n, m)
        PROVE  Next2(s, n, m)'
    BY <1>1, <1>2, <2>3
  <2> QED
    BY <1>1, <2>2, <2>3 DEF HistoryMatchesLast
<1>4. ASSUME NEW n \in EventsOf(r)
      PROVE  \E m \in EventsOf(r)' : Next2(r, n, m)'
  <2>1. ASSUME Latest(r, n)
        PROVE  \A m : m = Stamp => Next2(r, n, m)'
    BY <1>1, <1>2, <2>1
  <2>2. ASSUME NEW m \in EventsOf(r), Next2(r, n, m)
        PROVE  Next2(r, n, m)'
    BY <1>1, <1>2, <2>2
  <2> QED
    BY <1>1, <2>1, <2>2 DEF HistoryMatchesLast
<1>5. \A n : n = Stamp => Latest(r, n)'
  BY <1>1, <1>2 DEF TypeOK
<1>6. \A s \in Resource : last'[s] = None <=> EventsOf(s)' = {}
  BY <1>1 DEF HistoryMatchesLast, TypeOK
<1>7. ASSUME NEW s \in Resource, NEW n \in EventsOf(s)'
      PROVE  Latest(s, n)' \/ \E m \in EventsOf(s)' : Next2(s, n, m)'
  BY <1>1, <1>3, <1>4, <1>5
<1> QED
  BY <1>6, <1>7 DEF HistoryMatchesLast

\* What a resource was last seen as is its latest event, and successive events
\* of a resource differ.
THEOREM HistoryMatchesLastAlways == Spec => []HistoryMatchesLast
<1>1. Init => HistoryMatchesLast
  <2> SUFFICES ASSUME Init, NEW r \in Resource
               PROVE  last[r] = None /\ EventsOf(r) = {}
    BY DEF HistoryMatchesLast
  <2>1. Len(events) = 0
    BY DEF Init
  <2> QED
    BY <2>1 DEF Init, EventsOf
<1>2. TypeOK /\ HistoryMatchesLast /\ [Next]_vars => HistoryMatchesLast'
  <2> SUFFICES ASSUME TypeOK, HistoryMatchesLast, [Next]_vars PROVE HistoryMatchesLast'
    OBVIOUS
  <2>1. ASSUME UNCHANGED <<last, events>>
        PROVE  HistoryMatchesLast'
    BY <2>1 DEF HistoryMatchesLast, EventsOf
  <2>2. ASSUME NEW r \in Resource, NEW cur \in Status, Observe(r, cur)
        PROVE  HistoryMatchesLast'
    <3>1. CASE ObserveRecovery(r, cur)
      BY <3>1, LogKeepsHistory DEF ObserveRecovery, Unresolved, TypeOK, IncidentId
    <3> QED
      BY <3>1, <2>1, <2>2, StampIsNew, LogKeepsHistory
         DEF Observe, ObserveOutage, ObserveOther, ObserveSame, IncidentId, vars
  <2> QED
    BY <2>1, <2>2 DEF Next, PlannedFromAlerts, vars
<1> QED
  BY <1>1, <1>2, TypeCorrect, PTL DEF Spec

-----------------------------------------------------------------------------
(* Events and incidents point at each other.                               *)

\* An event and the incident it names, an incident and the events it lists.
EventLink(n) ==
    events[n].incident # None =>
        /\ events[n].incident \in DOMAIN incidents
        /\ n \in incidents[events[n].incident].events
IncidentLink(i) ==
    /\ \A n \in incidents[i].events :
          /\ n \in 1 .. Len(events)
          /\ events[n].incident = i
          /\ incidents[i].resources = {events[n].resource}
    /\ i \in Alert => incidents[i].resolution = "pending"
    /\ i \notin Alert =>
          /\ i \in incidents[i].events
          /\ events[i].status \in Impaired
          /\ incidents[i].resolution = "completed" <=>
                 \E n \in incidents[i].events : n > i /\ events[n].status = "up"

LEMMA LinksByParts ==
    IncidentEventLinks <=> /\ \A n \in 1 .. Len(events) : EventLink(n)
                           /\ \A i \in DOMAIN incidents : IncidentLink(i)
BY DEF IncidentEventLinks, EventLink, IncidentLink

\* A change that leaves an incident alone leaves its links alone.
LEMMA OldIncidentLink ==
    ASSUME TypeOK, NEW r \in Resource, NEW cur \in Status,
           NEW incident \in IncidentId \cup {None}, Log(r, cur, incident),
           NEW i \in DOMAIN incidents, incidents'[i] = incidents[i], IncidentLink(i)
    PROVE  IncidentLink(i)'
<1>1. \A n \in incidents[i].events : /\ n \in 1 .. Len(events)
                                     /\ n \in 1 .. Len(events')
                                     /\ events'[n] = events[n]
  <2>1. /\ Len(events) \in Nat
        /\ Len(events') = Len(events) + 1
        /\ \A n \in 1 .. Len(events) : events'[n] = events[n]
    BY LogAppends, LogType
  <2> QED
    BY <2>1 DEF IncidentLink
<1> QED
  BY <1>1 DEF IncidentLink

LEMMA OutageLinks ==
    ASSUME TypeOK, IncidentEventLinks, NEW r \in Resource, NEW cur \in Status,
           ObserveOutage(r, cur)
    PROVE  IncidentEventLinks'
<1>1. /\ Len(events) \in Nat
      /\ Stamp = Len(events) + 1
      /\ Len(events') = Stamp
      /\ \A n \in 1 .. Len(events) : events'[n] = events[n]
      /\ events'[Stamp] = [resource |-> r, status |-> cur, incident |-> Stamp]
      /\ Stamp \in IncidentId \cup {None}
      /\ Log(r, cur, Stamp)
  BY LogAppends, StampIsNew DEF ObserveOutage, TypeOK, Stamp, IncidentId
<1>2. /\ DOMAIN incidents' = DOMAIN incidents \cup {Stamp}
      /\ incidents'[Stamp] = UnplannedIncident(r, cur)
      /\ \A i \in DOMAIN incidents : incidents'[i] = incidents[i]
  BY StampIsNew DEF ObserveOutage
<1>3. ASSUME NEW i \in DOMAIN incidents
      PROVE  IncidentLink(i)'
  BY <1>1, <1>2, OldIncidentLink, LinksByParts
<1>4. ASSUME NEW i, i = Stamp
      PROVE  IncidentLink(i)'
  <2>1. cur \in Impaired /\ i \notin Alert
    BY <1>4, StampIsNew DEF ObserveOutage, BeginsIncident
  <2>2. incidents'[i] = [type |-> "unplanned", status |-> cur, resources |-> {r},
                         events |-> {i}, resolution |-> "unresolved"]
    BY <1>2, <1>4 DEF UnplannedIncident
  <2> QED
    BY <1>1, <1>4, <2>1, <2>2 DEF IncidentLink
<1>5. ASSUME NEW n \in 1 .. Len(events')
      PROVE  EventLink(n)'
  <2>1. CASE n = Stamp
    BY <1>1, <1>2, <2>1 DEF EventLink, UnplannedIncident
  <2>2. CASE n \in 1 .. Len(events)
    <3>1. EventLink(n)
      BY <2>2, LinksByParts
    <3> QED
      BY <1>1, <1>2, <2>2, <3>1 DEF EventLink
  <2> QED
    BY <1>1, <2>1, <2>2
<1>6. \A i \in DOMAIN incidents' : IncidentLink(i)'
  BY <1>2, <1>3, <1>4
<1> QED
  BY <1>5, <1>6 DEF IncidentEventLinks, EventLink, IncidentLink

LEMMA RecoveryLinks ==
    ASSUME TypeOK, OpenInv, IncidentEventLinks, NEW r \in Resource, NEW cur \in Status,
           ObserveRecovery(r, cur)
    PROVE  IncidentEventLinks'
<1> PICK open \in Unresolved(r) :
          /\ Log(r, cur, open)
          /\ incidents' = [incidents EXCEPT ![open] = Completed(@)]
  BY DEF ObserveRecovery
<1>0. open \in DOMAIN incidents /\ open \in IncidentId \cup {None}
  BY DEF Unresolved, TypeOK, IncidentId
<1>1. /\ Len(events) \in Nat
      /\ Stamp = Len(events) + 1
      /\ Len(events') = Stamp
      /\ \A n \in 1 .. Len(events) : events'[n] = events[n]
      /\ events'[Stamp] = [resource |-> r, status |-> cur, incident |-> open]
  BY <1>0, LogAppends DEF TypeOK, Stamp
<1>2. /\ DOMAIN incidents' = DOMAIN incidents
      /\ incidents'[open] = Completed(incidents[open])
      /\ \A i \in DOMAIN incidents \ {open} : incidents'[i] = incidents[i]
  BY <1>0 DEF TypeOK
<1>3. ASSUME NEW i \in DOMAIN incidents \ {open}
      PROVE  IncidentLink(i)'
  BY <1>0, <1>2, OldIncidentLink, LinksByParts
<1>4. IncidentLink(open)'
  <2>1. IncidentLink(open) /\ incidents[open].resolution = "unresolved"
    BY <1>0, LinksByParts DEF Unresolved
  <2>2. /\ open \notin Alert
        /\ open \in 1 .. Len(events)
        /\ open \in incidents[open].events
        /\ events[open].status \in Impaired
    BY <2>1 DEF IncidentLink
  <2>3. cur = "up" /\ incidents[open].resources = {r}
    BY DEF ObserveRecovery, EndsIncident, OpenInv, OpenIsUnplanned, Unresolved
  <2>4. /\ incidents'[open].events = incidents[open].events \cup {Stamp}
        /\ incidents'[open].resources = {r}
        /\ incidents'[open].resolution = "completed"
    BY <1>2, <2>3 DEF Completed
  <2>5. \A n \in incidents[open].events : /\ n \in 1 .. Len(events)
                                          /\ events'[n] = events[n]
                                          /\ events[n].incident = open
                                          /\ {events[n].resource} = {r}
    BY <1>1, <2>1, <2>3 DEF IncidentLink
  <2>6. \A n \in incidents'[open].events : /\ n \in 1 .. Len(events')
                                           /\ events'[n].incident = open
                                           /\ incidents'[open].resources = {events'[n].resource}
    <3>1. \A n \in incidents[open].events : n \in 1 .. Len(events')
      BY <1>1, <2>5
    <3>2. Stamp \in 1 .. Len(events') /\ events'[Stamp].incident = open
                                      /\ events'[Stamp].resource = r
      BY <1>1
    <3> QED
      BY <2>4, <2>5, <3>1, <3>2
  <2>7. \E n \in incidents'[open].events : n > open /\ events'[n].status = "up"
    BY <1>1, <2>2, <2>3, <2>4
  <2> QED
    BY <1>1, <2>2, <2>4, <2>6, <2>7 DEF IncidentLink
<1>5. ASSUME NEW n \in 1 .. Len(events')
      PROVE  EventLink(n)'
  <2>1. CASE n = Stamp
    BY <1>0, <1>1, <1>2, <2>1 DEF EventLink, Completed
  <2>2. CASE n \in 1 .. Len(events)
    <3>1. EventLink(n)
      BY <2>2, LinksByParts
    <3> QED
      BY <1>0, <1>1, <1>2, <2>2, <3>1 DEF EventLink, Completed
  <2> QED
    BY <1>1, <2>1, <2>2
<1>6. \A i \in DOMAIN incidents' : IncidentLink(i)'
  BY <1>2, <1>3, <1>4
<1> QED
  BY <1>5, <1>6 DEF IncidentEventLinks, EventLink, IncidentLink

LEMMA OtherLinks ==
    ASSUME TypeOK, IncidentEventLinks, NEW r \in Resource, NEW cur \in Status,
           ObserveOther(r, cur)
    PROVE  IncidentEventLinks'
<1>0. Log(r, cur, None) /\ None \in IncidentId \cup {None}
  BY DEF ObserveOther
<1>1. /\ Len(events) \in Nat
      /\ Len(events') = Len(events) + 1
      /\ \A n \in 1 .. Len(events) : events'[n] = events[n]
      /\ events'[Len(events) + 1].incident = None
      /\ incidents' = incidents
  <2>1. /\ \A n \in 1 .. Len(events) : events'[n] = events[n]
        /\ Len(events') = Stamp
        /\ events'[Stamp] = [resource |-> r, status |-> cur, incident |-> None]
    BY <1>0, LogAppends
  <2> QED
    BY <2>1 DEF ObserveOther, TypeOK, Stamp
<1>2. \A i \in DOMAIN incidents' : IncidentLink(i)'
  BY <1>0, <1>1, OldIncidentLink, LinksByParts
<1>3. ASSUME NEW n \in 1 .. Len(events')
      PROVE  EventLink(n)'
  <2>1. CASE n \in 1 .. Len(events)
    BY <1>1, <2>1, LinksByParts DEF EventLink
  <2>2. CASE n = Len(events) + 1
    BY <1>1, <2>2 DEF EventLink
  <2> QED
    BY <1>1, <2>1, <2>2
<1> QED
  BY <1>2, <1>3 DEF IncidentEventLinks, EventLink, IncidentLink

LEMMA PlannedLinks ==
    ASSUME TypeOK, IncidentEventLinks, NEW alerts \in SUBSET Alert,
           NEW published \in SUBSET Resource, PlannedFromAlerts(alerts, published)
    PROVE  IncidentEventLinks'
<1>1. /\ events' = events
      /\ DOMAIN incidents' = DOMAIN incidents \cup alerts
      /\ \A i \in DOMAIN incidents : incidents'[i] = incidents[i]
      /\ \A i \in alerts \ DOMAIN incidents : incidents'[i] = PlannedIncident(published)
  BY DEF PlannedFromAlerts
<1>2. ASSUME NEW i \in alerts \ DOMAIN incidents
      PROVE  IncidentLink(i)'
  BY <1>1 DEF IncidentLink, PlannedIncident
<1>3. ASSUME NEW i \in DOMAIN incidents
      PROVE  IncidentLink(i)'
  BY <1>1, LinksByParts DEF IncidentLink
<1>4. ASSUME NEW n \in 1 .. Len(events')
      PROVE  EventLink(n)'
  BY <1>1, LinksByParts DEF EventLink
<1>5. \A i \in DOMAIN incidents' : IncidentLink(i)'
  BY <1>1, <1>2, <1>3
<1> QED
  BY <1>4, <1>5 DEF IncidentEventLinks, EventLink, IncidentLink

\* The links between events and incidents agree in both directions, and an
\* unplanned incident runs from an impairment to the recovery that completes it.
THEOREM IncidentEventLinksAlways == Spec => []IncidentEventLinks
<1>1. Init => IncidentEventLinks
  <2>1. Init => Len(events) = 0
    BY DEF Init
  <2> QED
    BY <2>1 DEF Init, IncidentEventLinks
<1>2. TypeOK /\ OpenInv /\ IncidentEventLinks /\ [Next]_vars => IncidentEventLinks'
  <2> SUFFICES ASSUME TypeOK, OpenInv, IncidentEventLinks, [Next]_vars
               PROVE  IncidentEventLinks'
    OBVIOUS
  <2>1. CASE UNCHANGED vars
    BY <2>1 DEF vars, IncidentEventLinks
  <2> QED
    BY <2>1, OutageLinks, RecoveryLinks, OtherLinks, PlannedLinks
       DEF Next, Observe, ObserveSame
<1> QED
  BY <1>1, <1>2, TypeCorrect, OpenInvAlways, PTL DEF Spec
=============================================================================
