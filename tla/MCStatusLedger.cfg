\* Two resources interleave; five changes let one resource go through
\* first sight, outage, recovery, a second outage and a second recovery.
CONSTANTS
    Resource = {r1, r2}
    Alert = {maintenance}
    None = None
    MaxEvents = 5
SPECIFICATION Spec
INVARIANTS
    HistoryMatchesLast
    OneOpenIncident
    IncidentTracksOutage
    IncidentEventLinks
PROPERTIES
    HistoryIsFinal
    LifecycleSpec
