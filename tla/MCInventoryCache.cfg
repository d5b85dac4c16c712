\* Three requests: two that meet at the lock and one that comes later, or one
\* after the other with a failure in between; one upstream, which is refreshed,
\* skipped, torn or malformed in any two builds; times that tell the three limits
\* apart, and enough of them for an inventory to be kept, to expire and to be
\* replaced.
CONSTANTS
    Request = {r1, r2, r3}
    Upstream = {u1}
    InvTTL = 2
    Grace = 1
    GwTTL = 3
    MaxTime = 5
    None = None
SPECIFICATION FairSpec
INVARIANTS
    LedgerInStep
    IncidentsNotAhead
    StaleIsExcused
PROPERTIES
    ReplacesExpired
    RequestsEnd
CHECK_DEADLOCK FALSE
