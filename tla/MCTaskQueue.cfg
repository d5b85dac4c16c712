\* Three tasks for two workers, so that one waits while two run; time for one
\* task to finish, expire and be missed by the worker that still runs it.
CONSTANTS
    User = {alice, bob}
    Worker = {w1, w2}
    None = None
    TTL = 1
    MaxTask = 3
    MaxTime = 4
SPECIFICATION FairSpec
INVARIANTS
    NoTaskLost
    StartsInOrder
PROPERTIES
    CanceledBeforeStartNeverRuns
    OutcomeIsFinal
    TasksSettle
