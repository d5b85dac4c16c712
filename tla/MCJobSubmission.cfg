\* Three requests, so that a late one meets the lock of a second and the retry
\* of a third; one key, two bodies; LockTTL < CommandTimeout
\* as in the code (60 s and 300 s).  The run ends when every request is
\* answered and the clock is at its bound.
CONSTANTS
    Key = {k1}
    Body = {b1, b2}
    MaxRequest = 3
    Job = {1, 2, 3}
    None = None
    LockTTL = 1
    ResultTTL = 1
    CommandTimeout = 2
    RecordTimeout = 1
    MaxTime = 5
    MaxRestarts = 1
SPECIFICATION FairSpec
INVARIANTS
    LockHasHolder
    AnswersAreReal
    DuplicatesExplained
PROPERTIES
    RequestsSettle
CHECK_DEADLOCK FALSE
