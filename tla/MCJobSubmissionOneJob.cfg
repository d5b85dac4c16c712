\* The promise of an Idempotency-Key, on the smallest instance in which a lock
\* runs out before the command it protects: no restart, and no answer expires
\* within the clock's bound.
CONSTANTS
    Key = {k1}
    Body = {b1}
    MaxRequest = 2
    Job = {1, 2}
    None = None
    LockTTL = 1
    ResultTTL = 9
    CommandTimeout = 3
    RecordTimeout = 1
    MaxTime = 6
    MaxRestarts = 0
SPECIFICATION Spec
INVARIANTS
    OneJobPerKey
CHECK_DEADLOCK FALSE
