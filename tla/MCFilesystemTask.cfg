\* One operation of each kind on each kind of resource, through each executor;
\* three reads of the log of a completed run, so that the log can catch up
\* before, between and after them.
CONSTANTS
    LogTries = 3
    None = None
SPECIFICATION FairFsSpec
INVARIANTS
    SuccessIsTrue
    CompletedIsRead
    RefusedHasNoEffect
PROPERTIES
    CommandSpec
    OperationSpec
    OperationEnds
CHECK_DEADLOCK FALSE
