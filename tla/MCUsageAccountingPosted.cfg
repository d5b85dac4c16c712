\* One credential; two submissions to two clusters that count their jobs alike,
\* and two polls.
CONSTANTS
    User = {"svc", "alice"}
    Account = {"acct1", "acct2"}
    Credential = {"materials"}
    Keycard = {"materials"}
    UserOf <- MCUserOf
    AccountOf <- MCAccountOf
    None = None
    Cluster = {"c1", "c2"}
    MaxRequest = 4
    MaxRestarts = 0
SPECIFICATION Spec
PROPERTIES
    FinishedJobsArePosted
CHECK_DEADLOCK FALSE
