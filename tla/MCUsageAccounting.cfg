\* Two projects that share a user, and a second user: enough for a Keycard to
\* come between another's authentication and its use.  Two clusters, so that
\* job numbers collide; three requests, to submit once and poll twice, or to
\* submit twice and poll once.  The run ends when all are answered.
CONSTANTS
    User = {"svc", "alice"}
    Account = {"acct1", "acct2"}
    Credential = {"materials", "climate", "seed", "key"}
    Keycard = {"materials", "climate", "seed"}
    UserOf <- MCUserOf
    AccountOf <- MCAccountOf
    None = None
    Cluster = {"c1", "c2"}
    MaxRequest = 3
    MaxRestarts = 1
SPECIFICATION Spec
INVARIANTS
    PostedOnce
    ChargedAsPresented
CHECK_DEADLOCK FALSE
