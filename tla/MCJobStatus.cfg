\* One job; every driver, with and without accounting and a recorded job id.
\* There is no bound: polls go on for ever and the state space is finite.
CONSTANTS
    None = None
    Empty = Empty
SPECIFICATION FairSpec
INVARIANTS
    CompletedIsTrue
    TerminalIsOver
    SettledReportIsRight
PROPERTIES
    EndsReported
