\* One worker: three tasks, fetched two at a time, two attempts each.
SPECIFICATION FairSpec
CONSTANTS
    w1 = w1
    Tasks = {1, 2, 3}
    Workers = {w1}
    BatchSize = 2
    MaxAttempts = 2
    NoTask = NoTask
\* All tasks are settled in the end, and polling finds nothing.
CHECK_DEADLOCK FALSE
INVARIANTS FinishedIsPublished AttemptsMatchStatus CopiesCounted
PROPERTIES NeverReopened Settled KeepsPromise
