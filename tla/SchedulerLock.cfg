\* Two workers, recycled and killed without end, a task that writes and one that
\* reads, and any three of: freeze, Redis outage, change of role.
SPECIFICATION FairSpec
CONSTANTS
    w1 = w1  w2 = w2  t1 = t1  t2 = t2
    Workers = {w1, w2}
    Tasks = {t1, t2}
    WriteTasks = {t1}
    Interval <- TaskIntervals
    Nobody = Nobody
    Gone = Gone
    Lifetime = 2
    MaxFaults = 3
INVARIANTS
    TypeOK
    OnlyTheOwnerPasses
PROPERTIES
    TakeoverRepeatsNothing
    SettledTasksAreStarted
