\* Two workers per node (the default of the Dockerfile), automatic failover on n2:
\* a link outage, an order, a database fault and a restart, in every order.
SPECIFICATION FairSpec
CONSTANTS
    n1 = n1  n2 = n2  w1 = w1  w2 = w2
    Nodes = {n1, n2}
    FirstPrimary = n1
    Workers = {w1, w2}
    HbWorker = w1
    AutoPromote = {n2}
    FailoverAfter = 2
    MaxOrders = 1
    MaxCuts = 1
    MaxFaults = 1
    MaxRestarts = 1
INVARIANTS
    TypeOK
    HeartbeatSharesRole
PROPERTIES
    
    BlockIsLifted
    TakesOver
