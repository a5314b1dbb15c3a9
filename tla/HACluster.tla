------------------------------ MODULE HACluster ------------------------------
(***************************************************************************)
(* The two nodes of an HA pair: who may write, and how a node decides it.  *)
(*                                                                         *)
(* Each node keeps its role in three places: the ha_config row, the cache  *)
(* of the write-protection middleware in every worker process, and the     *)
(* local_role of the heartbeat service, which runs in one of the workers.  *)
(* An administrator's order and the heartbeat loop change them in several  *)
(* steps; the caches change before the row's transaction commits.          *)
(***************************************************************************)
EXTENDS Integers

CONSTANTS
    Nodes,              \* the two nodes
    FirstPrimary,       \* the node configured as primary; the other is its standby
    Workers,            \* gunicorn workers of a node
    HbWorker,           \* the worker that holds the heartbeat lock
    AutoPromote,        \* nodes with auto_promote_enabled
    FailoverAfter,      \* failed pings until the peer counts as unreachable and
                        \* failover_timeout_seconds have passed since
    MaxOrders,          \* bound: orders of administrators
    MaxCuts,            \* bound: times a direction of the link goes down
    MaxFaults,          \* bound: database failures
    MaxRestarts         \* bound: restarts of a node

ASSUME ClusterAssumption ==
    /\ \E m, n \in Nodes : m # n /\ Nodes = {m, n}
    /\ FirstPrimary \in Nodes
    /\ HbWorker \in Workers
    /\ AutoPromote \subseteq Nodes
    /\ FailoverAfter \in Nat \ {0}

VARIABLES
    cfg,        \* the committed ha_config row of each node
    worker,     \* _node_role and _split_brain_blocked of each worker
    hb,         \* the heartbeat service of each node and where its loop stands
    order,      \* the administrator's request a node is executing
    answer,     \* the row the heartbeat endpoint has cached for its answers
    reaches,    \* nodes whose pings get through to their peer
    clock,      \* promotions so far: the source of promoted_at
    used        \* how much of each bound has been spent

vars == <<cfg, worker, hb, order, answer, reaches, clock, used>>

Role == {"primary", "standby"}
Never == 0                       \* promoted_at is NULL
Unknown == -1                    \* no ping has succeeded since the service started
Kinds == {"promote", "demote", "sync"}

peer(n) == CHOOSE m \in Nodes : m # n

ConfigRow == [role : Role, promotedAt : Nat]
Worker == [role : Role, blocked : BOOLEAN]
Heartbeat ==
    [localRole : Role,
     silence   : Unknown..FailoverAfter,    \* pings failed since the last answer
     split     : BOOLEAN,                   \* split_brain_detected
     peerAt    : Nat,                       \* promoted_at the peer last sent
     attempted : BOOLEAN,                   \* _auto_promote_attempted
     failed    : BOOLEAN,                   \* _auto_promote_failed_permanently
     attempt   : 0..2,                      \* of _execute_auto_promote
     localAt   : Nat,                       \* promoted_at the loop has at hand
     phase     : {"ping", "guard", "compare", "auto", "try", "commit"}]
Order == [kind : Kinds \cup {"none"}, w : Workers,
          phase : {"none", "read", "applied"}, at : Nat]
Spendings == [{"orders", "cuts", "faults", "restarts"} -> Nat]

NoOrder == [kind |-> "none", w |-> HbWorker, phase |-> "none", at |-> Never]

NewHeartbeat(role) ==
    [localRole |-> role, silence |-> Unknown, split |-> FALSE, peerAt |-> Never,
     attempted |-> FALSE, failed |-> FALSE, phase |-> "ping", attempt |-> 0,
     localAt |-> Never]

Loaded(role) == [w \in Workers |-> [role |-> role, blocked |-> FALSE]]

Init ==
    /\ cfg = [n \in Nodes |-> [role |-> IF n = FirstPrimary THEN "primary" ELSE "standby",
                               promotedAt |-> Never]]
    /\ worker = [n \in Nodes |-> Loaded(cfg[n].role)]
    /\ hb = [n \in Nodes |-> NewHeartbeat(cfg[n].role)]
    /\ order = [n \in Nodes |-> NoOrder]
    /\ answer = cfg
    /\ reaches = Nodes
    /\ clock = 0
    /\ used = [orders |-> 0, cuts |-> 0, faults |-> 0, restarts |-> 0]

Spend(what, limit) == used[what] < limit /\ used' = [used EXCEPT ![what] = @ + 1]

-----------------------------------------------------------------------------
(* The heartbeat loop: ping, split-brain check, auto-promotion check *)

Older(silence) ==
    IF silence = Unknown \/ silence = FailoverAfter THEN silence ELSE silence + 1

Unblocked(n) == [worker EXCEPT ![n][HbWorker].blocked = FALSE]

\* The write block is left as it is when there is no split-brain (any more).
PingKeepingBlock(n) ==
    LET heard == n \in reaches
        their == answer[peer(n)]
        split == IF heard THEN hb[n].localRole = "primary" /\ their.role = "primary"
                 ELSE hb[n].split
    IN  /\ hb[n].phase = "ping"
        /\ hb' = [hb EXCEPT ![n].silence   = IF heard THEN 0 ELSE Older(@),
                            ![n].attempted = @ /\ ~heard,
                            ![n].peerAt    = IF heard THEN their.promotedAt ELSE @,
                            ![n].split     = split,
                            ![n].phase     = IF split THEN "guard" ELSE "auto"]
        /\ UNCHANGED <<cfg, worker, order, answer, reaches, clock, used>>

\* A ping that fails leaves what the last answer said standing, split-brain
\* included; one that succeeds ends the outage and allows another attempt.
Ping(n) ==
    LET heard == n \in reaches
        their == answer[peer(n)]
        split == IF heard THEN hb[n].localRole = "primary" /\ their.role = "primary"
                 ELSE hb[n].split
    IN  /\ hb[n].phase = "ping"
        /\ hb' = [hb EXCEPT ![n].silence   = IF heard THEN 0 ELSE Older(@),
                            ![n].attempted = @ /\ ~heard,
                            ![n].peerAt    = IF heard THEN their.promotedAt ELSE @,
                            ![n].split     = split,
                            ![n].phase     = IF split THEN "guard" ELSE "auto"]
        /\ worker' = IF split THEN worker ELSE Unblocked(n)
        /\ UNCHANGED <<cfg, order, answer, reaches, clock, used>>

\* The row is read in a session of its own, and compared when that has closed.
ReadOwnPromotion(n) ==
    /\ hb[n].phase = "guard"
    /\ hb' = [hb EXCEPT ![n].localAt = cfg[n].promotedAt, ![n].phase = "compare"]
    /\ UNCHANGED <<cfg, worker, order, answer, reaches, clock, used>>

\* Either check of the loop fails: its error is logged and the loop goes on.
CheckFails(n) ==
    /\ hb[n].phase \in {"guard", "auto"}
    /\ Spend("faults", MaxFaults)
    /\ hb' = [hb EXCEPT ![n].phase = IF @ = "guard" THEN "auto" ELSE "ping"]
    /\ UNCHANGED <<cfg, worker, order, answer, reaches, clock>>

StalePrimary(localAt, peerAt) == peerAt # Never /\ (localAt = Never \/ localAt < peerAt)

BlockIfStale(n) ==
    /\ hb[n].phase = "compare"
    /\ worker' = IF StalePrimary(hb[n].localAt, hb[n].peerAt)
                 THEN [worker EXCEPT ![n][HbWorker].blocked = TRUE] ELSE worker
    /\ hb' = [hb EXCEPT ![n].phase = "auto"]
    /\ UNCHANGED <<cfg, order, answer, reaches, clock, used>>

TakeoverDue(n) ==
    /\ n \in AutoPromote
    /\ hb[n].silence = FailoverAfter
    /\ ~hb[n].attempted
    /\ ~hb[n].failed

CheckTakeover(n) ==
    /\ hb[n].phase = "auto"
    /\ hb' = IF TakeoverDue(n)
             THEN [hb EXCEPT ![n].attempted = TRUE, ![n].attempt = 1, ![n].phase = "try"]
             ELSE [hb EXCEPT ![n].phase = "ping"]
    /\ UNCHANGED <<cfg, worker, order, answer, reaches, clock, used>>

\* The middleware and the service take the new role before the row is committed.
TryTakeoverForgetful(n) ==
    /\ hb[n].phase = "try"
    /\ cfg[n].role = "standby"
    /\ clock' = clock + 1
    /\ worker' = [worker EXCEPT ![n][HbWorker].role = "primary"]
    /\ hb' = [hb EXCEPT ![n].localAt = clock + 1, ![n].phase = "commit"]
    /\ UNCHANGED <<cfg, order, answer, reaches, used>>

TryTakeover(n) ==
    /\ hb[n].phase = "try"
    /\ cfg[n].role = "standby"
    /\ clock' = clock + 1
    /\ worker' = [worker EXCEPT ![n][HbWorker].role = "primary"]
    /\ hb' = [hb EXCEPT ![n].localRole = "primary", ![n].localAt = clock + 1,
                        ![n].phase = "commit"]
    /\ UNCHANGED <<cfg, order, answer, reaches, used>>

SkipTakeover(n) ==
    /\ hb[n].phase = "try"
    /\ cfg[n].role # "standby"
    /\ hb' = [hb EXCEPT ![n].phase = "ping"]
    /\ UNCHANGED <<cfg, worker, order, answer, reaches, clock, used>>

\* The UPDATE waits for an order that has already flushed its own.
CommitTakeover(n) ==
    /\ hb[n].phase = "commit"
    /\ order[n].phase # "applied"
    /\ cfg' = [cfg EXCEPT ![n] = [role |-> "primary", promotedAt |-> hb[n].localAt]]
    /\ hb' = [hb EXCEPT ![n].phase = "ping"]
    /\ UNCHANGED <<worker, order, answer, reaches, clock, used>>

\* An attempt is rolled back; the caches keep the role it gave them.
FailTakeoverOnce(n) ==
    /\ hb[n].phase \in {"try", "commit"}
    /\ Spend("faults", MaxFaults)
    /\ hb' = [hb EXCEPT ![n].phase = "ping"]
    /\ UNCHANGED <<cfg, worker, order, answer, reaches, clock>>

FailTakeover(n) ==
    /\ hb[n].phase \in {"try", "commit"}
    /\ Spend("faults", MaxFaults)
    /\ hb' = IF hb[n].attempt = 1
             THEN [hb EXCEPT ![n].attempt = 2, ![n].phase = "try"]
             ELSE [hb EXCEPT ![n].failed = TRUE, ![n].phase = "ping"]
    /\ UNCHANGED <<cfg, worker, order, answer, reaches, clock>>

-----------------------------------------------------------------------------
(* Orders of an administrator; any worker may receive them *)

Give(n, w, kind) ==
    /\ order[n] = NoOrder
    /\ cfg[n].role = IF kind = "promote" THEN "standby" ELSE "primary"
    /\ Spend("orders", MaxOrders)
    /\ order' = [order EXCEPT ![n] = [kind |-> kind, w |-> w, phase |-> "read", at |-> Never]]
    /\ UNCHANGED <<cfg, worker, hb, answer, reaches, clock>>

DemotedToStandalone(kind) == IF kind = "promote" THEN "primary" ELSE "standalone"
NewRole(kind) == IF kind = "promote" THEN "primary" ELSE "standby"

\* Flushes the row, then changes the caches of the worker that runs the order;
\* only demote-and-sync lifts a split-brain block.
Carry(n) ==
    LET o == order[n]
        role == NewRole(o.kind)
        at == IF o.kind = "promote" THEN clock + 1 ELSE Never
    IN  /\ o.phase = "read"
        /\ order' = [order EXCEPT ![n].phase = "applied", ![n].at = at]
        /\ clock' = IF o.kind = "promote" THEN clock + 1 ELSE clock
        /\ worker' = [worker EXCEPT ![n][o.w].role = role,
                                    ![n][o.w].blocked = @ /\ o.kind # "sync"]
        /\ hb' = IF o.w = HbWorker THEN [hb EXCEPT ![n].localRole = role] ELSE hb
        /\ UNCHANGED <<cfg, answer, reaches, used>>

\* A failed truncation turns into a 400 answer, and its session still commits.
TruncationFails(n) ==
    /\ order[n].phase = "read"
    /\ order[n].kind = "sync"
    /\ Spend("faults", MaxFaults)
    /\ order' = [order EXCEPT ![n].phase = "applied"]
    /\ UNCHANGED <<cfg, worker, hb, answer, reaches, clock>>

CommitOrder(n) ==
    LET o == order[n] IN
    /\ o.phase = "applied"
    /\ cfg' = [cfg EXCEPT ![n] = [role |-> NewRole(o.kind), promotedAt |-> o.at]]
    /\ order' = [order EXCEPT ![n] = NoOrder]
    /\ UNCHANGED <<worker, hb, answer, reaches, clock, used>>

\* The transaction is rolled back; the caches are not.
FailOrder(n) ==
    /\ order[n] # NoOrder
    /\ Spend("faults", MaxFaults)
    /\ order' = [order EXCEPT ![n] = NoOrder]
    /\ UNCHANGED <<cfg, worker, hb, answer, reaches, clock>>

-----------------------------------------------------------------------------
(* The surroundings *)

\* The endpoint's cache expires, and the next ping is answered from the row.
RefreshAnswer(n) ==
    /\ answer[n] # cfg[n]
    /\ answer' = [answer EXCEPT ![n] = cfg[n]]
    /\ UNCHANGED <<cfg, worker, hb, order, reaches, clock, used>>

CutLink(n) ==
    /\ n \in reaches
    /\ Spend("cuts", MaxCuts)
    /\ reaches' = reaches \ {n}
    /\ UNCHANGED <<cfg, worker, hb, order, answer, clock>>

HealLink(n) ==
    /\ n \notin reaches
    /\ reaches' = reaches \cup {n}
    /\ UNCHANGED <<cfg, worker, hb, order, answer, clock, used>>

\* Every worker loads the role from the row; what they had cached is gone.
Restart(n) ==
    /\ Spend("restarts", MaxRestarts)
    /\ worker' = [worker EXCEPT ![n] = Loaded(cfg[n].role)]
    /\ hb' = [hb EXCEPT ![n] = NewHeartbeat(cfg[n].role)]
    /\ order' = [order EXCEPT ![n] = NoOrder]
    /\ answer' = [answer EXCEPT ![n] = cfg[n]]
    /\ UNCHANGED <<cfg, reaches, clock>>

-----------------------------------------------------------------------------
HeartbeatLoop(n) ==
    \/ Ping(n) \/ ReadOwnPromotion(n) \/ BlockIfStale(n)
    \/ CheckTakeover(n) \/ TryTakeover(n) \/ SkipTakeover(n) \/ CommitTakeover(n)

CarryOut(n) == Carry(n) \/ CommitOrder(n)

Fault(n) == CheckFails(n) \/ FailTakeover(n) \/ TruncationFails(n) \/ FailOrder(n)

Next ==
    \E n \in Nodes :
        \/ HeartbeatLoop(n)
        \/ \E w \in Workers, kind \in Kinds : Give(n, w, kind)
        \/ CarryOut(n)
        \/ Fault(n)
        \/ RefreshAnswer(n)
        \/ CutLink(n)
        \/ HealLink(n)
        \/ Restart(n)

Spec == Init /\ [][Next]_vars

\* The loop keeps running, requests end and caches expire; links need not heal.
FairSpec ==
    /\ Spec
    /\ \A n \in Nodes : /\ WF_vars(HeartbeatLoop(n))
                        /\ WF_vars(CarryOut(n))
                        /\ WF_vars(RefreshAnswer(n))

-----------------------------------------------------------------------------
(* Properties *)

\* should_block_request: what the middleware of a worker lets through.
Accepts(n, w) == worker[n][w].role # "standby" /\ ~worker[n][w].blocked

AcceptsWrites(n) == \E w \in Workers : Accepts(n, w)
SplitBrain == \A n \in Nodes : cfg[n].role = "primary"
Connected == reaches = Nodes

\* Every variable keeps its type; the silence of a peer is counted no further
\* than the failover it triggers, and a takeover is tried at most twice.
TypeOK ==
    /\ cfg \in [Nodes -> ConfigRow]
    /\ worker \in [Nodes -> [Workers -> Worker]]
    /\ hb \in [Nodes -> Heartbeat]
    /\ order \in [Nodes -> Order]
    /\ answer \in [Nodes -> ConfigRow]
    /\ reaches \subseteq Nodes
    /\ clock \in Nat
    /\ used \in Spendings

\* The heartbeat service detects split-brain from its own copy of the role: that
\* copy is the one the middleware of its worker enforces, whoever changed it last.
HeartbeatSharesRole ==
    \A n \in Nodes : hb[n].localRole = worker[n][HbWorker].role

\* A standby accepts no write, once the request that made it one has ended.
StandbyRejectsWrites ==
    \A n \in Nodes :
        cfg[n].role = "standby" /\ order[n] = NoOrder /\ hb[n].phase # "commit"
            => ~AcceptsWrites(n)


\* What the requirements say of a stale primary: all its writes are blocked, by
\* whichever worker they are received.
SplitBrainStopsWrites ==
    ~<>[](Connected /\ SplitBrain /\ \A n \in Nodes : AcceptsWrites(n))

\* Once a node hears that its peer is no primary, the block is lifted.
BlockIsLifted ==
    \A n \in Nodes :
        ~<>[](/\ n \in reaches
              /\ cfg[peer(n)].role # "primary"
              /\ worker[n][HbWorker].blocked)

\* A standby whose peer has been silent for the failover timeout takes over,
\* unless two attempts fail, the peer answers or the node is restarted.
TakesOver ==
    \A n \in Nodes :
        (n \notin reaches /\ TakeoverDue(n) /\ cfg[n].role = "standby")
            ~> (cfg[n].role = "primary" \/ hb[n].failed \/ n \in reaches
                \/ hb[n].silence = Unknown)

\* In a split-brain between nodes that hear each other, the node promoted last
\* does not stay blocked.
NewestPrimaryIsWritable ==
    \A n \in Nodes :
        ~<>[](/\ Connected /\ SplitBrain
              /\ cfg[n].promotedAt > cfg[peer(n)].promotedAt
              /\ worker[n][HbWorker].blocked)
=============================================================================
