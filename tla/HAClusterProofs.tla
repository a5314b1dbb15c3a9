--------------------------- MODULE HAClusterProofs ---------------------------
(***************************************************************************)
(* Type correctness of HACluster and the agreement of the two in-memory    *)
(* copies of the role, for every set of workers and every bound.           *)
(***************************************************************************)
EXTENDS HACluster, TLAPS

\* A node has a peer: heartbeats are answered by a node of the pair.
LEMMA PeerIsNode == \A n \in Nodes : peer(n) \in Nodes
<1>1. PICK a, b \in Nodes : a # b /\ Nodes = {a, b}
  BY ClusterAssumption
<1>2. \A n \in Nodes : \E m \in Nodes : m # n
  BY <1>1
<1> QED BY <1>2 DEF peer

\* A fresh heartbeat service, and the cache of freshly started workers, are typed.
LEMMA FreshlyStarted ==
    ASSUME NEW role \in Role
    PROVE  NewHeartbeat(role) \in Heartbeat /\ Loaded(role) \in [Workers -> Worker]
<1>1. Unknown \in Unknown..FailoverAfter
  BY ClusterAssumption, SMT DEF Unknown
<1> QED BY <1>1 DEF NewHeartbeat, Loaded, Heartbeat, Worker, Never, Role

\* The count of failed pings stays within its range.
LEMMA OlderTyped ==
    ASSUME NEW silence \in Unknown..FailoverAfter
    PROVE  Older(silence) \in Unknown..FailoverAfter
BY ClusterAssumption, SMT DEF Older, Unknown

\* Spending from a bound leaves the counters natural.
LEMMA SpendTyped ==
    ASSUME used \in Spendings, NEW limit,
           NEW what \in {"orders", "cuts", "faults", "restarts"}, Spend(what, limit)
    PROVE  used' \in Spendings
BY DEF Spend, Spendings

\* Setting one field of one worker's cache keeps the type of the caches.
LEMMA CacheTyped ==
    ASSUME worker \in [Nodes -> [Workers -> Worker]], NEW n \in Nodes,
           NEW w \in Workers, NEW role \in Role, NEW blocked \in BOOLEAN
    PROVE  /\ [worker EXCEPT ![n][w].role = role] \in [Nodes -> [Workers -> Worker]]
           /\ [worker EXCEPT ![n][w].blocked = blocked] \in [Nodes -> [Workers -> Worker]]
<1>1. worker[n] \in [Workers -> Worker] /\ worker[n][w] \in Worker
  OBVIOUS
<1>2. /\ [worker[n][w] EXCEPT !.role = role] \in Worker
      /\ [worker[n][w] EXCEPT !.blocked = blocked] \in Worker
  BY <1>1 DEF Worker
<1>3. \A v \in Worker : [worker[n] EXCEPT ![w] = v] \in [Workers -> Worker]
  BY <1>1
<1>4. \A f \in [Workers -> Worker] : [worker EXCEPT ![n] = f] \in [Nodes -> [Workers -> Worker]]
  OBVIOUS
<1> QED BY <1>2, <1>3, <1>4

\* The pair starts typed.
LEMMA InitTyped == Init => TypeOK
<1> SUFFICES ASSUME Init PROVE TypeOK
  OBVIOUS
<1>1. cfg \in [Nodes -> ConfigRow] /\ \A n \in Nodes : cfg[n].role \in Role
  BY DEF Init, Role, Never, ConfigRow
<1>2. worker \in [Nodes -> [Workers -> Worker]] /\ hb \in [Nodes -> Heartbeat]
  BY <1>1, FreshlyStarted DEF Init
<1>3. order \in [Nodes -> Order] /\ used \in Spendings
  BY ClusterAssumption DEF Init, NoOrder, Never, Order, Spendings
<1> QED BY <1>1, <1>2, <1>3 DEF Init, TypeOK

\* Wherever its loop goes, the heartbeat service keeps its type.
LEMMA PhaseTyped ==
    ASSUME hb \in [Nodes -> Heartbeat], NEW n \in Nodes,
           NEW p \in {"ping", "guard", "compare", "auto", "try", "commit"}
    PROVE  [hb EXCEPT ![n].phase = p] \in [Nodes -> Heartbeat]
BY DEF Heartbeat

\* The first attempt at a takeover is a state of the heartbeat service.
LEMMA AttemptTyped ==
    ASSUME hb \in [Nodes -> Heartbeat], NEW n \in Nodes
    PROVE  [hb EXCEPT ![n].attempted = TRUE, ![n].attempt = 1, ![n].phase = "try"]
               \in [Nodes -> Heartbeat]
<1> DEFINE first == [hb[n] EXCEPT !.attempted = TRUE, !.attempt = 1, !.phase = "try"]
<1>1. first \in Heartbeat
  <2>1. \A r \in Heartbeat : [r EXCEPT !.attempted = TRUE] \in Heartbeat
    BY DEF Heartbeat
  <2>2. \A r \in Heartbeat : [r EXCEPT !.attempt = 1] \in Heartbeat
    BY DEF Heartbeat
  <2>3. \A r \in Heartbeat : [r EXCEPT !.phase = "try"] \in Heartbeat
    BY DEF Heartbeat
  <2> QED BY <2>1, <2>2, <2>3
<1>2. [hb EXCEPT ![n] = first] \in [Nodes -> Heartbeat]
  <2> HIDE DEF first
  <2> QED BY <1>1
<1> QED BY <1>2

-----------------------------------------------------------------------------
\* A step of the heartbeat loop keeps the types.
LEMMA LoopTyped ==
    ASSUME TypeOK, NEW n \in Nodes, HeartbeatLoop(n)
    PROVE  TypeOK'
<1> USE DEF TypeOK
<1>0. answer[peer(n)] \in ConfigRow /\ hb[n] \in Heartbeat
  BY PeerIsNode
<1>1. CASE Ping(n)
  <2>1. worker' \in [Nodes -> [Workers -> Worker]]
    <3>1. Unblocked(n) \in [Nodes -> [Workers -> Worker]]
      BY CacheTyped, ClusterAssumption DEF Unblocked, Role
    <3>2. worker' = worker \/ worker' = Unblocked(n)
      BY <1>1 DEF Ping
    <3> QED BY <3>1, <3>2
  <2>2. Older(hb[n].silence) \in Unknown..FailoverAfter /\ 0 \in Unknown..FailoverAfter
    BY <1>0, OlderTyped, ClusterAssumption DEF Heartbeat, Unknown
  <2>3. hb' \in [Nodes -> Heartbeat]
    BY <1>0, <1>1, <2>2, ZenonT(60) DEF Ping, Heartbeat, ConfigRow
  <2> QED BY <1>1, <2>1, <2>3 DEF Ping
<1>2. CASE ReadOwnPromotion(n)
  BY <1>2 DEF ReadOwnPromotion, Heartbeat, ConfigRow
<1>3. CASE BlockIfStale(n)
  <2>1. worker' \in [Nodes -> [Workers -> Worker]]
    <3>1. [worker EXCEPT ![n][HbWorker].blocked = TRUE] \in [Nodes -> [Workers -> Worker]]
      BY CacheTyped, ClusterAssumption DEF Role
    <3>2. worker' = worker \/ worker' = [worker EXCEPT ![n][HbWorker].blocked = TRUE]
      BY <1>3, Zenon DEF BlockIfStale
    <3> QED BY <3>1, <3>2, Zenon
  <2>2. hb' \in [Nodes -> Heartbeat]
    BY <1>3, PhaseTyped DEF BlockIfStale
  <2> QED BY <1>3, <2>1, <2>2 DEF BlockIfStale
<1>4. CASE CheckTakeover(n)
  <2>1. [hb EXCEPT ![n].phase = "ping"] \in [Nodes -> Heartbeat]
    BY PhaseTyped
  <2>2. [hb EXCEPT ![n].attempted = TRUE, ![n].attempt = 1, ![n].phase = "try"]
            \in [Nodes -> Heartbeat]
    BY AttemptTyped
  <2>3. hb' = [hb EXCEPT ![n].phase = "ping"]
        \/ hb' = [hb EXCEPT ![n].attempted = TRUE, ![n].attempt = 1, ![n].phase = "try"]
    BY <1>4, Zenon DEF CheckTakeover
  <2>4. hb' \in [Nodes -> Heartbeat]
    BY <2>1, <2>2, <2>3, Zenon
  <2>5. UNCHANGED <<cfg, worker, order, answer, reaches, clock, used>>
    BY <1>4 DEF CheckTakeover
  <2> QED BY <2>4, <2>5
<1>5. CASE TryTakeover(n)
  <2>1. worker' \in [Nodes -> [Workers -> Worker]]
    BY <1>5, CacheTyped, ClusterAssumption DEF TryTakeover, Role
  <2>2. hb' \in [Nodes -> Heartbeat]
    BY <1>5 DEF TryTakeover, Heartbeat, Role
  <2> QED BY <1>5, <2>1, <2>2 DEF TryTakeover
<1>6. CASE SkipTakeover(n)
  <2>1. hb' \in [Nodes -> Heartbeat]
    BY <1>6, PhaseTyped DEF SkipTakeover
  <2> QED BY <1>6, <2>1 DEF SkipTakeover
<1>7. CASE CommitTakeover(n)
  <2>1. cfg' \in [Nodes -> ConfigRow]
    BY <1>0, <1>7 DEF CommitTakeover, ConfigRow, Heartbeat, Role
  <2>2. hb' \in [Nodes -> Heartbeat]
    BY <1>7, PhaseTyped DEF CommitTakeover
  <2> QED BY <1>7, <2>1, <2>2 DEF CommitTakeover
<1> QED BY <1>1, <1>2, <1>3, <1>4, <1>5, <1>6, <1>7 DEF HeartbeatLoop

\* Carrying out an order keeps the types.
LEMMA OrderTyped ==
    ASSUME TypeOK, NEW n \in Nodes, CarryOut(n)
    PROVE  TypeOK'
<1> USE DEF TypeOK
<1>0. order[n] \in Order /\ hb[n] \in Heartbeat
  OBVIOUS
<1>r. NewRole(order[n].kind) \in Role
  BY DEF NewRole, Role
<1>1. CASE Carry(n)
  <2> DEFINE w == order[n].w
             role == NewRole(order[n].kind)
             at == IF order[n].kind = "promote" THEN clock + 1 ELSE Never
             still == worker[n][w].blocked /\ order[n].kind # "sync"
             cached == [worker EXCEPT ![n][w].role = role, ![n][w].blocked = still]
  <2>1. w \in Workers /\ at \in Nat
    BY <1>0 DEF Order, Never
  <2>2. cached \in [Nodes -> [Workers -> Worker]]
    <3>1. worker[n] \in [Workers -> Worker] /\ worker[n][w] \in Worker
      BY <2>1
    <3>2. still \in BOOLEAN
      OBVIOUS
    <3>3. [worker[n][w] EXCEPT !.role = role, !.blocked = still] \in Worker
      BY <1>r, <3>1, <3>2 DEF Worker
    <3>4. cached = [worker EXCEPT ![n] = [worker[n] EXCEPT ![w] =
                       [worker[n][w] EXCEPT !.role = role, !.blocked = still]]]
      BY <2>1, <3>1 DEF Worker
    <3>5. [worker[n] EXCEPT ![w] =
              [worker[n][w] EXCEPT !.role = role, !.blocked = still]] \in [Workers -> Worker]
      BY <3>1, <3>3
    <3> QED BY <3>4, <3>5
  <2>3. worker' = cached
    BY <1>1 DEF Carry
  <2>4. order' \in [Nodes -> Order]
    BY <1>0, <1>1, <2>1 DEF Carry, Order
  <2>5. hb' \in [Nodes -> Heartbeat]
    BY <1>0, <1>r, <1>1 DEF Carry, Heartbeat
  <2> QED BY <1>1, <2>2, <2>3, <2>4, <2>5 DEF Carry
<1>2. CASE CommitOrder(n)
  <2>1. cfg' \in [Nodes -> ConfigRow]
    BY <1>0, <1>r, <1>2 DEF CommitOrder, ConfigRow, Order
  <2>2. NoOrder \in Order
    BY ClusterAssumption DEF NoOrder, Never, Order
  <2> QED BY <1>2, <2>1, <2>2 DEF CommitOrder
<1> QED BY <1>1, <1>2 DEF CarryOut

\* A fault keeps the types.
LEMMA FaultTyped ==
    ASSUME TypeOK, NEW n \in Nodes, Fault(n)
    PROVE  TypeOK'
<1> USE DEF TypeOK
<1>0. order[n] \in Order /\ hb[n] \in Heartbeat /\ NoOrder \in Order
  BY ClusterAssumption DEF NoOrder, Never, Order
<1>1. CASE CheckFails(n)
  BY <1>0, <1>1, SpendTyped DEF CheckFails, Heartbeat
<1>2. CASE FailTakeover(n)
  <2>0. 2 \in 0..2
    OBVIOUS
  <2>1. /\ [hb[n] EXCEPT !.attempt = 2, !.phase = "try"] \in Heartbeat
        /\ [hb[n] EXCEPT !.failed = TRUE, !.phase = "ping"] \in Heartbeat
    <3>1. [hb[n] EXCEPT !.attempt = 2, !.phase = "try"] \in Heartbeat
      BY <1>0, <2>0 DEF Heartbeat
    <3>2. [hb[n] EXCEPT !.failed = TRUE, !.phase = "ping"] \in Heartbeat
      BY <1>0 DEF Heartbeat
    <3> QED BY <3>1, <3>2
  <2>2. hb' = [hb EXCEPT ![n] = [hb[n] EXCEPT !.attempt = 2, !.phase = "try"]]
        \/ hb' = [hb EXCEPT ![n] = [hb[n] EXCEPT !.failed = TRUE, !.phase = "ping"]]
    BY <1>2 DEF FailTakeover
  <2> QED BY <1>2, <2>1, <2>2, SpendTyped DEF FailTakeover
<1>3. CASE TruncationFails(n)
  BY <1>0, <1>3, SpendTyped DEF TruncationFails, Order
<1>4. CASE FailOrder(n)
  BY <1>0, <1>4, SpendTyped DEF FailOrder
<1> QED BY <1>1, <1>2, <1>3, <1>4 DEF Fault

-----------------------------------------------------------------------------
\* Every reachable state of the pair is typed.
THEOREM TypesHold == Spec => []TypeOK
<1>1. Init => TypeOK
  BY InitTyped
<1>2. ASSUME TypeOK, [Next]_vars
      PROVE  TypeOK'
  <2> USE DEF TypeOK
  <2>1. ASSUME UNCHANGED vars PROVE TypeOK'
    BY <1>2, <2>1 DEF vars
  <2>2. ASSUME NEW n \in Nodes, NEW w \in Workers, NEW kind \in Kinds, Give(n, w, kind)
        PROVE  TypeOK'
    <3>1. order' \in [Nodes -> Order]
      BY <1>2, <2>2 DEF Give, Order, Never
    <3> QED BY <1>2, <2>2, <3>1, SpendTyped DEF Give
  <2>3. ASSUME NEW n \in Nodes, RefreshAnswer(n) \/ HealLink(n) PROVE TypeOK'
    BY <1>2, <2>3 DEF RefreshAnswer, HealLink
  <2>4. ASSUME NEW n \in Nodes, CutLink(n) PROVE TypeOK'
    BY <1>2, <2>4, SpendTyped DEF CutLink
  <2>5. ASSUME NEW n \in Nodes, Restart(n) PROVE TypeOK'
    <3>1. cfg[n] \in ConfigRow /\ cfg[n].role \in Role
      BY <1>2 DEF ConfigRow
    <3>2. NewHeartbeat(cfg[n].role) \in Heartbeat /\ Loaded(cfg[n].role) \in [Workers -> Worker]
      BY <3>1, FreshlyStarted
    <3>3. NoOrder \in Order
      BY ClusterAssumption DEF NoOrder, Never, Order
    <3> QED BY <1>2, <2>5, <3>1, <3>2, <3>3, SpendTyped DEF Restart
  <2> QED BY <1>2, <2>1, <2>2, <2>3, <2>4, <2>5, LoopTyped, OrderTyped, FaultTyped DEF Next
<1> QED BY <1>1, <1>2, PTL DEF Spec

\* The heartbeat service and the middleware of its worker hold the same role,
\* whoever changes it: takeover, order, rollback or restart, in any order.
THEOREM RoleCopiesAgree == Spec => []HeartbeatSharesRole
<1>1. Init => HeartbeatSharesRole
  BY ClusterAssumption DEF Init, HeartbeatSharesRole, Loaded, NewHeartbeat
<1>2. ASSUME TypeOK, HeartbeatSharesRole, [Next]_vars
      PROVE  HeartbeatSharesRole'
  <2> DEFINE Same(m) == hb'[m].localRole = worker'[m][HbWorker].role
  <2>0. /\ HbWorker \in Workers
        /\ hb \in [Nodes -> Heartbeat]
        /\ worker \in [Nodes -> [Workers -> Worker]]
        /\ \A m \in Nodes : hb[m].localRole = worker[m][HbWorker].role
    BY <1>2, ClusterAssumption DEF TypeOK, HeartbeatSharesRole
  <2>1. ASSUME UNCHANGED <<hb, worker>> PROVE \A m \in Nodes : Same(m)
    BY <2>0, <2>1
  <2>2. ASSUME NEW n \in Nodes, HeartbeatLoop(n) PROVE \A m \in Nodes : Same(m)
    <3>1. CASE TryTakeover(n)
      BY <2>0, <3>1 DEF TryTakeover, Heartbeat, Worker
    <3>2. CASE Ping(n)
      <4>1. worker' = worker \/ worker' = Unblocked(n)
        BY <3>2 DEF Ping
      <4>2. \A m \in Nodes : worker'[m][HbWorker].role = worker[m][HbWorker].role
        <5>1. CASE worker' = worker
          BY <5>1
        <5>2. CASE worker' = [worker EXCEPT ![n][HbWorker].blocked = FALSE]
          BY <2>0, <5>2 DEF Worker
        <5> QED BY <4>1, <5>1, <5>2 DEF Unblocked
      <4>3. \A m \in Nodes : hb'[m].localRole = hb[m].localRole
        BY <2>0, <3>2 DEF Ping, Heartbeat
      <4> QED BY <2>0, <4>2, <4>3
    <3>3. CASE BlockIfStale(n)
      <4>1. \A m \in Nodes : worker'[m][HbWorker].role = worker[m][HbWorker].role
        BY <2>0, <3>3 DEF BlockIfStale, Worker
      <4>2. \A m \in Nodes : hb'[m].localRole = hb[m].localRole
        BY <2>0, <3>3 DEF BlockIfStale, Heartbeat
      <4> QED BY <2>0, <4>1, <4>2
    <3>4. CASE ReadOwnPromotion(n) \/ CheckTakeover(n) \/ SkipTakeover(n) \/ CommitTakeover(n)
      <4>1. worker' = worker
        BY <3>4 DEF ReadOwnPromotion, CheckTakeover, SkipTakeover, CommitTakeover
      <4>2. \A m \in Nodes : hb'[m].localRole = hb[m].localRole
        <5>1. CASE ReadOwnPromotion(n)
          BY <2>0, <5>1 DEF ReadOwnPromotion, Heartbeat
        <5>2. CASE CheckTakeover(n)
          BY <2>0, <5>2 DEF CheckTakeover, Heartbeat
        <5>3. CASE SkipTakeover(n) \/ CommitTakeover(n)
          BY <2>0, <5>3 DEF SkipTakeover, CommitTakeover, Heartbeat
        <5> QED BY <3>4, <5>1, <5>2, <5>3
      <4> QED BY <2>0, <4>1, <4>2
    <3> QED BY <2>2, <3>1, <3>2, <3>3, <3>4 DEF HeartbeatLoop
  <2>3. ASSUME NEW n \in Nodes, Carry(n) PROVE \A m \in Nodes : Same(m)
    <3>1. order[n].w \in Workers
      BY <1>2 DEF TypeOK, Order
    <3>2. \A m \in Nodes :
            worker'[m][HbWorker].role =
                IF m = n /\ order[n].w = HbWorker THEN NewRole(order[n].kind)
                ELSE worker[m][HbWorker].role
      BY <2>0, <2>3, <3>1 DEF Carry, Worker
    <3>3. \A m \in Nodes :
            hb'[m].localRole =
                IF m = n /\ order[n].w = HbWorker THEN NewRole(order[n].kind)
                ELSE hb[m].localRole
      BY <2>0, <2>3 DEF Carry, Heartbeat
    <3> QED BY <2>0, <3>2, <3>3
  <2>4. ASSUME NEW n \in Nodes, Fault(n) PROVE \A m \in Nodes : Same(m)
    <3>1. worker' = worker
      BY <2>4 DEF Fault, CheckFails, FailTakeover, TruncationFails, FailOrder
    <3>2. \A m \in Nodes : hb'[m].localRole = hb[m].localRole
      <4>1. CASE CheckFails(n)
        BY <2>0, <4>1 DEF CheckFails, Heartbeat
      <4>2. CASE FailTakeover(n)
        BY <2>0, <4>2 DEF FailTakeover, Heartbeat
      <4>3. CASE TruncationFails(n) \/ FailOrder(n)
        BY <4>3 DEF TruncationFails, FailOrder
      <4> QED BY <2>4, <4>1, <4>2, <4>3 DEF Fault
    <3> QED BY <2>0, <3>1, <3>2
  <2>5. ASSUME NEW n \in Nodes, Restart(n) PROVE \A m \in Nodes : Same(m)
    BY <2>0, <2>5 DEF Restart, Loaded, NewHeartbeat
  <2>6. ASSUME NEW n \in Nodes,
               \/ CommitOrder(n) \/ RefreshAnswer(n) \/ CutLink(n) \/ HealLink(n)
               \/ \E w \in Workers, kind \in Kinds : Give(n, w, kind)
        PROVE  UNCHANGED <<hb, worker>>
    BY <2>6 DEF CommitOrder, RefreshAnswer, CutLink, HealLink, Give
  <2>7. \A m \in Nodes : Same(m)
    BY <1>2, <2>1, <2>2, <2>3, <2>4, <2>5, <2>6 DEF Next, CarryOut, vars
  <2> QED BY <2>7 DEF HeartbeatSharesRole
<1> QED BY <1>1, <1>2, TypesHold, PTL DEF Spec
=============================================================================
