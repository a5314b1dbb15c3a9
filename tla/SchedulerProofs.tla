--------------------------- MODULE SchedulerProofs ---------------------------
(***************************************************************************)
(* One scheduler at a time, and takeovers that repeat nothing, for every   *)
(* set of workers and tasks, every interval and every lifetime of the lock *)
(* that exceeds the period of the loop.                                    *)
(***************************************************************************)
EXTENDS Scheduler, TLAPS

\* Redis fails at the expense of the outage count, so a count of zero means that
\* it has answered all along.
OutageInv == used["outages"] = 0 => redisUp

\* A worker that believes it holds the lock owns the key, with enough of its TTL
\* left to be renewed before it runs out; what a GET answered still holds when the
\* worker acts on it.
HolderInv ==
    Calm => \A w \in Workers :
        /\ worker[w].phase \in {"renew", "pass"} => worker[w].holds
        /\ worker[w].holds => key.owner = w /\ key.ttl >= 1
        /\ worker[w].holds /\ worker[w].phase \in {"pass", "asleep"} => key.ttl >= 2
        /\ worker[w].phase = "renew" => worker[w].seen = w
        /\ worker[w].phase = "release" => key.owner = w

\* The clocks stop at the interval, and those of the holder are not ahead of when
\* the tasks were really started, but for the ones it is to run at once.
ClockInv ==
    /\ \A t \in Tasks : since[t] <= Interval[t]
    /\ \A w \in Workers, t \in Tasks : age[w][t] <= Interval[t]
    /\ Calm => \A w \in Workers, t \in Tasks :
          worker[w].holds => t \in worker[w].forced \/ age[w][t] <= since[t]

IInv == TypeOK /\ OutageInv /\ HolderInv /\ ClockInv

-----------------------------------------------------------------------------
\* Every count stays natural, and none ever goes down.
LEMMA SpendTyped ==
    ASSUME used \in [Faults -> Nat], NEW what \in Faults, Spend(what)
    PROVE  /\ used' \in [Faults -> Nat]
           /\ \A f \in Faults : used'[f] >= used[f]
           /\ used'[what] > 0
BY DEF Spend

\* The clocks of the tasks keep their type and stop at the interval.
LEMMA OlderTyped ==
    ASSUME NEW ages \in [Tasks -> Nat]
    PROVE  /\ Older(ages) \in [Tasks -> Nat]
           /\ (\A t \in Tasks : ages[t] <= Interval[t])
                 => \A t \in Tasks : Older(ages)[t] <= Interval[t]
BY SchedulerAssumption DEF Older

\* An older clock stays behind another one.
LEMMA OlderMonotone ==
    ASSUME NEW ages \in [Tasks -> Nat], NEW others \in [Tasks -> Nat],
           NEW t \in Tasks, ages[t] <= others[t], others[t] <= Interval[t]
    PROVE  Older(ages)[t] <= Older(others)[t]
BY SchedulerAssumption DEF Older

\* The key a worker sets is a key, and so is the absent one.
LEMMA KeysTyped ==
    /\ FreeKey \in Key
    /\ \A w \in Workers : KeyOf(w) \in Key /\ w # Nobody
    /\ Lifetime \in Nat /\ Lifetime >= 2
BY SchedulerAssumption DEF FreeKey, KeyOf, Key

\* A key without an owner is the absent key.
LEMMA OwnerlessIsFree ==
    ASSUME key \in Key, key.owner = Nobody <=> key.ttl = 0
    PROVE  key.owner = Nobody <=> key = FreeKey
BY SchedulerAssumption DEF Key, FreeKey

\* The TTL stays within its range as time passes.
LEMMA LeftTyped ==
    ASSUME NEW ttl \in 0..Lifetime, Left(ttl) # 0
    PROVE  ttl # 0 /\ Left(ttl) \in 0..Lifetime
BY SchedulerAssumption DEF Left

\* Claiming the lock leaves a typed key.
LEMMA ClaimTyped ==
    ASSUME TypeOK, NEW w \in Workers, Claim(w)
    PROVE  key' \in Key /\ (key'.owner = Nobody <=> key'.ttl = 0)
<1>1. KeyOf(w).owner = w /\ KeyOf(w).ttl = Lifetime
  BY DEF KeyOf
<1> QED BY <1>1, KeysTyped DEF Claim, TypeOK

-----------------------------------------------------------------------------
(* Types *)

LEMMA InitTyped == Init => TypeOK
<1> SUFFICES ASSUME Init PROVE TypeOK
  OBVIOUS
<1>1. key \in Key /\ key.owner = Nobody /\ key.ttl = 0
  BY KeysTyped DEF Init, FreeKey
<1>2. Down \in Worker /\ Down.holds = FALSE
  BY DEF Down, Worker, Phase
<1>3. JustRun \in [Tasks -> Nat] /\ Interval \in [Tasks -> Nat]
  BY SchedulerAssumption DEF JustRun
<1> QED BY <1>1, <1>2, <1>3 DEF Init, TypeOK

\* A step of one worker keeps the types.
LEMMA WorkerTyped ==
    ASSUME TypeOK, NEW w \in Workers, Start(w) \/ Loop(w) \/ Stop(w) \/ Crash(w)
    PROVE  TypeOK'
<1> USE DEF TypeOK
<1>0. /\ worker[w] \in Worker
      /\ JustRun \in [Tasks -> Nat] /\ Due \in [Tasks -> Nat]
      /\ Down \in Worker /\ Down.holds = FALSE
  BY SchedulerAssumption DEF JustRun, Due, Down, Worker, Phase
<1>1. CASE Start(w)
  <2>1. key' \in Key /\ (key'.owner = Nobody <=> key'.ttl = 0)
    BY <1>1, ClaimTyped DEF Start
  <2>2. Acquires \in BOOLEAN
    BY DEF Acquires
  <2>3. worker' \in [Workers -> Worker]
    BY <1>1, <1>0, <2>2 DEF Start, Becomes, Down, Worker, Phase
  <2>4. \A v \in Workers : worker'[v].phase \in {"down", "release"} => ~worker'[v].holds
    BY <1>1, <1>0 DEF Start, Becomes, Down, Worker
  <2>5. age' \in [Workers -> [Tasks -> Nat]]
    BY <1>1, <1>0 DEF Start
  <2> QED BY <1>1, <2>1, <2>3, <2>4, <2>5 DEF Start
<1>2. CASE TakeOver(w)
  <2>1. key' \in Key /\ (key'.owner = Nobody <=> key'.ttl = 0)
    BY <1>2, ClaimTyped DEF TakeOver
  <2>2. Acquires \in BOOLEAN
    BY DEF Acquires
  <2>3. worker' \in [Workers -> Worker]
    BY <1>2, <1>0, <2>2 DEF TakeOver, Worker, Phase
  <2>4. \A v \in Workers : worker'[v].phase \in {"down", "release"} => ~worker'[v].holds
    BY <1>2, <1>0 DEF TakeOver, Worker
  <2>5. age' \in [Workers -> [Tasks -> Nat]]
    BY <1>2, <1>0 DEF TakeOver
  <2> QED BY <1>2, <2>1, <2>3, <2>4, <2>5 DEF TakeOver
<1>3. CASE AskOwner(w)
  BY <1>3, <1>0 DEF AskOwner, Worker, Phase, Key
<1>4. CASE Renew(w)
  <2>1. key' \in Key /\ (key'.owner = Nobody <=> key'.ttl = 0)
    <3>1. KeyOf(w) \in Key /\ KeyOf(w).owner = w /\ KeyOf(w).ttl = Lifetime
      BY KeysTyped DEF KeyOf
    <3>2. ASSUME key # FreeKey
          PROVE  /\ [key EXCEPT !.ttl = Lifetime] \in Key
                 /\ [key EXCEPT !.ttl = Lifetime].owner # Nobody
                 /\ [key EXCEPT !.ttl = Lifetime].ttl = Lifetime
      BY <3>2, KeysTyped, OwnerlessIsFree DEF Key
    <3> QED BY <1>4, <3>1, <3>2, KeysTyped DEF Renew
  <2>2. worker' \in [Workers -> Worker]
    BY <1>4, <1>0 DEF Renew, Worker, Phase
  <2>3. \A v \in Workers : worker'[v].phase \in {"down", "release"} => ~worker'[v].holds
    BY <1>4, <1>0 DEF Renew, Worker
  <2> QED BY <1>4, <2>1, <2>2, <2>3 DEF Renew
<1>5. CASE Pass(w)
  <2>1. worker' \in [Workers -> Worker]
    BY <1>5, <1>0 DEF Pass, Worker, Phase
  <2>2. \A v \in Workers : worker'[v].phase \in {"down", "release"} => ~worker'[v].holds
    BY <1>5, <1>0 DEF Pass, Worker
  <2>3. age' \in [Workers -> [Tasks -> Nat]] /\ since' \in [Tasks -> Nat]
    BY <1>5, <1>0 DEF Pass
  <2> QED BY <1>5, <2>1, <2>2, <2>3 DEF Pass
<1>6. CASE Release(w)
  <2>1. FreeKey.owner = Nobody /\ FreeKey.ttl = 0 /\ FreeKey \in Key
    BY KeysTyped DEF FreeKey
  <2> QED BY <1>6, <1>0, <2>1 DEF Release, Becomes
<1>7. CASE Stop(w)
  <2>1. [Down EXCEPT !.phase = "release"] \in Worker
        /\ [Down EXCEPT !.phase = "release"].holds = FALSE
    BY <1>0 DEF Down, Worker, Phase
  <2> QED BY <1>7, <1>0, <2>1 DEF Stop, Becomes
<1>8. CASE Crash(w)
  <2>1. key' \in Key /\ (key'.owner = Nobody <=> key'.ttl = 0)
    <3>1. key.owner \in Workers \cup {Nobody, Gone} /\ key.ttl \in 0..Lifetime
      BY DEF Key
    <3>2. key'.ttl = key.ttl /\ key'.owner = IF key.owner = w THEN Gone ELSE key.owner
      BY <1>8 DEF Crash, Key
    <3>3. key' \in Key
      BY <1>8, <3>1 DEF Crash, Key
    <3> QED BY <3>2, <3>3, SchedulerAssumption
  <2> QED BY <1>8, <1>0, <2>1 DEF Crash, Becomes
<1> QED BY <1>1, <1>2, <1>3, <1>4, <1>5, <1>6, <1>7, <1>8 DEF Loop

\* A period that passes keeps the types.
LEMMA PeriodTyped ==
    ASSUME TypeOK, Period
    PROVE  TypeOK'
<1> USE DEF TypeOK
<1>1. key' \in Key /\ (key'.owner = Nobody <=> key'.ttl = 0)
  <2>1. CASE Left(key.ttl) = 0
    BY <2>1, KeysTyped DEF Period, FreeKey
  <2>2. CASE Left(key.ttl) # 0
    <3>1. key.owner \in Workers \cup {Nobody, Gone} /\ key.ttl \in 0..Lifetime
      BY DEF Key
    <3>2. key.ttl # 0 /\ Left(key.ttl) \in 0..Lifetime
      BY <2>2, <3>1, LeftTyped
    <3>3. key' = [key EXCEPT !.ttl = Left(key.ttl)]
      BY <2>2 DEF Period
    <3>4. key'.owner = key.owner /\ key'.ttl = Left(key.ttl) /\ key' \in Key
      BY <3>1, <3>2, <3>3 DEF Key
    <3> QED BY <2>2, <3>2, <3>4
  <2> QED BY <2>1, <2>2
<1>2. worker' \in [Workers -> Worker]
  <2>1. \A w \in Workers : [worker[w] EXCEPT !.phase = "ready"] \in Worker
    BY DEF Worker, Phase
  <2>2. \A w \in Workers : WakeUp(w) \in Worker
    BY <2>1 DEF WakeUp
  <2> QED BY <2>2 DEF Period
<1>3. \A w \in Workers : worker'[w].phase \in {"down", "release"} => ~worker'[w].holds
  BY DEF Period, WakeUp, Worker
<1>4. age' \in [Workers -> [Tasks -> Nat]] /\ since' \in [Tasks -> Nat]
  BY OlderTyped DEF Period
<1>5. used' \in [Faults -> Nat]
  BY SpendTyped DEF Period, Faults
<1> QED BY <1>1, <1>2, <1>3, <1>4, <1>5 DEF Period

\* Whatever the scheduler does, every variable keeps its type.
LEMMA StepTyped == TypeOK /\ [Next]_vars => TypeOK'
<1> SUFFICES ASSUME TypeOK, [Next]_vars PROVE TypeOK'
  OBVIOUS
<1>1. ASSUME NEW w \in Workers, Start(w) \/ Loop(w) \/ Stop(w) \/ Crash(w)
      PROVE  TypeOK'
  BY <1>1, WorkerTyped
<1>2. CASE Period
  BY <1>2, PeriodTyped
<1>3. CASE RedisFails
  BY <1>3, SpendTyped DEF RedisFails, TypeOK, Faults
<1>4. CASE RedisRecovers
  BY <1>4 DEF RedisRecovers, TypeOK
<1>5. CASE RoleChanges
  BY <1>5, SpendTyped DEF RoleChanges, TypeOK, Faults
<1>6. CASE UNCHANGED vars
  BY <1>6 DEF vars, TypeOK
<1> QED BY <1>1, <1>2, <1>3, <1>4, <1>5, <1>6 DEF Next

-----------------------------------------------------------------------------
(* One scheduler at a time *)

\* Trouble is never forgotten: a calm state was calm before.
LEMMA CalmBefore ==
    ASSUME TypeOK, OutageInv, [Next]_vars
    PROVE  OutageInv' /\ (Calm' => Calm)
<1> USE DEF TypeOK, OutageInv, Calm, Faults
<1>1. ASSUME NEW w \in Workers, Start(w) \/ Loop(w) \/ Stop(w) \/ Crash(w)
      PROVE  UNCHANGED <<redisUp, used>>
  BY <1>1 DEF Start, Loop, TakeOver, AskOwner, Renew, Pass, Release, Stop, Crash
<1>2. CASE Period
  BY <1>2, SpendTyped DEF Period
<1>3. CASE RedisFails
  BY <1>3, SpendTyped DEF RedisFails
<1>4. CASE RedisRecovers
  BY <1>4 DEF RedisRecovers
<1>5. CASE RoleChanges
  BY <1>5, SpendTyped DEF RoleChanges
<1>6. CASE UNCHANGED vars
  BY <1>6 DEF vars
<1> QED BY <1>1, <1>2, <1>3, <1>4, <1>5, <1>6 DEF Next

\* A calm period passes only when every loop has finished, or has ended.
LEMMA CalmPeriod ==
    ASSUME TypeOK, Period, Calm'
    PROVE  \A w \in Workers : worker[w].phase \in {"down", "asleep"}
<1>1. ~Spend("freezes")
  BY SpendTyped DEF Calm, TypeOK, Faults
<1> QED BY <1>1 DEF Period, Frozen

\* The holder keeps owning the key, step by step of any worker.
LEMMA WorkerHolds ==
    ASSUME TypeOK, Calm, HolderInv, NEW w \in Workers,
           Start(w) \/ Loop(w) \/ Stop(w) \/ Crash(w)
    PROVE  HolderInv'
<1> USE DEF TypeOK
<1> SUFFICES ASSUME NEW v \in Workers
    PROVE  /\ worker'[v].phase \in {"renew", "pass"} => worker'[v].holds
           /\ worker'[v].holds => key'.owner = v /\ key'.ttl >= 1
           /\ worker'[v].holds /\ worker'[v].phase \in {"pass", "asleep"} => key'.ttl >= 2
           /\ worker'[v].phase = "renew" => worker'[v].seen = v
           /\ worker'[v].phase = "release" => key'.owner = v
  BY DEF HolderInv
<1>0. /\ worker[w] \in Worker /\ worker[v] \in Worker /\ redisUp
      /\ v # Nobody /\ w # Nobody /\ w # Gone /\ v # Gone
      /\ KeyOf(w).owner = w /\ KeyOf(w).ttl = Lifetime
      /\ Lifetime \in Nat /\ Lifetime >= 2
      /\ key = FreeKey <=> key.owner = Nobody
  BY SchedulerAssumption, OwnerlessIsFree DEF Calm, KeyOf
<1>h. /\ worker[v].phase \in {"renew", "pass"} => worker[v].holds
      /\ worker[v].holds => key.owner = v /\ key.ttl >= 1
      /\ worker[v].holds /\ worker[v].phase \in {"pass", "asleep"} => key.ttl >= 2
      /\ worker[v].phase = "renew" => worker[v].seen = v
      /\ worker[v].phase = "release" => key.owner = v
  BY DEF HolderInv
<1>1. CASE Start(w)
  BY <1>1, <1>0, <1>h DEF Start, Becomes, Claim, Acquires, Down, Worker
<1>2. CASE TakeOver(w)
  BY <1>2, <1>0, <1>h DEF TakeOver, Claim, Acquires, Worker
<1>3. CASE AskOwner(w)
  BY <1>3, <1>0, <1>h DEF AskOwner, Worker
<1>4. CASE Renew(w)
  <2>1. worker[w].seen = w /\ worker[w].holds /\ key.owner = w
    BY <1>4 DEF Renew, HolderInv
  <2>2. /\ key' = [key EXCEPT !.ttl = Lifetime]
        /\ worker' = [worker EXCEPT ![w].phase = "pass", ![w].holds = TRUE,
                                    ![w].seen = Nobody]
    BY <1>4, <1>0, <2>1 DEF Renew
  <2>3. key'.owner = w /\ key'.ttl = Lifetime
    BY <2>1, <2>2 DEF Key
  <2>4. CASE v = w
    BY <2>2, <2>3, <2>4, <1>0 DEF Worker
  <2>5. CASE v # w
    BY <2>1, <2>2, <2>3, <2>5, <1>0, <1>h DEF Worker
  <2> QED BY <2>4, <2>5
<1>5. CASE Pass(w)
  BY <1>5, <1>0, <1>h DEF Pass, Worker
<1>6. CASE Release(w)
  <2>1. key.owner = w
    BY <1>6 DEF Release, HolderInv
  <2> QED BY <1>6, <2>1, <1>0, <1>h DEF Release, Becomes, Down, Worker
<1>7. CASE Stop(w)
  BY <1>7, <1>0, <1>h DEF Stop, Becomes, Down, Worker
<1>8. CASE Crash(w)
  <2>1. key'.ttl = key.ttl /\ key'.owner = IF key.owner = w THEN Gone ELSE key.owner
    BY <1>8 DEF Crash, Key
  <2>2. worker' = [worker EXCEPT ![w] = Down]
    BY <1>8 DEF Crash, Becomes
  <2> QED BY <2>1, <2>2, <1>0, <1>h DEF Down, Worker
<1> QED BY <1>1, <1>2, <1>3, <1>4, <1>5, <1>6, <1>7, <1>8 DEF Loop

\* No step breaks the hold of the holder, as long as all stays calm.
LEMMA StepHolds ==
    ASSUME TypeOK, OutageInv, HolderInv, [Next]_vars
    PROVE  HolderInv'
<1> SUFFICES ASSUME Calm' PROVE HolderInv'
  BY DEF HolderInv
<1>0. Calm
  BY CalmBefore
<1>1. ASSUME NEW w \in Workers, Start(w) \/ Loop(w) \/ Stop(w) \/ Crash(w)
      PROVE  HolderInv'
  BY <1>0, <1>1, WorkerHolds
<1>2. CASE Period
  <2> SUFFICES ASSUME NEW v \in Workers
      PROVE  /\ worker'[v].phase \in {"down", "ready"}
             /\ worker'[v].holds => key'.owner = v /\ key'.ttl >= 1
    BY DEF HolderInv
  <2>1. worker[v] \in Worker /\ worker[v].phase \in {"down", "asleep"}
    BY <1>2, CalmPeriod DEF TypeOK
  <2>2. worker'[v].phase \in {"down", "ready"} /\ worker'[v].holds = worker[v].holds
    BY <1>2, <2>1 DEF Period, WakeUp, Worker
  <2>3. ASSUME worker[v].holds PROVE key'.owner = v /\ key'.ttl >= 1
    <3>1. worker[v].phase = "asleep"
      BY <2>1, <2>3 DEF TypeOK
    <3>2. key.owner = v /\ key.ttl >= 2 /\ key.ttl \in Nat
      BY <1>0, <2>3, <3>1, KeysTyped DEF HolderInv, TypeOK, Key
    <3>3. key' = [key EXCEPT !.ttl = key.ttl - 1]
      BY <1>2, <3>2 DEF Period, Left
    <3> QED BY <3>2, <3>3 DEF TypeOK, Key
  <2> QED BY <2>2, <2>3
<1>3. CASE RedisFails
  BY <1>3, <1>0 DEF RedisFails, Calm
<1>4. CASE RedisRecovers
  BY <1>4, <1>0 DEF RedisRecovers, Calm
<1>5. CASE RoleChanges
  BY <1>5, <1>0 DEF RoleChanges, HolderInv
<1>6. CASE UNCHANGED vars
  BY <1>6, <1>0 DEF vars, HolderInv
<1> QED BY <1>1, <1>2, <1>3, <1>4, <1>5, <1>6 DEF Next

-----------------------------------------------------------------------------
(* What a takeover does not repeat *)

\* The clocks of the tasks stop at the interval, whatever a worker does.
LEMMA WorkerClocks ==
    ASSUME TypeOK, ClockInv, Calm' => Calm, Calm => HolderInv, NEW w \in Workers,
           Start(w) \/ Loop(w) \/ Stop(w) \/ Crash(w), HolderInv'
    PROVE  ClockInv'
<1> USE DEF TypeOK
<1>0. /\ Interval \in [Tasks -> Nat \ {0}]
      /\ worker[w] \in Worker
      /\ \A t \in Tasks : JustRun[t] = 0 /\ Due[t] = Interval[t]
  BY SchedulerAssumption DEF JustRun, Due
<1>c. /\ \A t \in Tasks : since[t] <= Interval[t]
      /\ \A v \in Workers, t \in Tasks : age[v][t] <= Interval[t]
      /\ Calm => \A v \in Workers, t \in Tasks :
            worker[v].holds => t \in worker[v].forced \/ age[v][t] <= since[t]
  BY DEF ClockInv
<1>1. CASE Start(w)
  <2>1. worker'[w].holds => worker'[w].forced = Tasks
    BY <1>1, <1>0 DEF Start, Becomes, Down
  <2>2. \A v \in Workers : v # w => worker'[v] = worker[v] /\ age'[v] = age[v]
    BY <1>1 DEF Start, Becomes
  <2>3. \A t \in Tasks : age'[w][t] <= Interval[t]
    BY <1>1, <1>0 DEF Start
  <2> QED BY <1>1, <1>c, <2>1, <2>2, <2>3 DEF Start, ClockInv
<1>2. CASE TakeOver(w)
  <2>1. \A v \in Workers : v # w => worker'[v] = worker[v] /\ age'[v] = age[v]
    BY <1>2 DEF TakeOver
  <2>2. worker'[w].holds => \A t \in Tasks : age'[w][t] = 0
    BY <1>2, <1>0 DEF TakeOver, Worker
  <2>3. \A t \in Tasks : age'[w][t] <= Interval[t]
    BY <1>2, <1>0, <1>c DEF TakeOver
  <2> QED BY <1>2, <1>c, <2>1, <2>2, <2>3 DEF TakeOver, ClockInv
<1>3. CASE AskOwner(w)
  <2>1. \A v \in Workers : worker'[v].holds = worker[v].holds
                            /\ worker'[v].forced = worker[v].forced
    BY <1>3 DEF AskOwner, Worker
  <2> QED BY <1>3, <1>c, <2>1 DEF AskOwner, ClockInv
<1>4. CASE Renew(w)
  <2>1. \A v \in Workers : worker'[v].forced = worker[v].forced
                            /\ (v # w => worker'[v] = worker[v])
    BY <1>4 DEF Renew, Worker
  <2>2. Calm => worker[w].holds
    BY <1>4 DEF Renew, HolderInv
  <2> QED BY <1>4, <1>c, <2>1, <2>2 DEF Renew, ClockInv
<1>5. CASE Pass(w)
  <2>1. \A v \in Workers : v # w => worker'[v] = worker[v] /\ age'[v] = age[v]
    BY <1>5 DEF Pass
  <2>2. worker'[w].holds = worker[w].holds
        /\ worker'[w].forced = worker[w].forced \ Starts(w)
    BY <1>5, <1>0 DEF Pass, Worker
  <2>3. \A t \in Tasks : /\ age'[w][t] = IF t \in Starts(w) THEN 0 ELSE age[w][t]
                         /\ since'[t] = IF t \in Starts(w) THEN 0 ELSE since[t]
    BY <1>5 DEF Pass
  <2>4. ASSUME Calm, NEW v \in Workers, v # w PROVE ~worker[v].holds
    BY <1>5, <2>4 DEF Pass, HolderInv
  <2>5. \A t \in Tasks : since'[t] <= Interval[t] /\ age'[w][t] <= Interval[t]
    BY <1>0, <1>c, <2>3
  <2>6. ASSUME Calm, NEW t \in Tasks, worker'[w].holds, t \notin worker'[w].forced
        PROVE  age'[w][t] <= since'[t]
    <3>1. CASE t \in Starts(w)
      BY <2>3, <3>1
    <3>2. CASE t \notin Starts(w)
      <4>1. t \notin worker[w].forced /\ worker[w].holds
        BY <2>2, <2>6, <3>2
      <4>2. age[w][t] <= since[t]
        BY <1>c, <2>6, <4>1
      <4> QED BY <2>3, <3>2, <4>2
    <3> QED BY <3>1, <3>2
  <2>7. \A v \in Workers, t \in Tasks : age'[v][t] <= Interval[t]
    BY <1>c, <2>1, <2>5
  <2>8. ASSUME Calm, NEW v \in Workers, NEW t \in Tasks, worker'[v].holds,
               t \notin worker'[v].forced
        PROVE  age'[v][t] <= since'[t]
    BY <2>1, <2>4, <2>6, <2>8
  <2> QED BY <2>5, <2>7, <2>8 DEF ClockInv
<1>6. CASE Release(w) \/ Stop(w) \/ Crash(w)
  <2>1. /\ since' = since
        /\ age' = age \/ age' = [age EXCEPT ![w] = JustRun]
        /\ \E d \in {Down, [Down EXCEPT !.phase = "release"]} :
              worker' = [worker EXCEPT ![w] = d]
    BY <1>6 DEF Release, Stop, Crash, Becomes
  <2>2. ~worker'[w].holds
    BY <2>1 DEF Down
  <2>3. \A v \in Workers : v # w => worker'[v] = worker[v] /\ age'[v] = age[v]
    BY <2>1
  <2>4. \A t \in Tasks : age'[w][t] <= Interval[t]
    BY <2>1, <1>0, <1>c
  <2> QED BY <1>c, <2>1, <2>2, <2>3, <2>4 DEF ClockInv
<1> QED BY <1>1, <1>2, <1>3, <1>4, <1>5, <1>6 DEF Loop

\* Every step keeps the clocks in order.
LEMMA StepClocks ==
    ASSUME TypeOK, OutageInv, HolderInv, ClockInv, [Next]_vars
    PROVE  ClockInv'
<1>0. (Calm' => Calm) /\ HolderInv'
  BY CalmBefore, StepHolds
<1>1. ASSUME NEW w \in Workers, Start(w) \/ Loop(w) \/ Stop(w) \/ Crash(w)
      PROVE  ClockInv'
  BY <1>0, <1>1, WorkerClocks
<1>2. CASE Period
  <2>1. /\ since' = Older(since)
        /\ \A w \in Workers : age'[w] = age[w] \/ age'[w] = Older(age[w])
        /\ \A w \in Workers : worker'[w].holds = worker[w].holds
                               /\ worker'[w].forced = worker[w].forced
    BY <1>2 DEF Period, WakeUp, TypeOK, Worker
  <2>2. /\ since \in [Tasks -> Nat]
        /\ \A w \in Workers : age[w] \in [Tasks -> Nat]
    BY DEF TypeOK
  <2>3. \A t \in Tasks : since'[t] <= Interval[t] /\ since[t] <= since'[t]
    BY <2>1, <2>2, SchedulerAssumption DEF ClockInv, Older
  <2>4. \A w \in Workers, t \in Tasks : age'[w][t] <= Interval[t]
    BY <2>1, <2>2, OlderTyped DEF ClockInv
  <2>5. ASSUME Calm', NEW w \in Workers, NEW t \in Tasks, worker'[w].holds,
               t \notin worker'[w].forced
        PROVE  age'[w][t] <= since'[t]
    <3>1. age[w][t] <= since[t] /\ since[t] <= Interval[t]
      BY <1>0, <2>1, <2>5 DEF ClockInv
    <3>2. age[w][t] \in Nat /\ since[t] \in Nat /\ since'[t] \in Nat
      BY <2>1, <2>2, OlderTyped
    <3>3. CASE age'[w] = age[w]
      BY <2>3, <3>1, <3>2, <3>3
    <3>4. CASE age'[w] = Older(age[w])
      BY <2>1, <2>2, <3>1, <3>4, OlderMonotone
    <3> QED BY <2>1, <3>3, <3>4
  <2> QED BY <2>3, <2>4, <2>5 DEF ClockInv
<1>3. CASE RedisFails \/ RedisRecovers \/ RoleChanges \/ UNCHANGED vars
  BY <1>0, <1>3 DEF RedisFails, RedisRecovers, RoleChanges, vars, ClockInv
<1> QED BY <1>1, <1>2, <1>3 DEF Next

-----------------------------------------------------------------------------
(* The theorems *)

\* The invariant holds in every reachable state.
THEOREM InvariantHolds == Spec => []IInv
<1>1. Init => IInv
  <2> SUFFICES ASSUME Init PROVE IInv
    OBVIOUS
  <2>1. \A w \in Workers : worker[w].holds = FALSE /\ worker[w].phase = "down"
    BY DEF Init, Down
  <2>2. \A w \in Workers, t \in Tasks : age[w][t] = 0
    BY DEF Init, JustRun
  <2>3. OutageInv /\ HolderInv
    BY <2>1 DEF Init, OutageInv, HolderInv
  <2>4. ClockInv
    BY <2>1, <2>2, SchedulerAssumption DEF Init, ClockInv
  <2> QED BY <2>3, <2>4, InitTyped DEF IInv
<1>2. IInv /\ [Next]_vars => IInv'
  BY StepTyped, CalmBefore, StepHolds, StepClocks DEF IInv
<1> QED BY <1>1, <1>2, PTL DEF Spec

\* Every variable keeps its type, a worker that is down holds nothing, and the
\* key exists exactly while its TTL has not run out.
THEOREM TypesHold == Spec => []TypeOK
<1>1. IInv => TypeOK
  BY DEF IInv
<1> QED BY <1>1, InvariantHolds, PTL

\* While Redis answers and no worker is frozen, a worker that is about to start
\* tasks owns the lock, so that no two workers of _scheduler_loop start them.
THEOREM OneSchedulerAtATime == Spec => []OnlyTheOwnerPasses
<1>1. IInv => OnlyTheOwnerPasses
  BY DEF IInv, HolderInv, OnlyTheOwnerPasses
<1> QED BY <1>1, InvariantHolds, PTL

\* A worker that takes the lock over starts no task sooner than an interval after
\* its last start, whoever made it, but for what it was to run at once.
THEOREM NothingRepeated == Spec => TakeoverRepeatsNothing
<1> DEFINE Sound ==
      \A w \in Workers, t \in Tasks :
          Pass(w) /\ t \in Starts(w) /\ since[t] < Interval[t]
              => t \in worker[w].forced \/ used["outages"] > 0 \/ used["freezes"] > 0
<1>1. IInv => Sound
  <2> SUFFICES ASSUME IInv, NEW w \in Workers, NEW t \in Tasks, Pass(w),
                      t \in Starts(w), since[t] < Interval[t],
                      ~(used["outages"] > 0), ~(used["freezes"] > 0)
               PROVE  t \in worker[w].forced
    OBVIOUS
  <2>1. Calm
    BY DEF IInv, TypeOK, OutageInv, Calm, Faults
  <2>2. worker[w].holds
    BY <2>1 DEF IInv, HolderInv, Pass
  <2>3. age[w][t] = Interval[t] /\ since[t] \in Nat /\ Interval[t] \in Nat
    BY SchedulerAssumption DEF Starts, IInv, TypeOK
  <2> QED BY <2>1, <2>2, <2>3 DEF IInv, ClockInv
<1>2. IInv => [Sound]_vars
  BY <1>1
<1> QED BY <1>2, InvariantHolds, PTL DEF TakeoverRepeatsNothing
=============================================================================
