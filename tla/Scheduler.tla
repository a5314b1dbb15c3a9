------------------------------ MODULE Scheduler ------------------------------
(***************************************************************************)
(* The task scheduler: every worker process of a node runs its loop, and a *)
(* Redis key decides which of them starts the tasks.                       *)
(*                                                                         *)
(* Time is counted in periods of the loop (30 seconds).  In each period a  *)
(* live worker goes through its loop once, unless it is frozen: blocked by *)
(* other work on its event loop, or waiting for Redis.                     *)
(***************************************************************************)
EXTENDS Integers, FiniteSets

CONSTANTS
    Workers,
    Tasks,
    WriteTasks,         \* WRITE_TASKS
    Interval,           \* of each task, in periods
    Nobody,             \* the key does not exist
    Gone,               \* the process that set the key has ended
    Lifetime,           \* _SCHED_LOCK_TTL, in periods
    MaxFaults           \* bound: periods that pass while a worker is frozen, Redis
                        \* outages, promotions and demotions

ASSUME SchedulerAssumption ==
    /\ IsFiniteSet(Workers)
    /\ Nobody \notin Workers /\ Gone \notin Workers /\ Nobody # Gone
    /\ WriteTasks \subseteq Tasks
    /\ Interval \in [Tasks -> Nat \ {0}]
    /\ Lifetime \in Nat \ {0, 1}        \* it must exceed the period of the loop

VARIABLES
    key,        \* scheduler:loop_lock, its owner and what is left of its TTL
    worker,     \* where the loop of each worker stands, and whether it holds the lock
    age,        \* periods since a worker started each task, as its last_run has it
    since,      \* periods since any worker started the task
    redisUp,
    role,       \* get_node_role()
    used        \* how often each of them has happened

vars == <<key, worker, age, since, redisUp, role, used>>

Phase == {"down", "ready", "renew", "pass", "asleep", "release"}
Worker == [phase : Phase, holds : BOOLEAN, seen : Workers \cup {Nobody, Gone},
           forced : SUBSET Tasks]   \* to be run at once, whoever ran them before
Key == [owner : Workers \cup {Nobody, Gone}, ttl : 0..Lifetime]
Faults == {"freezes", "outages", "roles"}

Down == [phase |-> "down", holds |-> FALSE, seen |-> Nobody, forced |-> {}]
FreeKey == [owner |-> Nobody, ttl |-> 0]
KeyOf(w) == [owner |-> w, ttl |-> Lifetime]
Due == Interval
JustRun == [t \in Tasks |-> 0]

Init ==
    /\ key = FreeKey
    /\ worker = [w \in Workers |-> Down]
    /\ age = [w \in Workers |-> JustRun]
    /\ since = Interval
    /\ redisUp = TRUE
    /\ role \in {"primary", "standby"}
    /\ used = [f \in Faults |-> 0]

Spend(what) ==
    /\ used["freezes"] + used["outages"] + used["roles"] < MaxFaults
    /\ used' = [used EXCEPT ![what] = @ + 1]
Becomes(w, state) == worker' = [worker EXCEPT ![w] = state]

-----------------------------------------------------------------------------
(* The lock; an unavailable Redis counts as holding it *)

Acquires == ~redisUp \/ key = FreeKey
Claim(w) == key' = IF redisUp /\ key = FreeKey THEN KeyOf(w) ELSE key

\* A worker that finds the lock free runs every task at once; one that finds it
\* taken waits a full interval, as if the tasks had just run.
Start(w) ==
    /\ worker[w].phase = "down"
    /\ Claim(w)
    /\ Becomes(w, [Down EXCEPT !.phase = "ready", !.holds = Acquires,
                            !.forced = IF Acquires THEN Tasks ELSE {}])
    /\ age' = [age EXCEPT ![w] = IF Acquires THEN Due ELSE JustRun]
    /\ UNCHANGED <<since, redisUp, role, used>>

\* It stands by for ever.
NeverTakeOver(w) ==
    /\ worker[w].phase = "ready" /\ ~worker[w].holds
    /\ worker' = [worker EXCEPT ![w].phase = "asleep"]
    /\ UNCHANGED <<key, age, since, redisUp, role, used>>

\* The clocks of the tasks go on where they were.
TakeOverAtOnce(w) ==
    /\ worker[w].phase = "ready" /\ ~worker[w].holds
    /\ Claim(w)
    /\ worker' = [worker EXCEPT ![w].holds = Acquires, ![w].forced = {},
                                ![w].phase = IF Acquires THEN "pass" ELSE "asleep"]
    /\ age' = [age EXCEPT ![w] = IF Acquires THEN Due ELSE @]
    /\ UNCHANGED <<since, redisUp, role, used>>

TakeOver(w) ==
    /\ worker[w].phase = "ready" /\ ~worker[w].holds
    /\ Claim(w)
    /\ worker' = [worker EXCEPT ![w].holds = Acquires, ![w].forced = {},
                                ![w].phase = IF Acquires THEN "pass" ELSE "asleep"]
    /\ age' = [age EXCEPT ![w] = IF Acquires THEN JustRun ELSE @]
    /\ UNCHANGED <<since, redisUp, role, used>>

\* Renewing is a GET ...
AskOwner(w) ==
    /\ worker[w].phase = "ready" /\ worker[w].holds
    /\ worker' = IF redisUp
                 THEN [worker EXCEPT ![w].phase = "renew", ![w].seen = key.owner]
                 ELSE [worker EXCEPT ![w].phase = "pass"]
    /\ UNCHANGED <<key, age, since, redisUp, role, used>>

\* ... and then, unless another worker was seen to own the key, a SET NX or an
\* EXPIRE, which renews whatever key there is by then.
Renew(w) ==
    LET seen == worker[w].seen
        stays == ~redisUp \/ seen = w \/ (seen = Nobody /\ key = FreeKey)
    IN  /\ worker[w].phase = "renew"
        /\ worker' = [worker EXCEPT ![w].phase = IF stays THEN "pass" ELSE "asleep",
                                    ![w].holds = stays, ![w].seen = Nobody]
        /\ key' = IF redisUp /\ seen = w /\ key # FreeKey THEN [key EXCEPT !.ttl = Lifetime]
                  ELSE IF redisUp /\ seen = Nobody /\ key = FreeKey THEN KeyOf(w)
                  ELSE key
        /\ UNCHANGED <<age, since, redisUp, role, used>>

-----------------------------------------------------------------------------
(* A pass over the tasks *)

Runnable(t) == role # "standby" \/ t \notin WriteTasks

Starts(w) == {t \in Tasks : age[w][t] = Interval[t] /\ Runnable(t)}

Pass(w) ==
    /\ worker[w].phase = "pass"
    /\ worker' = [worker EXCEPT ![w].phase = "asleep", ![w].forced = @ \ Starts(w)]
    /\ age' = [age EXCEPT ![w] = [t \in Tasks |-> IF t \in Starts(w) THEN 0 ELSE @[t]]]
    /\ since' = [t \in Tasks |-> IF t \in Starts(w) THEN 0 ELSE since[t]]
    /\ UNCHANGED <<key, redisUp, role, used>>

-----------------------------------------------------------------------------
(* Ends of a worker: gunicorn recycles workers for ever (--max-requests), and one *)
(* may be killed at any time *)

\* The lock is deleted whoever owns it.
StopReleasingAnyLock(w) ==
    /\ worker[w].phase \in {"ready", "asleep"}
    /\ Becomes(w, IF redisUp THEN [Down EXCEPT !.phase = "release"] ELSE Down)
    /\ age' = [age EXCEPT ![w] = JustRun]
    /\ UNCHANGED <<key, since, redisUp, role, used>>

\* The lock is deleted if a GET says that it is still this worker's.
Stop(w) ==
    /\ worker[w].phase \in {"ready", "asleep"}
    /\ Becomes(w, IF redisUp /\ key.owner = w THEN [Down EXCEPT !.phase = "release"] ELSE Down)
    /\ age' = [age EXCEPT ![w] = JustRun]
    /\ UNCHANGED <<key, since, redisUp, role, used>>

Release(w) ==
    /\ worker[w].phase = "release"
    /\ key' = IF redisUp THEN FreeKey ELSE key
    /\ Becomes(w, Down)
    /\ UNCHANGED <<age, since, redisUp, role, used>>

CrashStillHolding(w) ==
    /\ worker[w].phase # "down"
    /\ worker' = [worker EXCEPT ![w].phase = "down"]
    /\ age' = [age EXCEPT ![w] = JustRun]
    /\ key' = [key EXCEPT !.owner = IF @ = w THEN Gone ELSE @]
    /\ UNCHANGED <<since, redisUp, role, used>>

\* The process that replaces it has another process id.
Crash(w) ==
    /\ worker[w].phase # "down"
    /\ Becomes(w, Down)
    /\ age' = [age EXCEPT ![w] = JustRun]
    /\ key' = [key EXCEPT !.owner = IF @ = w THEN Gone ELSE @]
    /\ UNCHANGED <<since, redisUp, role, used>>

-----------------------------------------------------------------------------
(* Time and surroundings *)

Older(ages) == [t \in Tasks |-> IF ages[t] < Interval[t] THEN ages[t] + 1 ELSE ages[t]]

Frozen == {w \in Workers : worker[w].phase \notin {"down", "asleep"}}

WakeUp(w) ==
    IF worker[w].phase = "asleep" THEN [worker[w] EXCEPT !.phase = "ready"] ELSE worker[w]

Left(ttl) == IF ttl = 0 THEN 0 ELSE ttl - 1

Period ==
    /\ IF Frozen = {} THEN UNCHANGED used ELSE Spend("freezes")
    /\ key' = IF Left(key.ttl) = 0 THEN FreeKey ELSE [key EXCEPT !.ttl = Left(@)]
    /\ worker' = [w \in Workers |-> WakeUp(w)]
    /\ age' = [w \in Workers |-> IF worker[w].phase \in {"down", "release"} THEN age[w]
                                 ELSE Older(age[w])]
    /\ since' = Older(since)
    /\ UNCHANGED <<redisUp, role>>

RedisFails ==
    /\ redisUp
    /\ Spend("outages")
    /\ redisUp' = FALSE
    /\ UNCHANGED <<key, worker, age, since, role>>

RedisRecovers ==
    /\ ~redisUp
    /\ redisUp' = TRUE
    /\ UNCHANGED <<key, worker, age, since, role, used>>

RoleChanges ==
    /\ Spend("roles")
    /\ role' = IF role = "primary" THEN "standby" ELSE "primary"
    /\ UNCHANGED <<key, worker, age, since, redisUp>>

-----------------------------------------------------------------------------
Loop(w) == TakeOver(w) \/ AskOwner(w) \/ Renew(w) \/ Pass(w) \/ Release(w)

Next ==
    \/ \E w \in Workers : Start(w) \/ Loop(w) \/ Stop(w) \/ Crash(w)
    \/ Period \/ RedisFails \/ RedisRecovers \/ RoleChanges

Spec == Init /\ [][Next]_vars

\* Loops keep running, gunicorn replaces the workers that ended, time passes.
FairSpec ==
    /\ Spec
    /\ \A w \in Workers : WF_vars(Start(w)) /\ WF_vars(Loop(w))
    /\ WF_vars(Period)

-----------------------------------------------------------------------------
(* Properties *)

\* Every variable keeps its type, a worker that is down holds nothing, and the
\* key exists exactly while its TTL has not run out.
TypeOK ==
    /\ key \in Key
    /\ key.owner = Nobody <=> key.ttl = 0
    /\ worker \in [Workers -> Worker]
    /\ \A w \in Workers : worker[w].phase \in {"down", "release"} => ~worker[w].holds
    /\ age \in [Workers -> [Tasks -> Nat]]
    /\ since \in [Tasks -> Nat]
    /\ redisUp \in BOOLEAN
    /\ role \in {"primary", "standby"}
    /\ used \in [Faults -> Nat]

Calm == redisUp /\ used["outages"] = 0 /\ used["freezes"] = 0

\* While Redis answers and no worker is frozen, a worker that is about to start
\* tasks owns the lock: no two workers run the scheduler.
OnlyTheOwnerPasses ==
    Calm => \A w \in Workers : worker[w].phase = "pass" => key.owner = w

\* A takeover repeats nothing: a task that was started less than an interval ago
\* is started again only by a worker that found the lock free when it started, and
\* by it only once.
TakeoverRepeatsNothing ==
    [][\A w \in Workers, t \in Tasks :
          Pass(w) /\ t \in Starts(w) /\ since[t] < Interval[t]
              => t \in worker[w].forced \/ used["outages"] > 0 \/ used["freezes"] > 0]_vars

\* Started again and again, with periods in between.
KeepsStarting(t) == []<>(since[t] = 0) /\ []<>(since[t] > 0)
StandsBy(t) == t \in WriteTasks /\ []<>(role = "standby")

\* Once workers are recycled and killed no more, every task is started again and
\* again, whatever takeovers, freezes and outages there were before; a task that
\* writes, if the node ends up as primary.
SettledTasksAreStarted ==
    <>[](\A w \in Workers : worker[w].phase \notin {"down", "release"}) =>
        \A t \in Tasks : KeepsStarting(t) \/ StandsBy(t)

\* What the loop's comment says of the clocks a takeover resets, the tasks "will
\* still fire on their next configured interval": a scheduler that goes on starting
\* one task goes on starting every other.
TakenOverTasksFire ==
    \A t, u \in Tasks : KeepsStarting(u) => KeepsStarting(t) \/ StandsBy(t)
=============================================================================
