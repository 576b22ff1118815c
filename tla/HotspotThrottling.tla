------------------------- MODULE HotspotThrottling -------------------------
(***************************************************************************)
(* The hotspot throttling controller: throttlingTrafficShapingController.  *)
(* PerformChecking in src/core/hotspot/traffic_shaping.go, a per-argument  *)
(* leaky bucket (virtual queue) with a bounded queueing time, run          *)
(* concurrently by any number of goroutines.                               *)
(*                                                                         *)
(* One action is one atomic step of the Go code, as in HotspotReject.      *)
(* RuleTimeCounter maps an argument to its last pass time.  Eviction is    *)
(* not modelled: the cache is as large as the set of arguments.            *)
(***************************************************************************)
EXTENDS Integers, Sequences, FiniteSets, TLC

CONSTANTS
    Procs,              \* goroutines calling PerformChecking
    Args,               \* hotspot argument values (model values)
    Threshold,          \* int64(c.threshold)
    SpecificItems,      \* c.specificItems: a function from some arguments to a threshold
    DurationInSec,      \* c.durationInSec
    MaxQueueingTimeMs,  \* c.maxQueueingTimeMs
    Batches,            \* the batchCount values a call may carry
    TickSizes,          \* how far util.CurrentTimeMillis may advance in one step
    MaxClock,           \* bound on the virtual clock (ms)
    MaxCalls,           \* bound on the number of PerformChecking calls
    NoArg               \* model value: the argument of an idle goroutine

ASSUME /\ DOMAIN SpecificItems \subseteq Args
       /\ DurationInSec \in Nat
       /\ MaxQueueingTimeMs \in Nat
       /\ Batches \subseteq Nat \ {0}
       /\ TickSizes \subseteq Nat \ {0}
       /\ MaxClock \in Nat /\ MaxCalls \in Nat
       /\ NoArg \notin Args

VARIABLES
    clock,            \* util.CurrentTimeMillis()
    RuleTimeCounter,  \* metric.RuleTimeCounter: arg -> last pass time
    pc,               \* per goroutine: where it is in PerformChecking
    arg, batchCount,  \* per goroutine: the call's arguments
    currentTimeInMs,  \* per goroutine: the clock read at the top of the loop
    lastPassTime,     \* per goroutine: the value loaded from lastPassTimePtr
    calls,            \* history: calls made so far
    sched             \* history: arg -> sequence of [at, cost] of the calls let through

vars == << clock, RuleTimeCounter, pc, arg, batchCount, currentTimeInMs,
           lastPassTime, calls, sched >>

\* tokenCount: the specific item of the argument, else the rule's threshold.
TokenCount(a) == IF a \in DOMAIN SpecificItems THEN SpecificItems[a] ELSE Threshold

\* int64(math.Round(float64(batchCount * c.durationInSec * 1000 / tokenCount))):
\* the division is int64 division, so the rounding comes too late to act.
IntervalCostTime(a, b) == (b * DurationInSec * 1000) \div TokenCount(a)

\* expectedTime := lastPassTime + intervalCostTime, for goroutine p.
ExpectedTime(p) == lastPassTime[p] + IntervalCostTime(arg[p], batchCount[p])

\* Mutant: the maximum queueing time is not enforced.
CanQueueUnbounded(expectedTime, now) == TRUE

\* The admission test of the loop: the expected time has come, or the wait
\* is shorter than the maximum queueing time.
CanQueue(expectedTime, now) ==
    \/ expectedTime <= now
    \/ expectedTime - now < MaxQueueingTimeMs

\* Store v under key k of the cache (AddIfAbsent on an absent key).
Put(cache, k, v) == [x \in DOMAIN cache \cup {k} |-> IF x = k THEN v ELSE cache[x]]

Init ==
    /\ clock = 0
    /\ RuleTimeCounter = << >>
    /\ pc = [p \in Procs |-> "idle"]
    /\ arg = [p \in Procs |-> NoArg]
    /\ batchCount = [p \in Procs |-> 0]
    /\ currentTimeInMs = [p \in Procs |-> 0]
    /\ lastPassTime = [p \in Procs |-> 0]
    /\ calls = 0
    /\ sched = [a \in Args |-> << >>]

-----------------------------------------------------------------------------
(* Return from PerformChecking.  A call let through (nil or ShouldWait)   *)
(* is recorded with the time it is scheduled to go at.  The goroutine's   *)
(* locals are dead after the return and are cleared.                     *)
Return(p, through, at) ==
    /\ pc' = [pc EXCEPT ![p] = "idle"]
    /\ sched' = IF through
                THEN [sched EXCEPT ![arg[p]] =
                        Append(@, [at |-> at, cost |-> IntervalCostTime(arg[p], batchCount[p])])]
                ELSE sched
    /\ arg' = [arg EXCEPT ![p] = NoArg]
    /\ batchCount' = [batchCount EXCEPT ![p] = 0]
    /\ currentTimeInMs' = [currentTimeInMs EXCEPT ![p] = 0]
    /\ lastPassTime' = [lastPassTime EXCEPT ![p] = 0]

(* A call enters PerformChecking.  The metric and its counters exist (a   *)
(* QPS rule).  A threshold <= 0 returns Blocked at once.                 *)
Invoke(p) ==
    /\ pc[p] = "idle"
    /\ calls < MaxCalls
    /\ calls' = calls + 1
    /\ \E a \in Args, b \in Batches :
         \/ /\ TokenCount(a) <= 0
            /\ UNCHANGED << pc, arg, batchCount >>
         \/ /\ TokenCount(a) > 0
            /\ arg' = [arg EXCEPT ![p] = a]
            /\ batchCount' = [batchCount EXCEPT ![p] = b]
            /\ pc' = [pc EXCEPT ![p] = "readClock"]
    /\ UNCHANGED << clock, RuleTimeCounter, currentTimeInMs, lastPassTime, sched >>

(* currentTimeInMs := int64(util.CurrentTimeMillis()) *)
ReadClock(p) ==
    /\ pc[p] = "readClock"
    /\ currentTimeInMs' = [currentTimeInMs EXCEPT ![p] = clock]
    /\ pc' = [pc EXCEPT ![p] = "addTime"]
    /\ UNCHANGED << clock, RuleTimeCounter, arg, batchCount, lastPassTime, calls, sched >>

(* lastPassTimePtr := timeCounter.AddIfAbsent(arg, &currentTimeInMs).     *)
(* First access passes; otherwise load lastPassTime and either go on to   *)
(* the CAS or return Blocked (the wait exceeds the max queueing time).   *)
AddTime(p) ==
    LET a == arg[p]
        expected == RuleTimeCounter[a] + IntervalCostTime(a, batchCount[p])
    IN
    /\ pc[p] = "addTime"
    /\ \/ /\ a \notin DOMAIN RuleTimeCounter
          /\ RuleTimeCounter' = Put(RuleTimeCounter, a, currentTimeInMs[p])
          /\ Return(p, TRUE, currentTimeInMs[p])
          /\ UNCHANGED << clock, calls >>
       \/ /\ a \in DOMAIN RuleTimeCounter
          /\ \/ /\ CanQueue(expected, currentTimeInMs[p])
                /\ lastPassTime' = [lastPassTime EXCEPT ![p] = RuleTimeCounter[a]]
                /\ pc' = [pc EXCEPT ![p] = "cas"]
                /\ UNCHANGED << clock, RuleTimeCounter, arg, batchCount,
                                currentTimeInMs, calls, sched >>
             \/ /\ ~CanQueue(expected, currentTimeInMs[p])
                /\ Return(p, FALSE, 0)
                /\ UNCHANGED << clock, RuleTimeCounter, calls >>

(* Mutant: a failed CAS is retried with the stale lastPassTime instead of *)
(* going back to the top of the loop.                                    *)
CASNoReload(p) ==
    LET a == arg[p] IN
    /\ pc[p] = "cas"
    /\ RuleTimeCounter[a] = lastPassTime[p]
    /\ RuleTimeCounter' = [RuleTimeCounter EXCEPT ![a] = currentTimeInMs[p]]
    /\ \/ /\ ExpectedTime(p) - currentTimeInMs[p] > 0
          /\ pc' = [pc EXCEPT ![p] = "storeExpected"]
          /\ UNCHANGED << clock, arg, batchCount, currentTimeInMs,
                          lastPassTime, calls, sched >>
       \/ /\ ExpectedTime(p) - currentTimeInMs[p] <= 0
          /\ Return(p, TRUE, currentTimeInMs[p])
          /\ UNCHANGED << clock, calls >>

(* CompareAndSwapInt64(lastPassTimePtr, lastPassTime, currentTimeInMs).   *)
(* On success a positive awaitTime goes on to store expectedTime, else    *)
(* the call passes now; on failure Gosched and retry.                    *)
CAS(p) ==
    LET a == arg[p] IN
    /\ pc[p] = "cas"
    /\ \/ /\ RuleTimeCounter[a] = lastPassTime[p]
          /\ RuleTimeCounter' = [RuleTimeCounter EXCEPT ![a] = currentTimeInMs[p]]
          /\ \/ /\ ExpectedTime(p) - currentTimeInMs[p] > 0
                /\ pc' = [pc EXCEPT ![p] = "storeExpected"]
                /\ UNCHANGED << clock, arg, batchCount, currentTimeInMs,
                                lastPassTime, calls, sched >>
             \/ /\ ExpectedTime(p) - currentTimeInMs[p] <= 0
                /\ Return(p, TRUE, currentTimeInMs[p])
                /\ UNCHANGED << clock, calls >>
       \/ /\ RuleTimeCounter[a] # lastPassTime[p]
          /\ pc' = [pc EXCEPT ![p] = "readClock"]
          /\ UNCHANGED << clock, RuleTimeCounter, arg, batchCount,
                          currentTimeInMs, lastPassTime, calls, sched >>

(* Mutant: ShouldWait is returned without storing expectedTime.         *)
StoreExpectedSkipped(p) ==
    /\ pc[p] = "storeExpected"
    /\ Return(p, TRUE, ExpectedTime(p))
    /\ UNCHANGED << clock, calls, RuleTimeCounter >>

(* atomic.StoreInt64(lastPassTimePtr, expectedTime); return ShouldWait.  *)
StoreExpected(p) ==
    /\ pc[p] = "storeExpected"
    /\ RuleTimeCounter' = [RuleTimeCounter EXCEPT ![arg[p]] = ExpectedTime(p)]
    /\ Return(p, TRUE, ExpectedTime(p))
    /\ UNCHANGED << clock, calls >>

(* The virtual clock advances; it never goes back. *)
Tick ==
    /\ \E d \in TickSizes : clock + d <= MaxClock /\ clock' = clock + d
    /\ UNCHANGED << RuleTimeCounter, pc, arg, batchCount, currentTimeInMs,
                    lastPassTime, calls, sched >>

(* Every call has returned and no more are made. *)
Terminating ==
    /\ calls = MaxCalls
    /\ \A p \in Procs : pc[p] = "idle"
    /\ UNCHANGED vars

Step(p) == Invoke(p) \/ ReadClock(p) \/ AddTime(p) \/ CAS(p) \/ StoreExpected(p)

Next == (\E p \in Procs : Step(p)) \/ Tick \/ Terminating

(* Each goroutine is weakly fair (the loop yields with runtime.Gosched);  *)
(* the clock is not.                                                     *)
Spec == Init /\ [][Next]_vars /\ \A p \in Procs : WF_vars(Step(p) /\ pc[p] # "idle")

-----------------------------------------------------------------------------
TypeOK ==
    /\ clock \in 0..MaxClock
    /\ DOMAIN RuleTimeCounter \subseteq Args
    /\ \A a \in DOMAIN RuleTimeCounter :
          RuleTimeCounter[a] \in 0..(MaxClock + MaxQueueingTimeMs)
    /\ pc \in [Procs -> {"idle", "readClock", "addTime", "cas", "storeExpected"}]
    /\ arg \in [Procs -> Args \cup {NoArg}]
    /\ calls \in 0..MaxCalls

(* The leaky bucket's promise: two calls of one argument that are let     *)
(* through are scheduled at least the later one's intervalCostTime apart, *)
(* so no two goroutines are told to go at nearly the same time.          *)
Spacing ==
    \A a \in Args : \A i, j \in DOMAIN sched[a] :
        i # j /\ sched[a][i].at <= sched[a][j].at =>
            sched[a][j].at - sched[a][i].at >= sched[a][j].cost

(* Every PerformChecking call returns. *)
Termination == \A p \in Procs : pc[p] # "idle" ~> pc[p] = "idle"
=============================================================================
