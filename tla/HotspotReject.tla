--------------------------- MODULE HotspotReject ---------------------------
(***************************************************************************)
(* The hotspot reject controller: rejectTrafficShapingController.          *)
(* PerformChecking in src/core/hotspot/traffic_shaping.go, a per-argument  *)
(* token bucket with burst, run concurrently by any number of goroutines.  *)
(*                                                                         *)
(* Each goroutine is a process with a program counter.  One action is one  *)
(* atomic step of the Go code: a read of the clock, one AddIfAbsent or Get *)
(* on a cache together with the atomic load of the returned cell, one CAS, *)
(* one atomic store.  Between two steps any other goroutine may run.       *)
(*                                                                         *)
(* The two LRU caches RuleTimeCounter and RuleTokenCounter map arguments *)
(* to pointers into the heap cells, the int64 cells the code updates      *)
(* atomically.  A goroutine keeps the pointers it obtained (timePtr,       *)
(* qpsPtr), so a cell evicted from its cache meanwhile is still the one it *)
(* loads, CASes and stores to.  The caches evict as LRUCacheMap does.      *)
(***************************************************************************)
EXTENDS Integers, FiniteSets, Sequences, TLC, LRUCacheMap

CONSTANTS
    Procs,          \* goroutines calling PerformChecking
    Args,           \* hotspot argument values (model values)
    Threshold,      \* int64(c.threshold)
    SpecificItems,  \* c.specificItems: a function from some arguments to a threshold
    BurstCount,     \* c.burstCount
    DurationInSec,  \* c.durationInSec
    RuleParamsMaxCapacity, \* r.ParamsMaxCapacity
    ParamsMaxCapacity,     \* the package's ParamsMaxCapacity
    ParamsCapacityBase,    \* the package's ParamsCapacityBase
    Batches,        \* the batchCount values a call may carry
    TickSizes,      \* how far util.CurrentTimeMillis may advance in one step
    MaxClock,       \* bound on the virtual clock (ms)
    MaxCalls,       \* bound on the number of PerformChecking calls
    NoArg           \* model value: the argument of an idle goroutine

ASSUME /\ DOMAIN SpecificItems \subseteq Args
       /\ DurationInSec \in Nat \ {0}
       /\ Batches \subseteq Nat \ {0}
       /\ TickSizes \subseteq Nat \ {0}
       /\ MaxClock \in Nat /\ MaxCalls \in Nat
       /\ NoArg \notin Args

VARIABLES
    clock,            \* util.CurrentTimeMillis()
    cells,            \* the heap: pointer -> the int64 it points to
    RuleTimeCounter,  \* metric.RuleTimeCounter: arg -> cell of the last add-token time
    RuleTokenCounter, \* metric.RuleTokenCounter: arg -> cell of the remaining tokens
    timePtr,          \* per goroutine: lastAddTokenTimePre (0 is nil)
    qpsPtr,           \* per goroutine: oldQpsPtr (0 is nil)
    pc,               \* per goroutine: where it is in PerformChecking
    arg, batchCount,  \* per goroutine: the call's arguments
    currentTimeInMs,  \* per goroutine: the clock read at the top of the loop
    passTime,         \* per goroutine: currentTimeInMs - *lastAddTokenTimePre
    restQps,          \* per goroutine: the token count loaded before a CAS
    newQps,           \* per goroutine: the token count the CAS installs
    calls,            \* history: calls made so far
    admitted,         \* history: arg -> sum of the batches that passed
    firstTime         \* history: arg -> the time stored by its first toucher

vars == << clock, cells, RuleTimeCounter, RuleTokenCounter, timePtr, qpsPtr,
           pc, arg, batchCount,
           currentTimeInMs, passTime, restQps, newQps, calls, admitted,
           firstTime >>

\* tokenCount: the specific item of the argument, else the rule's threshold.
TokenCount(a) == IF a \in DOMAIN SpecificItems THEN SpecificItems[a] ELSE Threshold

\* maxCount := tokenCount + c.burstCount
MaxCount(a) == TokenCount(a) + BurstCount

\* c.durationInSec*1000, the refill window in ms.
Window == DurationInSec * 1000

\* The number of tokens elapsed ms earn: passTime * tokenCount / (durationInSec*1000).
ToAddTokenNum(elapsed, a) == (elapsed * TokenCount(a)) \div Window

\* Mutant: the batchCount > maxCount check is dropped.
PreBlockedNoBatchCheck(a, b) == TokenCount(a) <= 0

\* The early returns of PerformChecking: threshold <= 0, or a batch above
\* maxCount.
PreBlocked(a, b) == TokenCount(a) <= 0 \/ b > MaxCount(a)

\* Mutant: the refill is not capped at maxCount.
RefillTokensUncapped(passT, rest, a, b) == ToAddTokenNum(passT, a) + rest - b

\* newQps of a refill: the elapsed tokens plus the rest, capped at maxCount,
\* minus the batch.
RefillTokens(passT, rest, a, b) ==
    IF ToAddTokenNum(passT, a) + rest > MaxCount(a) THEN MaxCount(a) - b
    ELSE ToAddTokenNum(passT, a) + rest - b

(* The cache size newBaseTrafficShapingController gives a QPS rule: the  *)
(* rule's ParamsMaxCapacity, else min(ParamsMaxCapacity,                  *)
(* ParamsCapacityBase * durationInSec), the package maximum when that is  *)
(* not positive.                                                          *)
CacheSize ==
    LET size == IF RuleParamsMaxCapacity > 0 THEN RuleParamsMaxCapacity
                ELSE IF DurationInSec = 0 THEN ParamsMaxCapacity
                ELSE IF ParamsMaxCapacity < ParamsCapacityBase * DurationInSec
                     THEN ParamsMaxCapacity ELSE ParamsCapacityBase * DurationInSec
    IN  IF size <= 0 THEN ParamsMaxCapacity ELSE size

\* The pointer a fresh cell gets, and the cell a key's pointer points to.
NewCell == Len(cells) + 1
Cell(cache, k) == cells[cache.items[k]]

Init ==
    /\ clock = 0
    /\ cells = << >>
    /\ RuleTimeCounter = NewLRUCacheMap(CacheSize)
    /\ RuleTokenCounter = NewLRUCacheMap(CacheSize)
    /\ timePtr = [p \in Procs |-> 0]
    /\ qpsPtr = [p \in Procs |-> 0]
    /\ pc = [p \in Procs |-> "idle"]
    /\ arg = [p \in Procs |-> NoArg]
    /\ batchCount = [p \in Procs |-> 0]
    /\ currentTimeInMs = [p \in Procs |-> 0]
    /\ passTime = [p \in Procs |-> 0]
    /\ restQps = [p \in Procs |-> 0]
    /\ newQps = [p \in Procs |-> 0]
    /\ calls = 0
    /\ admitted = [a \in Args |-> 0]
    /\ firstTime = << >>

-----------------------------------------------------------------------------
(* Return from PerformChecking: Pass (nil) adds the batch to admitted.     *)
(* The goroutine's locals are dead after the return and are cleared.     *)
Return(p, passed) ==
    /\ pc' = [pc EXCEPT ![p] = "idle"]
    /\ admitted' = IF passed
                   THEN [admitted EXCEPT ![arg[p]] = @ + batchCount[p]]
                   ELSE admitted
    /\ arg' = [arg EXCEPT ![p] = NoArg]
    /\ batchCount' = [batchCount EXCEPT ![p] = 0]
    /\ currentTimeInMs' = [currentTimeInMs EXCEPT ![p] = 0]
    /\ passTime' = [passTime EXCEPT ![p] = 0]
    /\ restQps' = [restQps EXCEPT ![p] = 0]
    /\ newQps' = [newQps EXCEPT ![p] = 0]
    /\ timePtr' = [timePtr EXCEPT ![p] = 0]
    /\ qpsPtr' = [qpsPtr EXCEPT ![p] = 0]

ReturnBlocked(p) ==
    /\ Return(p, FALSE)
    /\ UNCHANGED << clock, cells, RuleTimeCounter, RuleTokenCounter, calls, firstTime >>

(* A call enters PerformChecking.  The metric and both counters exist (a  *)
(* QPS rule built by newBaseTrafficShapingController).  A threshold <= 0  *)
(* or a batchCount above maxCount returns Blocked at once; otherwise the  *)
(* call enters the retry loop.                                           *)
Invoke(p) ==
    /\ pc[p] = "idle"
    /\ calls < MaxCalls
    /\ calls' = calls + 1
    /\ \E a \in Args, b \in Batches :
         \/ /\ PreBlocked(a, b)
            /\ UNCHANGED << pc, arg, batchCount >>
         \/ /\ ~PreBlocked(a, b)
            /\ arg' = [arg EXCEPT ![p] = a]
            /\ batchCount' = [batchCount EXCEPT ![p] = b]
            /\ pc' = [pc EXCEPT ![p] = "readClock"]
    /\ UNCHANGED << clock, cells, RuleTimeCounter, RuleTokenCounter, timePtr, qpsPtr,
                    currentTimeInMs, passTime, restQps, newQps, admitted, firstTime >>

(* currentTimeInMs := int64(util.CurrentTimeMillis()) *)
ReadClock(p) ==
    /\ pc[p] = "readClock"
    /\ currentTimeInMs' = [currentTimeInMs EXCEPT ![p] = clock]
    /\ pc' = [pc EXCEPT ![p] = "addTime"]
    /\ UNCHANGED << clock, cells, RuleTimeCounter, RuleTokenCounter, timePtr, qpsPtr,
                    arg, batchCount, passTime, restQps, newQps, calls, admitted,
                    firstTime >>

(* lastAddTokenTimePre := timeCounter.AddIfAbsent(arg, &currentTimeInMs). *)
(* An absent argument gets a fresh cell holding currentTimeInMs (and may  *)
(* evict another argument's cell); its inserter goes on to create the     *)
(* token cell.  Everybody else keeps the pointer, loads the cell and      *)
(* computes passTime.  firstTime records the first toucher of all.       *)
AddTime(p) ==
    LET a == arg[p] IN
    /\ pc[p] = "addTime"
    /\ \/ /\ ~HasKey(RuleTimeCounter, a)
          /\ cells' = Append(cells, currentTimeInMs[p])
          /\ RuleTimeCounter' = AddIfAbsent(RuleTimeCounter, a, NewCell)
          /\ firstTime' = firstTime @@ (a :> currentTimeInMs[p])
          /\ pc' = [pc EXCEPT ![p] = "firstToken"]
          /\ UNCHANGED << timePtr, passTime >>
       \/ /\ HasKey(RuleTimeCounter, a)
          /\ LET pt == currentTimeInMs[p] - Cell(RuleTimeCounter, a) IN
             /\ passTime' = [passTime EXCEPT ![p] = pt]
             /\ pc' = [pc EXCEPT ![p] = IF pt > Window THEN "refillAdd" ELSE "getToken"]
          /\ timePtr' = [timePtr EXCEPT ![p] = RuleTimeCounter.items[a]]
          /\ UNCHANGED << cells, RuleTimeCounter, firstTime >>
    /\ UNCHANGED << clock, RuleTokenCounter, qpsPtr, arg, batchCount, currentTimeInMs,
                    restQps, newQps, calls, admitted >>

(* tokenCounter.AddIfAbsent(arg, &leftCount); return nil.  The result of  *)
(* AddIfAbsent is ignored: the call passes whether or not it created it. *)
FirstToken(p) ==
    LET a == arg[p] IN
    /\ pc[p] = "firstToken"
    /\ \/ /\ HasKey(RuleTokenCounter, a)
          /\ UNCHANGED << cells, RuleTokenCounter >>
       \/ /\ ~HasKey(RuleTokenCounter, a)
          /\ cells' = Append(cells, MaxCount(a) - batchCount[p])
          /\ RuleTokenCounter' = AddIfAbsent(RuleTokenCounter, a, NewCell)
    /\ Return(p, TRUE)
    /\ UNCHANGED << clock, RuleTimeCounter, calls, firstTime >>

(* The window has passed: oldQpsPtr := tokenCounter.AddIfAbsent(arg,      *)
(* &leftCount).  A nil result goes on to store the time and pass;        *)
(* otherwise load restQps, compute newQps capped at maxCount, and block  *)
(* if it is negative.                                                    *)
RefillAdd(p) ==
    LET a == arg[p]
        b == batchCount[p]
        rest == Cell(RuleTokenCounter, a)
        nq == RefillTokens(passTime[p], rest, a, b)
    IN
    /\ pc[p] = "refillAdd"
    /\ \/ /\ ~HasKey(RuleTokenCounter, a)
          /\ cells' = Append(cells, MaxCount(a) - b)
          /\ RuleTokenCounter' = AddIfAbsent(RuleTokenCounter, a, NewCell)
          /\ pc' = [pc EXCEPT ![p] = "storeTime"]
          /\ UNCHANGED << clock, RuleTimeCounter, timePtr, qpsPtr, arg, batchCount,
                          currentTimeInMs, passTime, restQps, newQps, calls, admitted,
                          firstTime >>
       \/ /\ HasKey(RuleTokenCounter, a)
          /\ nq < 0
          /\ ReturnBlocked(p)
       \/ /\ HasKey(RuleTokenCounter, a)
          /\ nq >= 0
          /\ qpsPtr' = [qpsPtr EXCEPT ![p] = RuleTokenCounter.items[a]]
          /\ restQps' = [restQps EXCEPT ![p] = rest]
          /\ newQps' = [newQps EXCEPT ![p] = nq]
          /\ pc' = [pc EXCEPT ![p] = "refillCAS"]
          /\ UNCHANGED << clock, cells, RuleTimeCounter, RuleTokenCounter, timePtr,
                          arg, batchCount, currentTimeInMs, passTime, calls, admitted,
                          firstTime >>

(* atomic.CompareAndSwapInt64(oldQpsPtr, restQps, newQps); on failure    *)
(* runtime.Gosched() and the loop starts again.                          *)
RefillCAS(p) ==
    /\ pc[p] = "refillCAS"
    /\ \/ /\ cells[qpsPtr[p]] = restQps[p]
          /\ cells' = [cells EXCEPT ![qpsPtr[p]] = newQps[p]]
          /\ pc' = [pc EXCEPT ![p] = "storeTime"]
       \/ /\ cells[qpsPtr[p]] # restQps[p]
          /\ pc' = [pc EXCEPT ![p] = "readClock"]
          /\ UNCHANGED cells
    /\ UNCHANGED << clock, RuleTimeCounter, RuleTokenCounter, timePtr, qpsPtr, arg,
                    batchCount, currentTimeInMs, passTime, restQps, newQps, calls,
                    admitted, firstTime >>

(* Mutant: the refill passes without storing the new add-token time.    *)
StoreTimeSkipped(p) ==
    /\ pc[p] = "storeTime"
    /\ Return(p, TRUE)
    /\ UNCHANGED << clock, cells, RuleTimeCounter, RuleTokenCounter, calls, firstTime >>

(* atomic.StoreInt64(lastAddTokenTimePre, currentTimeInMs); return nil.   *)
StoreTime(p) ==
    /\ pc[p] = "storeTime"
    /\ cells' = [cells EXCEPT ![timePtr[p]] = currentTimeInMs[p]]
    /\ Return(p, TRUE)
    /\ UNCHANGED << clock, RuleTimeCounter, RuleTokenCounter, calls, firstTime >>

(* Within the window: oldQpsPtr, found := tokenCounter.Get(arg), which   *)
(* makes a found argument the most recent.  Not found: Gosched and retry. *)
(* Found: load oldRestToken (kept in restQps) and block if it does not    *)
(* cover the batch.                                                       *)
GetToken(p) ==
    LET a == arg[p] IN
    /\ pc[p] = "getToken"
    /\ \/ /\ ~HasKey(RuleTokenCounter, a)
          /\ pc' = [pc EXCEPT ![p] = "readClock"]
          /\ UNCHANGED << clock, cells, RuleTimeCounter, RuleTokenCounter, timePtr,
                          qpsPtr, arg, batchCount, currentTimeInMs, passTime, restQps,
                          newQps, calls, admitted, firstTime >>
       \/ /\ HasKey(RuleTokenCounter, a)
          /\ Cell(RuleTokenCounter, a) - batchCount[p] < 0
          /\ RuleTokenCounter' = Get(RuleTokenCounter, a)
          /\ Return(p, FALSE)
          /\ UNCHANGED << clock, cells, RuleTimeCounter, calls, firstTime >>
       \/ /\ HasKey(RuleTokenCounter, a)
          /\ Cell(RuleTokenCounter, a) - batchCount[p] >= 0
          /\ RuleTokenCounter' = Get(RuleTokenCounter, a)
          /\ qpsPtr' = [qpsPtr EXCEPT ![p] = RuleTokenCounter.items[a]]
          /\ restQps' = [restQps EXCEPT ![p] = Cell(RuleTokenCounter, a)]
          /\ pc' = [pc EXCEPT ![p] = "consumeCAS"]
          /\ UNCHANGED << clock, cells, RuleTimeCounter, timePtr, arg, batchCount,
                          currentTimeInMs, passTime, newQps, calls, admitted,
                          firstTime >>

(* Mutant: a plain store of oldRestToken-batchCount instead of the CAS.  *)
ConsumeStore(p) ==
    /\ pc[p] = "consumeCAS"
    /\ cells' = [cells EXCEPT ![qpsPtr[p]] = restQps[p] - batchCount[p]]
    /\ Return(p, TRUE)
    /\ UNCHANGED << clock, RuleTimeCounter, RuleTokenCounter, calls, firstTime >>

(* Mutant: a failed CAS is retried with the stale oldRestToken instead of *)
(* going back to the top of the loop.                                    *)
ConsumeCASNoReload(p) ==
    /\ pc[p] = "consumeCAS"
    /\ cells[qpsPtr[p]] = restQps[p]
    /\ cells' = [cells EXCEPT ![qpsPtr[p]] = restQps[p] - batchCount[p]]
    /\ Return(p, TRUE)
    /\ UNCHANGED << clock, RuleTimeCounter, RuleTokenCounter, calls, firstTime >>

(* CompareAndSwapInt64(oldQpsPtr, oldRestToken, oldRestToken-batchCount): *)
(* success returns nil, failure yields and retries.                      *)
ConsumeCAS(p) ==
    /\ pc[p] = "consumeCAS"
    /\ \/ /\ cells[qpsPtr[p]] = restQps[p]
          /\ cells' = [cells EXCEPT ![qpsPtr[p]] = restQps[p] - batchCount[p]]
          /\ Return(p, TRUE)
          /\ UNCHANGED << clock, RuleTimeCounter, RuleTokenCounter, calls, firstTime >>
       \/ /\ cells[qpsPtr[p]] # restQps[p]
          /\ pc' = [pc EXCEPT ![p] = "readClock"]
          /\ UNCHANGED << clock, cells, RuleTimeCounter, RuleTokenCounter, timePtr,
                          qpsPtr, arg, batchCount, currentTimeInMs, passTime, restQps,
                          newQps, calls, admitted, firstTime >>

(* The virtual clock advances; it never goes back. *)
Tick ==
    /\ \E d \in TickSizes : clock + d <= MaxClock /\ clock' = clock + d
    /\ UNCHANGED << cells, RuleTimeCounter, RuleTokenCounter, timePtr, qpsPtr, pc,
                    arg, batchCount, currentTimeInMs, passTime, restQps, newQps,
                    calls, admitted, firstTime >>

(* Every call has returned and no more are made. *)
Terminating ==
    /\ calls = MaxCalls
    /\ \A p \in Procs : pc[p] = "idle"
    /\ UNCHANGED vars

Step(p) ==
    \/ Invoke(p) \/ ReadClock(p) \/ AddTime(p) \/ FirstToken(p)
    \/ RefillAdd(p) \/ RefillCAS(p) \/ StoreTime(p) \/ GetToken(p)
    \/ ConsumeCAS(p)

Next == (\E p \in Procs : Step(p)) \/ Tick \/ Terminating

(* Go's scheduler runs every runnable goroutine again (the loop yields    *)
(* with runtime.Gosched), so each goroutine is weakly fair.  The clock    *)
(* is not: a mock clock may stand still.                                 *)
Spec == Init /\ [][Next]_vars /\ \A p \in Procs : WF_vars(Step(p) /\ pc[p] # "idle")

-----------------------------------------------------------------------------
Pcs == {"idle", "readClock", "addTime", "firstToken", "refillAdd", "refillCAS",
        "storeTime", "getToken", "consumeCAS"}

TypeOK ==
    /\ clock \in 0..MaxClock
    /\ cells \in Seq(Int)
    /\ \A c \in {RuleTimeCounter, RuleTokenCounter} :
          /\ DOMAIN c.items \subseteq Args
          /\ Cardinality(DOMAIN c.items) <= CacheSize
          /\ \A a \in DOMAIN c.items : c.items[a] \in 1..Len(cells)
    /\ \A a \in DOMAIN RuleTimeCounter.items : Cell(RuleTimeCounter, a) \in 0..MaxClock
    /\ \A a \in DOMAIN RuleTokenCounter.items : Cell(RuleTokenCounter, a) \in Nat
    /\ timePtr \in [Procs -> 0..Len(cells)] /\ qpsPtr \in [Procs -> 0..Len(cells)]
    /\ pc \in [Procs -> Pcs]
    /\ arg \in [Procs -> Args \cup {NoArg}]
    /\ calls \in 0..MaxCalls
    /\ admitted \in [Args -> Nat]

(* Tokens stay in [0, maxCount]: a refill is capped at maxCount and no    *)
(* CAS, however the goroutines interleave, takes the count below zero.   *)
TokenRange ==
    \A a \in DOMAIN RuleTokenCounter.items : Cell(RuleTokenCounter, a) \in 0..MaxCount(a)

(* Inside one refill window the controller implements the atomic token  *)
(* bucket of RejectAbstract: whatever the interleaving of the goroutines' *)
(* AddIfAbsent, Get, load and CAS steps, every change of the token cells  *)
(* is one whole grant or one whole payment of a batch, and no batch is    *)
(* let through without being paid for.  Only meaningful while the clock   *)
(* stays inside the first window.                                        *)
Tokens == [a \in DOMAIN RuleTokenCounter.items |-> Cell(RuleTokenCounter, a)]

Abstract == INSTANCE RejectAbstract WITH tokens <- Tokens

RejectRefinement == Abstract!Spec

(* The rate promise of the token bucket: by time clock an argument has    *)
(* been admitted at most maxCount plus the tokens the elapsed time since  *)
(* its first request earns (tokenCount per durationInSec).  The spec says *)
(* the token CAS prevents a refill from being credited twice.            *)
CreditBound ==
    \A a \in DOMAIN firstTime :
        admitted[a] <= MaxCount(a) + ToAddTokenNum(clock - firstTime[a], a)

(* The spec: the time and token cells of an argument are created together *)
(* on first touch, and the goroutine that wins timeCounter.AddIfAbsent    *)
(* initialises the token cell.  So the first toucher, when it returns     *)
(* Pass from the first-access branch, has itself created the token cell   *)
(* and paid its batch out of maxCount.                                   *)
FirstTouchPays ==
    [][\A p \in Procs :
         pc[p] = "firstToken" /\ pc'[p] = "idle" => ~HasKey(RuleTokenCounter, arg[p])
      ]_vars

(* Every PerformChecking call returns: the CAS retry loop does not spin   *)
(* forever and no goroutine waits forever for a token cell.              *)
Termination == \A p \in Procs : pc[p] # "idle" ~> pc[p] = "idle"
=============================================================================
