# TLA+ models of gmiter

These modules model the traffic-governance code of this repository. They cover three areas:
- the hotspot (per-argument) traffic-shaping controllers;
- the weighted gray selector;
- the RPC client wrapper with the circuit-breaker stat slot, and the dashboard heartbeat.

Each is checked with TLC. `PROJECT.json` lists every component, every run, the mutants that show each property can fail, the line map from definitions to source, the findings and the hazards.

## The system and how its parts interact

| Part | Source | Shared state | Operations |
|---|---|---|---|
| Hotspot reject controller | `src/core/hotspot/traffic_shaping.go` 353-446 | `RuleTimeCounter`, `RuleTokenCounter`: LRU maps arg -> `*int64`, mutated with atomic load / CAS / store | `PerformChecking(arg, batchCount)`: pre-checks, then a CAS retry loop (first touch, window refill, in-window consume) |
| Hotspot throttling controller | same file 448-502 | `RuleTimeCounter` (last pass time) | `PerformChecking`: first access, expected time test, CAS to now, store of the expected time, ShouldWait |
| Hotspot concurrency controller | same file 133-157 | `ConcurrentCounter` | check; the hotspot slot (not under `src/`) counts a passed request in and out |
| Controller construction | same file 93-127 | sizes and creates the two bounded LRU caches | `newBaseTrafficShapingController` |
| Argument extractor | same file 185-351 | none | `ExtractArgs` and helpers: pure conversions |
| Weighted gray selector | `src/core/gray/gc_weight.go` | immutable selector | `NewWeightTrafficSelector`, `CalculateAllowedResource` |
| Circuit-breaker stat slot | `src/core/circuitbreaker/stat_slot.go` | the breakers' counters | `OnCompleted` -> `OnRequestComplete(rt, err)` per breaker |
| RPC client wrapper | `src/pkg/adapters/microv4_opentrace/client.go` | per call only | `Call` (Entry, block handling, gray retries, retry template, TraceError, deferred Exit), `DoWithRetry`, `Stream` |
| Dashboard heartbeat | `src/transport/http/heartbeat_sender_init_func.go`, `heartbeat/*.go` | `isInitialized`, `heartbeatSender`, `heartbeatMux`, sender's `currentAddressIdx` | `Initial`, `Destroy`, `GetHeartbeatSender`, the heartbeat goroutine, `SendHeartbeat`, `SendRemove` |
| Client wrapper options | `src/pkg/adapters/microv4_opentrace/options.go` | the wrapper's `Opts`, fixed at construction | the `With...` options, `evaluateOptions` |
| Command handlers, datasources, file helpers | the other files under `src/` | none | glue, a listener not in the repository, and I/O |

The parts interact along one request:
1. A governed call enters through the client wrapper (`sea.Entry`).
2. The slot chain runs the hotspot controllers on the argument extracted from the request.
3. A passing request may be routed by the gray selector.
4. When the call returns, the deferred `Exit` fires the completion slots. These include the hotspot slot's count-out and the circuit-breaker stat slot.

The heartbeat runs beside all this. It is started and stopped by the application's lifecycle through `Initial` and `Destroy`.

What makes the code hard:
- **Lock-free updates.** The controllers share per-argument cells across goroutines and update them with CAS retry loops.
- **No atomic creation.** They read the clock before the loop body. They create the time and token cells with two separate `AddIfAbsent` calls.
- **Retries and branches.** The client has several retry paths and jumps (`goto RetryLabel`) around its deferred `Exit`.
- **Copies.** The heartbeat relies on an atomic flag and an address index held in value receivers.

## Modules

Each module has an `MC_` module that declares model values and definitions for TLC, and one or more `.cfg` files.

### HotspotReject (reject controller, QPS metric)

State: `RuleTimeCounter` and `RuleTokenCounter` are bounded LRU caches (module `LRUCacheMap`) that map an argument to a pointer. `cells` is the heap of `int64` cells, and a pointer is an index into it. Both caches are created with the capacity `CacheSize`, which translates the QPS branch of `newBaseTrafficShapingController` (lines 95-108): the rule's `ParamsMaxCapacity`, else the package default, else the smaller of the default and `ParamsCapacityBase * DurationInSec`.

A goroutine keeps the pointers it obtained in `timePtr[p]` and `qpsPtr[p]`, as the code keeps `lastAddTokenTimePre` and `oldQpsPtr`. So a cell evicted from its cache stays usable by a goroutine that already holds it. `GetToken`'s `tokenCounter.Get` moves the argument to the most recent end of the token cache. `AddIfAbsent` on a present key leaves recency alone, so the two caches can disagree about which argument to evict.

Each goroutine `p` has:
- a program counter `pc[p]`;
- the locals of `PerformChecking`: `arg`, `batchCount`, `currentTimeInMs`, `passTime`, `restQps`, `newQps`.

Each atomic operation of the code is one action:

| Action | Code |
|---|---|
| `Invoke` | lines 353-385, the early returns and pre-blocks |
| `ReadClock` | 388 |
| `AddTime` | 389-399, AddIfAbsent of the time cell, then load and window test |
| `FirstToken` | 390-396 |
| `RefillAdd` | 400-420, AddIfAbsent of the token cell, load, new token count, block |
| `RefillCAS` | 421, 426 |
| `StoreTime` | 422 |
| `GetToken` | 427-433, 438-443 |
| `ConsumeCAS` | 434-437 |

`NewCell` is the address of a fresh local (`&currentTimeInMs`, `&leftCount`), and `Cell` is an atomic load through a pointer.

An `AddIfAbsent` that finds the key is merged with the following atomic load, because it writes nothing. `Tick` advances the clock, which `util.CurrentTimeMillis` reads.

History variables record the calls, the batches admitted per argument and the time each argument was first touched.

Properties:
- `RejectRefinement`: the controller implements `RejectAbstract` (below) inside one refill window. The refinement mapping `Tokens` reads each argument's token cell through the token cache.
- `TokenRange`: tokens stay in `0..maxCount`.
- `CreditBound`: admitted batches never exceed `maxCount` plus the tokens earned by the elapsed time. Checked in a violation run only (`reject_double_credit`).
- `FirstTouchPays`: an action property. A first-touch pass happens only when the request itself created the token cell. Checked in a violation run only (`reject_free_pass`), which has two triggers: a refill creating the token cell between the two inserts, and an eviction of the argument's time cell while its token cell stays.
- `Termination`: every call returns.

### LRUCacheMap (the bounded LRU cache)

`cache.LRUCacheMap` is not under `src/`, so this module is modelled from spec 4.1. A cache is a record of its capacity, its items (key to pointer) and its recency order, least recent first. It has no variables. Its operators return the cache after a call:
- `NewLRUCacheMap(size)`: an empty cache.
- `Get(c, k)`: a hit moves the key to the most recent end.
- `AddIfAbsent(c, k, ptr)`: a present key is left alone. An absent key is appended, and when the cache exceeds its capacity the least recent key is dropped.

### RejectAbstract (what the reject controller promises)

The abstract specification of spec 4.3 inside one refill window: a per-argument token bucket in which each decision is one atomic step. `Grant(a, b)` is the first request of an argument: the bucket is created with `maxCount` tokens and pays the batch. `Take(a, b)` pays a batch out of the tokens left. A blocked request changes nothing, so it is a stutter.

`HotspotReject` implements it through `Abstract == INSTANCE RejectAbstract WITH tokens <- RuleTokenCounter`. The arguments, thresholds, batches and the `admitted` history are shared by name. `RejectRefinement == Abstract!Spec` is checked as a temporal property.

Every step of a goroutine other than the two that move tokens (`FirstToken` and `ConsumeCAS`) leaves the token cells and `admitted` alone, so it maps to a stutter. The refinement therefore says that every token movement of the lock-free loop is a legal bucket step. No token is created except by a first touch, none is lost, and no batch passes unpaid. The window run keeps the clock inside one window. The refill branch has no abstract counterpart, since the abstract bucket never refills. Across windows the double-credit run shows the code is not a bucket with refill either.

### HotspotThrottling (throttling controller, QPS metric)

State: `RuleTimeCounter` holds the last pass time. Per goroutine: `pc`, `arg`, `batchCount`, `currentTimeInMs`, `lastPassTime`. The history `sched` records, per argument, the time each admitted request is scheduled and its cost.

| Action | Code |
|---|---|
| `Invoke` | 448-473 |
| `ReadClock` | 476 |
| `AddTime` | 477-486 and 497-500, first access, load, expected time, CanQueue or block |
| `CAS` | 487-496 |
| `StoreExpected` | 490-491 |

The stored pass time is bounded in `TypeOK` by `MaxClock + MaxQueueingTimeMs`, which the admission test guarantees.

Properties:
- `Spacing`: two admitted requests of an argument are scheduled at least the later one's cost apart. Checked in a violation run only (`throttle_race`).
- `Termination`: every call returns.

The cost `intervalCostTime` is computed as the code computes it, dividing in int64 before rounding. For a threshold above `batchCount * durationInSec * 1000` it is 0 and throttling is switched off. This is listed as a hazard in `PROJECT.json` and is not checked by a run.

### ArgumentExtractor (the hotspot key of a request)

Pure operators translating `ExtractArgs` and its helpers (traffic_shaping.go 185-351). A Go `interface{}` value is a record `[kind, text]`. A string's text is its parts around the first `=`, so `<<"k", "v">>` is `"k=v"`. A struct argument carries its fields by JSON path. `Nil` is the nil interface and `Panic` the runtime panic of `args[0]` on an empty slice.

The operators:
- `extractAttachmentArgs`, `extractHeader` and `extractMetadata`, the last two converting through `transKind`, which gives nil for a value that does not parse;
- `extractArgs`, covering the struct path through `JsonValue` (a number becomes a float64), the first `k=v` string, and the positional index (`ArgAtIndex`, negative indexes counting from the end);
- `ExtractArgs`, the first non-nil result in the code's order.

`SpecExtract` is the reference of spec 4.6. It consults attachments only for an Attachment rule, and it treats an empty argument list as a miss rather than a panic.

### HotspotConcurrency (concurrency metric, composed with the extractor)

State: `ConcurrentCounter`. Per goroutine: the phase (`check`, `passed`, `running`), the request context `ctx` it is serving, and `arg`, its key. The key is `ExtractArgs(ctx)` of the extractor module, so the counter is keyed the way the code keys it. `Contexts` is a set of request contexts:
- headers, metadata, attachments and arguments;
- a request whose key extracts to nil, which is passed without a check (`Invoke` changes nothing);
- a panicking extraction, which is not followed.

| Action | Code |
|---|---|
| `Check` | `performCheckingForConcurrencyMetric` |
| `OnEntryPassed` | the hotspot slot's count-in, modelled from spec 4.5 |
| `OnCompleted` | the hotspot slot's count-out, modelled from spec 4.5 |

Properties:
- `TypeOK`: the counters stay non-negative counts. The counter run checks only this, and exercises every action over the extractor's key sources. A counter equal to the requests in flight would hold by the shape of `OnEntryPassed` and `OnCompleted`, so it is not stated.
- `ExtractAsSpecified`: every request in flight is counted under the key spec 4.6 gives its context. Checked in a violation run only (`extract_source`). A Header rule whose request also carries the key as an attachment is counted under the attachment's value.
- `ConcurrencyBound`: no more requests in flight than the limit. Checked in a violation run only (`concurrency_race`). The first request of an argument passes before any comparison, so a specific item of 0 also admits one request. That case is listed as a hazard.

### GraySelector (weighted gray selector)

Weights are integers in units of `1/Den`, and `int64(x)` of a float is `x \div Den`. `Cumulate` (RECURSIVE) is the construction loop. `CalculateAllowedResource` is the routing function; it returns `Panic` where Go panics on `% 0`.

State:
- the rule, one of every list up to `MaxLen` entries;
- the build status and the built selector;
- the last routing result.

Actions: `NewWeightTrafficSelector` (including the nil selector for an empty list with `Force`), and `Route` with a draw of `rand.Int63()`.

Properties:
- `WeightedShare`: the reference check. Over one cycle of `hashVal mod int64(totalWeight)`, each target gets a share of the buckets equal to its weight over the sum of the weights.

`WeightedShare` is checked over whole-number weights, where it holds. With weights in halves it fails: `[0.5, 0.5]` sends everything to the second target. A total below 1 makes `CalculateAllowedResource` return `Panic` (`hashVal % 0`). Both are listed as hazards; no run checks them.

### ClientCall (client wrapper with the circuit-breaker stat slot)

A caller makes calls in turn. A downstream `c.Client.Call` returns one of `Outcomes`:
- success;
- the gray-block micro error;
- the "not found" micro error;
- another micro error;
- a non-micro error.

| Action | Code |
|---|---|
| `Start` | the `config.CloseAll()` branch |
| `Entry` | 61-114, every block type |
| `RetryLabel` | 153-172 |
| `Retry` | one iteration of 176-196 |
| `DoWithRetry`, `DoWithRetryLoop`, `MatchAdditionalItems` | the callback, 217-311 |
| `TemplateCatch` | the retry template and 158-170 |
| `Trace` | 199-201 |
| `Exit` | the deferred `entry.Exit()`, which fires `OnCompleted` of `stat_slot.go` |
| `StreamStart` | `Stream` 314-321: CloseAll, and the resource extractor |
| `StreamEntry` | `Stream` 322-338: block fallback, or one `c.Client.Stream` whose error is traced |

The wrapper's options `Opts` are chosen in `Init` from `OptionLists` and never change. Each option is `Opt(field, fn)`, as the `With...` functions of `options.go` build it. `evaluateOptions` applies them in order, so the last option of a field wins. The block fallback of `Call` (`clientBlockFallback`) and of `Stream` (`streamClientBlockFallback`) returns nil or an error when set; without one, the call returns `blockErr`.

`Stream` tests `serverResourceExtract` but calls `streamClientResourceExtract`. A wrapper given only a server extractor therefore calls a nil function, which the model returns as `nilFuncPanic`. The run's option lists include that wrapper. Since no entry was taken, the breaker properties still hold. The panic is listed as a hazard.

The retry template is not under `src/`. It is modelled as calling the callback until it does not panic, at most `TemplateAttempts` times, and returning the last panic value.

Properties:
- `DownstreamBound`: at most one call plus `DefaultRetryNum` retries per callback attempt.
- `BreakerSeesLastOutcome`: once a call that passed `Entry` returns, every breaker's last error is what the last downstream call returned. The history variable `lastOutcome` records that independently of `err`. The property crosses the gray retry loop, the retry template's attempts, the clearing of an `additionalItem` error at 168-170, `TraceError` (199-201) and the deferred `Exit` (115). The mutant `TemplateCatchNoClear`, a prefix test that never matches, reports the additionalItem error although the template's last attempt succeeded.
- `CallReturns`: every `Call` and `Stream` that starts returns (`pc # "idle" ~> pc = "idle"`), under `FairSpec`. The mutant `RetryNoIncrement` never advances the gray loop's index and spins on a non-gray micro error.

`BreakerSeesLastOutcome` covers `Stream` as well as `Call`.

The history counter `downstream` stops at `MaxDownstream`, one past the most calls a correct `Call` makes. So `DownstreamBound` still sees any excess, and a looping mutant has a finite state space in which TLC can find the cycle.

### Heartbeat (dashboard heartbeat)

Callers of `Initial` and `Destroy` run concurrently with the heartbeat goroutines `Initial` spawns. The static configuration (`CloseAll`, `OpenConnectDashboard`, runtime port) is chosen in `Init`.

| Action | Code |
|---|---|
| `CallStart` | the `isInitialized` CAS on the receiver copy, and the configuration early returns |
| `GetHeartbeatSender` | the unlocked nil check |
| `ResolveInstance` | under `heartbeatMux` |
| `Spawn` | the goroutine |
| `SendHeartbeat` | one loop iteration |
| `SendRemove` | `Destroy`'s remove |

The regions under `heartbeatMux` write only state nobody writes outside the lock, so each is one step. The dashboard itself is not modelled. The model records the heartbeat goroutines started (`workers`) and how many heartbeat iterations ran.

`SendHeartbeat` and `SendRemove` post only with a runtime port and an address. `PostAddress(s)` is the server sender `s` posts to. `AddressIdxAfterGet` is the sender's index after `GetAvailableAddress`, which stays the same because the `++` acts on the receiver copy. `StartReturns` is the early-return test that `Initial` and `Destroy` share. `NewSenderAddressIdx` is the zero index of the sender `NewSimpleHttpHeartbeatSender` builds.

Property:
- `SingleHeartbeatLoop`: at most one heartbeat goroutine is started. `Initial` opens with `isInitialized.CompareAndSet(false, true)` and returns when it fails, which is meant to make a second call a no-op. Checked in a violation run only (`heartbeat_double_loop`). `Initial` has a value receiver, so the CAS sets the flag of a copy: two `Initial` calls that pass the configuration checks each spawn a loop, in an 8-state trace.

The model also reaches these states. `PROJECT.json` lists each as a hazard, but no run states a property about it:
- heartbeats after the remove;
- two callers each resolving their own sender;

## Runs and what they show

`expect` is `pass` or `violation`. Each violation is a finding, listed in `PROJECT.json` with the source line.

| Run | cfg | expect | shows |
|---|---|---|---|
| reject_window | HotspotReject_window.cfg | pass | 3 goroutines, 2 arguments (one with a specific item of 0), batches 1, 2 and 4, clock inside one window. The controller refines `RejectAbstract`. |
| reject_concurrent | HotspotReject_concurrent.cfg | pass | 2 goroutines across windows. Tokens stay in range and every call returns. |
| reject_double_credit | HotspotReject_double_credit.cfg | violation | Two goroutines refill the same interval twice. The spec says the CAS prevents it. |
| reject_free_pass | HotspotReject_free_pass.cfg | violation | A first-touch request passes without paying. Capacity 1 with two arguments allows two ways: a refill creates the token cell between the request's two `AddIfAbsent` calls, or the time cell of an argument is evicted while its token cell stays. TLC reports the shorter refill trace. With the clock held at 0, only the eviction trace remains. |
| throttle_concurrent | HotspotThrottling_concurrent.cfg | pass | The CAS loop terminates. `TypeOK` bounds every stored pass time by `MaxClock + maxQueueingTimeMs`; it does not relate a pass time to the current clock. |
| throttle_race | HotspotThrottling_race.cfg | violation | Two same-millisecond requests both win a CAS that does not change the value. |
| concurrency_counter | HotspotConcurrency_counter.cfg | pass | Requests keyed by `ExtractArgs` under a Header rule, with every key source. Counters stay non-negative counts. |
| extract_source | HotspotConcurrency_extract.cfg | violation | A Header rule's request that carries the key as an attachment is counted under the attachment's value, not under the header's as spec 4.6 orders. |
| concurrency_race | HotspotConcurrency_race.cfg | violation | Check-then-count admits two requests under a limit of 1. |
| gray_integer | GraySelector_integer.cfg | pass | Whole-number weights are honoured exactly. |
| client_call | ClientCall.cfg | pass | For Call and Stream under four option lists: the retry bound, the breakers are told the outcome of the last downstream call, and every call returns. |
| heartbeat_double_loop | Heartbeat_double_loop.cfg | violation | Two `Initial` callers both pass the `isInitialized` CAS, which acts on a copy, and each starts a heartbeat loop. |

Each property of a passing run has a mutant in `PROJECT.json`. A mutant is an operator of the module that changes one mapped definition the way a plausible bug would, and TLC finds the property violated under the run's own cfg.

## Bounds and why they are enough

**Cache capacity.** The passing reject runs give the rule `ParamsMaxCapacity` 2, equal to the number of arguments, so nothing is evicted. With eviction, the refinement fails (the free pass), and `Termination` fails only because the bounded clock stops inside the spinning window. The free-pass run uses capacity 1 with two arguments, the smallest setting that evicts.

**Reject window run.**
- Three goroutines and two arguments let a refill, a consume and a first touch interleave on one argument while another argument is independent.
- Batches 1, 2 and 4 with `maxCount` 3 reach both the `batchCount > maxCount` block and partial consumption.

**Clock ticks.**
- Ticks of 1000 and 1001 ms with `DurationInSec` 1 cross the refill window at and just past its edge. That reaches both window branches and the elapsed-time arithmetic, without enumerating every millisecond.
- The throttling runs use ticks of 250 ms with costs of 500 ms (threshold 2). This makes the clock both behind and ahead of the expected time, inside and outside `maxQueueingTimeMs`.

**Call counts.** `MaxCalls` bounds the requests. Each passing run lets every goroutine make at least two calls, so that state left by one call is read by the next.

**Concurrency and extraction.** The counter run has three goroutines, seven calls and four contexts:
- a header that parses;
- a header that does not parse, falling through to the argument `uid=9`;
- a struct without the field, giving nil;
- an attachment.

So the same key is reached from two sources, and the nil path is taken. The extraction run needs only one request carrying both an attachment and a header.

**Gray selector.** Whole weights 0..2 in lists of up to three, with draws covering every bucket of the largest total.

**ClientCall.** Three calls, the code's `DefaultRetryNum` of 3 and two template attempts reach every retry path, including a template retry after an additional-item match. Four option lists cover the combinations:
- no options;
- both block fallbacks;
- only a server extractor;
- both extractors, with a client fallback unset again by a later nil option.

**Heartbeat.** Two `Initial` callers, one `Destroy` caller, two addresses and up to three heartbeats. This is the smallest setting in which each ordering of Initial, Destroy and a heartbeat occurs, and in which two callers both resolve a sender, under every combination of the three configuration flags. Two `Initial` callers are the fewest at which a second loop can start.

## Fairness

**Hotspot controllers.** The reject and throttling specifications assume weak fairness of each goroutine's steps while it is inside `PerformChecking`. A Go goroutine that is runnable is eventually scheduled, and the retry loops call `runtime.Gosched()`. The clock has no fairness, since `Termination` must hold without time passing.

**ClientCall.** `FairSpec` adds weak fairness of `CallStep`: the caller's steps once a call has started. A goroutine inside `Call` or `Stream` waits only on the downstream call, and the model has that call return one of `Outcomes`. Starting a call is the application's choice, so `Start` and `StreamStart` are not fair.

**Other modules.** The remaining modules check safety only and assume no fairness.

A run stops when its bounds are reached. Each module has a final stuttering step for that state (`Terminating`, or `NilSelector` in GraySelector), so that deadlock checking stays on and still catches a goroutine stuck before its bound.

## Not modelled, and why

- **The Concurrency branch of `newBaseTrafficShapingController`** (114-121) and eviction of the concurrency counter. Whether an evicted counter loses a count depends on how the hotspot slot counts in and out, and that slot is not under `src/`. The hazard is listed.
- **`retrieveInterval` and the heartbeat timer.** A heartbeat may be sent at any time, which covers every interval.
- **The gray routing of `Call`** (116-152). It rewrites the request, context and call options, and only the `*` resource's goto to `RetryLabel` affects control flow. `Entry`'s passed branch goes to `RetryLabel` either way.
- **Eviction in the throttling and concurrency controllers.** Their models keep their counters as unbounded maps, since no run of theirs has more arguments than capacity. For the concurrency metric, eviction of an argument's counter mid-flight would happen in the count-out slot, which is not under `src/`.
- **The spin after a token-cell eviction.** The reject model reaches it, but the loop ends only when the window passes. Stating that would need a fair clock, and a fair clock makes every model infinite.
- **Context cancellation.** ClientCall does not model cancellation, so dropping the caller's context on the MockCtxTimeout retry is a hazard without a property. Stream's exit at stream open is the same: the code after the open is not in the repository.
- **The rule datasources.** `config_center.go` is commented out. `apollo.go` registers a change listener, `customChangeListener`, whose type is not in the repository, so how a change is applied cannot be modelled from the source. The window between reading the property and registering the listener is listed as a hazard.
- **`splitServiceAndEndpoint`, `randomSort`, Call's metadata and gray-router bookkeeping, command handlers, file helpers.** These are request rewriting, I/O or glue with no state a property could tell apart.
- **Several hazards the models reach but no run states.** These are:
  - the gray panic on a total below 1;
  - the Stream nil extractor;
  - heartbeats after the remove;
  - two resolved senders.

  Each is a state TLC reaches; stating one as a property would take a run of its own. `PROJECT.json` gives the reason for each.
- **The flow throttling checker.** Only its test is under `src/`.
- **Float rounding of weights at integer boundaries.** Weights are exact multiples of `1/Den`. For example, 0.7 + 0.3 in binary floating point is not modelled.

## Plan for the next sittings

1. A slot-chain composition: the client call driving the hotspot concurrency slot and the breaker slot together through Entry and Exit. This needs the slot chain, which is not under `src/`, to be modelled from the spec.
2. More runs if the run budget allows: the gray panic on a fractional total, heartbeats after the remove, two resolved senders, and a passing heartbeat run once a property about the dashboard's state can be taken from the source. The models already reach each of these.
