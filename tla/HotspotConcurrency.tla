------------------------ MODULE HotspotConcurrency ------------------------
(***************************************************************************)
(* The concurrency metric of the hotspot controllers:                      *)
(* performCheckingForConcurrencyMetric in                                  *)
(* src/core/hotspot/traffic_shaping.go, which both PerformChecking methods *)
(* call for a Concurrency rule, composed with the hotspot slot that counts *)
(* a passed entry in (increment) and out (decrement on completion).  That *)
(* slot is not under src/; it is modelled from spec section 4.5.           *)
(*                                                                         *)
(* ConcurrentCounter is the LRU cache arg -> in-flight count, without      *)
(* eviction.  Each goroutine is one request: its key is taken from its     *)
(* context by ExtractArgs (module ArgumentExtractor), then check, count    *)
(* in, run, count out.                                                     *)
(***************************************************************************)
EXTENDS Integers, FiniteSets, ArgumentExtractor

CONSTANTS
    Procs,          \* goroutines, one request each at a time
    Contexts,       \* the EntryContexts requests may carry
    Threshold,      \* c.threshold
    SpecificItems,  \* c.specificItems: a function from some arguments to a limit
    MaxCalls,       \* bound on the number of requests
    NoArg,          \* model value: the argument of an idle goroutine
    NoCtx           \* model value: the context of an idle goroutine

\* The hotspot keys the contexts yield.
Args == {ExtractArgs(c) : c \in Contexts} \ {Nil, Panic}

ASSUME /\ DOMAIN SpecificItems \subseteq Args
       /\ MaxCalls \in Nat
       /\ NoArg \notin Args

VARIABLES
    ConcurrentCounter,  \* metric.ConcurrentCounter: arg -> in-flight count
    pc,                 \* per goroutine: idle, check, passed, running
    ctx,                \* per goroutine: the request's EntryContext
    arg,                \* per goroutine: the key extracted from it
    calls               \* history: requests made so far

vars == << ConcurrentCounter, pc, ctx, arg, calls >>

\* The limit that applies to an argument: its specific item, else int64(threshold).
Limit(a) == IF a \in DOMAIN SpecificItems THEN SpecificItems[a] ELSE Threshold

\* The admission test: the loaded count plus this request within the limit.
WithinLimit(a, count) == count + 1 <= Limit(a)

Init ==
    /\ ConcurrentCounter = << >>
    /\ pc = [p \in Procs |-> "idle"]
    /\ ctx = [p \in Procs |-> NoCtx]
    /\ arg = [p \in Procs |-> NoArg]
    /\ calls = 0

(* A request enters the hotspot slot, which extracts its key.  With no  *)
(* key the controller is skipped and the request goes through uncounted  *)
(* (spec sections 4.6, 7); a key goes to the check.  An extraction that  *)
(* panics is not followed further.                                       *)
Invoke(p) ==
    /\ pc[p] = "idle"
    /\ calls < MaxCalls
    /\ \E c \in Contexts :
         \/ /\ ExtractArgs(c) = Nil
            /\ UNCHANGED << pc, ctx, arg >>
         \/ /\ ExtractArgs(c) \in Args
            /\ ctx' = [ctx EXCEPT ![p] = c]
            /\ arg' = [arg EXCEPT ![p] = ExtractArgs(c)]
            /\ pc' = [pc EXCEPT ![p] = "check"]
    /\ calls' = calls + 1
    /\ UNCHANGED ConcurrentCounter

(* concurrencyPre := ConcurrentCounter.AddIfAbsent(arg, &0).  First       *)
(* access passes; otherwise load the count and compare it, plus one,      *)
(* with the specific item or the threshold.                              *)
Check(p) ==
    LET a == arg[p] IN
    /\ pc[p] = "check"
    /\ \/ /\ a \notin DOMAIN ConcurrentCounter
          /\ ConcurrentCounter' = [x \in DOMAIN ConcurrentCounter \cup {a} |->
                                     IF x = a THEN 0 ELSE ConcurrentCounter[x]]
          /\ pc' = [pc EXCEPT ![p] = "passed"]
          /\ UNCHANGED << ctx, arg >>
       \/ /\ a \in DOMAIN ConcurrentCounter
          /\ WithinLimit(a, ConcurrentCounter[a])
          /\ pc' = [pc EXCEPT ![p] = "passed"]
          /\ UNCHANGED << ConcurrentCounter, ctx, arg >>
       \/ /\ a \in DOMAIN ConcurrentCounter
          /\ ~WithinLimit(a, ConcurrentCounter[a])
          /\ pc' = [pc EXCEPT ![p] = "idle"]
          /\ ctx' = [ctx EXCEPT ![p] = NoCtx]
          /\ arg' = [arg EXCEPT ![p] = NoArg]
          /\ UNCHANGED ConcurrentCounter
    /\ UNCHANGED calls

(* Mutant: the passed entry is not counted in. *)
OnEntryPassedNoIncrement(p) ==
    /\ pc[p] = "passed"
    /\ pc' = [pc EXCEPT ![p] = "running"]
    /\ UNCHANGED << ConcurrentCounter, ctx, arg, calls >>

(* The slot counts the passed entry in: an atomic add of 1. *)
OnEntryPassed(p) ==
    /\ pc[p] = "passed"
    /\ ConcurrentCounter' = [ConcurrentCounter EXCEPT ![arg[p]] = @ + 1]
    /\ pc' = [pc EXCEPT ![p] = "running"]
    /\ UNCHANGED << ctx, arg, calls >>

(* The request completes (Exit): the slot counts it out. *)
OnCompleted(p) ==
    /\ pc[p] = "running"
    /\ ConcurrentCounter' = [ConcurrentCounter EXCEPT ![arg[p]] = @ - 1]
    /\ pc' = [pc EXCEPT ![p] = "idle"]
    /\ ctx' = [ctx EXCEPT ![p] = NoCtx]
    /\ arg' = [arg EXCEPT ![p] = NoArg]
    /\ UNCHANGED calls

Terminating ==
    /\ calls = MaxCalls
    /\ \A p \in Procs : pc[p] = "idle"
    /\ UNCHANGED vars

Step(p) == Invoke(p) \/ Check(p) \/ OnEntryPassed(p) \/ OnCompleted(p)

Next == (\E p \in Procs : Step(p)) \/ Terminating

Spec == Init /\ [][Next]_vars

-----------------------------------------------------------------------------
\* The requests of argument a that passed the check and have not completed.
InFlight(a) == {p \in Procs : pc[p] \in {"passed", "running"} /\ arg[p] = a}

TypeOK ==
    /\ DOMAIN ConcurrentCounter \subseteq Args
    /\ \A a \in DOMAIN ConcurrentCounter : ConcurrentCounter[a] \in Nat
    /\ pc \in [Procs -> {"idle", "check", "passed", "running"}]
    /\ ctx \in [Procs -> Contexts \cup {NoCtx}]
    /\ arg \in [Procs -> Args \cup {NoArg}]
    /\ calls \in 0..MaxCalls

(* The purpose of a Concurrency rule: no more requests of an argument are *)
(* in flight than its limit (specific item or threshold).                *)
ConcurrencyBound == \A a \in Args : Cardinality(InFlight(a)) <= Limit(a)

(* Spec section 4.6: every request is counted under the key its context  *)
(* gives in the spec's priority order, in which attachments are read     *)
(* only for an Attachment rule.                                          *)
ExtractAsSpecified ==
    \A p \in Procs : pc[p] # "idle" => arg[p] = SpecExtract(ctx[p])
=============================================================================
