---------------------------- MODULE ClientCall ----------------------------
(***************************************************************************)
(* The governed RPC call of the go-micro v4 client wrapper,                *)
(* src/pkg/adapters/microv4_opentrace/client.go (clientWrapper.Call and   *)
(* GrpcRetryCallback.DoWithRetry), composed with the circuit-breaker stat  *)
(* slot, src/core/circuitbreaker/stat_slot.go, that the deferred          *)
(* entry.Exit() fires.                                                     *)
(*                                                                         *)
(* Stream (clientWrapper.Stream) shares Entry, TraceError and the        *)
(* deferred Exit with Call.  The wrapper's options (options.go) are the   *)
(* sequence Opts of the Option values NewClientWrapper was given.        *)
(*                                                                         *)
(* One caller makes up to MaxCalls calls in turn.  A downstream call       *)
(* (c.Client.Call) returns one of Outcomes; a block decision of Entry is   *)
(* one of BlockTypes.  Request, context, metadata and option values are    *)
(* data the control flow does not depend on and are left out.  The retry  *)
(* template (rule.GetRetryTemplateOfResource(...).Execute) is not under    *)
(* src/: it is modelled as calling the callback until it returns without   *)
(* panicking, at most TemplateAttempts times, and returning the last       *)
(* panic value.                                                            *)
(***************************************************************************)
EXTENDS Naturals

LOCAL INSTANCE FiniteSetsExt

CONSTANTS
    OptionLists,        \* the option lists NewClientWrapper may be given
    Breakers,           \* getBreakersOfResource(res): breakers bound to the resource
    DefaultRetryNum,    \* DefaultRetryNum = 3
    TemplateAttempts,   \* attempts of the retry template
    MaxCalls,           \* bound on the number of calls
    MaxDownstream       \* the history counter downstream saturates here

ASSUME /\ DefaultRetryNum \in Nat /\ TemplateAttempts \in Nat \ {0} /\ MaxCalls \in Nat
       \* one past the most calls a correct Call makes, so an excess shows
       /\ MaxDownstream > TemplateAttempts * (1 + DefaultRetryNum)

\* What c.Client.Call returns: success, a micro error 500 "error blocked by
\* gray", a micro error 500 whose detail contains "not found", another micro
\* error (e.g. 408 or 500), or an error of another type.
Outcomes == {"ok", "grayBlocked", "notFound", "otherMicro", "nonMicro"}
MicroErrors == {"grayBlocked", "notFound", "otherMicro"}
\* Errors produced by the wrapper itself.
OwnErrors == {"blockErr", "mockErr", "unmarshalErr", "additionalItem", "fallbackErr"}
Results == Outcomes \cup OwnErrors \cup {"nilFuncPanic"}

\* The fields of options.
OptionFields == {"clientResourceExtract", "serverResourceExtract",
                 "streamClientResourceExtract", "streamServerResourceExtract",
                 "clientBlockFallback", "serverBlockFallback",
                 "streamClientBlockFallback", "streamServerBlockFallback",
                 "tracer"}

\* The Option returned by WithClientBlockFallback(fn) and the other
\* With... functions: it sets one field to fn, which is "nil" when the
\* caller passed a nil function.
Opt(field, fn) == [field |-> field, fn |-> fn]

\* evaluateOptions: each option applied in turn to a zero options, so the
\* last option of a field wins and an unset field is nil.
evaluateOptions(opts) ==
    [f \in OptionFields |->
        LET ks == {k \in DOMAIN opts : opts[k].field = f}
        IN  IF ks = {} THEN "nil" ELSE opts[Max(ks)].fn]

\* What the fallback of a blocked call returns: nil or an error.
FallbackResults == {"ok", "fallbackErr"}

VARIABLES
    Opts,         \* c.Opts, fixed when the wrapper is built
    pc,           \* the caller's place in Call
    entered,      \* Entry passed: entry is non-nil and entry.Exit() is deferred
    err,          \* the local err
    i,            \* the retry loop index
    needBreak,    \* the retry loop's needBreak
    attempt,      \* retry template: callbacks executed so far
    ctxErr,       \* the error traced on the entry (sea.TraceError), "ok" if none
    downstream,   \* downstream calls made in the current Call
    lastOutcome,  \* history: what the last downstream call returned
    completions,  \* per breaker: OnRequestComplete calls received
    lastErr,      \* per breaker: the err of its last OnRequestComplete
    calls,        \* history: calls started
    passed,       \* history: calls whose Entry passed
    returned,     \* history: what the last call returned
    lastPassed    \* history: whether the last call passed Entry

vars == << Opts, pc, entered, err, i, needBreak, attempt, ctxErr, downstream, lastOutcome,
           completions, lastErr, calls, passed, returned, lastPassed >>

IsError(e) == e # "ok"

\* evaluateOptions(c.Opts), evaluated afresh by every Call and Stream.
options == evaluateOptions(Opts)

\* Return from Call with result r: locals are dead.
Return(r) ==
    /\ pc' = "idle"
    /\ returned' = r
    /\ entered' = FALSE
    /\ err' = "ok"
    /\ i' = 0
    /\ needBreak' = TRUE
    /\ attempt' = 0
    /\ ctxErr' = "ok"
    /\ downstream' = 0
    /\ lastPassed' = entered
    /\ UNCHANGED lastOutcome

\* One c.Client.Call with outcome o.  The count of calls is a history
\* that stops at MaxDownstream.
Downstream(o) == /\ err' = o
                 /\ lastOutcome' = o
                 /\ downstream' = IF downstream < MaxDownstream
                                  THEN downstream + 1 ELSE downstream

Init ==
    /\ Opts \in OptionLists
    /\ pc = "idle"
    /\ entered = FALSE
    /\ err = "ok"
    /\ i = 0
    /\ needBreak = TRUE
    /\ attempt = 0
    /\ ctxErr = "ok"
    /\ downstream = 0
    /\ lastOutcome = "ok"
    /\ completions = [b \in Breakers |-> 0]
    /\ lastErr = [b \in Breakers |-> "ok"]
    /\ calls = 0
    /\ passed = 0
    /\ returned = "ok"
    /\ lastPassed = FALSE

(* Call starts.  With config.CloseAll() the request goes straight to the   *)
(* client, ungoverned (line 204).                                         *)
Start ==
    /\ pc = "idle"
    /\ calls < MaxCalls
    /\ calls' = calls + 1
    /\ \/ /\ \E o \in Outcomes : Return(o)
       \/ /\ pc' = "entry"
          /\ UNCHANGED << entered, err, i, needBreak, attempt, ctxErr,
                          downstream, lastOutcome, returned, lastPassed >>
    /\ UNCHANGED << completions, lastErr, passed >>

\* A blocked call returns what the block fallback returns, or blockErr
\* without one.
BlockFallback(fallback) ==
    IF fallback = "nil" THEN Return("blockErr")
    ELSE \E r \in FallbackResults : Return(r)

(* sea.Entry and its block handling, lines 61-114.  Entry passes: the     *)
(* exit is deferred.  Mock: the triggered value unmarshalled into rsp,    *)
(* or blockErr.  MockRequest: one call with the mocked request.           *)
(* MockError: an error.  MockCtxTimeout with an int64 value: goto         *)
(* RetryLabel with a nil entry and no deferred exit.  Otherwise the block *)
(* fallback's result, or blockErr.  TraceError on the nil entry of a      *)
(* blocked call records nothing.                                          *)
Entry ==
    /\ pc = "entry"
    /\ \/ /\ entered' = TRUE
          /\ passed' = passed + 1
          /\ pc' = "retryLabel"
          /\ UNCHANGED << err, i, needBreak, attempt, ctxErr, downstream, lastOutcome,
                          returned, lastPassed >>
       \/ /\ \E r \in {"ok", "unmarshalErr", "blockErr"} : Return(r)
          /\ UNCHANGED passed
       \/ /\ \E o \in Outcomes : Return(o)
          /\ UNCHANGED passed
       \/ /\ \E r \in {"mockErr", "blockErr"} : Return(r)
          /\ UNCHANGED passed
       \/ /\ pc' = "retryLabel"
          /\ UNCHANGED << entered, err, i, needBreak, attempt, ctxErr,
                          downstream, lastOutcome, passed, returned, lastPassed >>
       \/ /\ BlockFallback(options.clientBlockFallback)
          /\ UNCHANGED passed
    /\ UNCHANGED << completions, lastErr, calls >>

(* RetryLabel, lines 153-172: with a retry template and rules for the     *)
(* resource the template runs DoWithRetry; otherwise one call, then the   *)
(* retry loop if it failed.                                               *)
RetryLabel ==
    /\ pc = "retryLabel"
    /\ \/ /\ pc' = "template"
          /\ UNCHANGED << err, i, needBreak, downstream, lastOutcome >>
       \/ /\ \E o \in Outcomes :
               /\ Downstream(o)
               /\ pc' = IF o = "ok" THEN "trace" ELSE "retry"
          /\ i' = 0
          /\ needBreak' = TRUE
    /\ UNCHANGED << entered, attempt, ctxErr, completions, lastErr, calls,
                    passed, returned, lastPassed >>

\* Mutant: one iteration too many.
LoopContinuesOffByOne(k) == k + 1 <= DefaultRetryNum

\* The loop condition i < DefaultRetryNum, checked after i++.
LoopContinues(k) == k + 1 < DefaultRetryNum

\* Mutant: the loop index is never advanced.
RetryNoIncrement ==
    /\ pc = "retry"
    /\ \/ /\ err \in {"grayBlocked", "notFound"}
          /\ \E o \in Outcomes : Downstream(o) /\ needBreak' = (o = "ok")
       \/ /\ err \in MicroErrors \ {"grayBlocked", "notFound"}
          /\ needBreak' = FALSE
          /\ UNCHANGED << err, downstream, lastOutcome >>
       \/ /\ err \notin MicroErrors
          /\ UNCHANGED << err, downstream, lastOutcome, needBreak >>
    /\ pc' = IF needBreak' \/ ~LoopContinues(i) THEN "trace" ELSE "retry"
    /\ UNCHANGED << i, entered, attempt, ctxErr, completions, lastErr, calls,
                    passed, returned, lastPassed >>

(* One iteration of the gray retry loop, lines 176-196.  A micro error    *)
(* "error blocked by gray" or "not found" is retried; any other micro     *)
(* error clears needBreak without a call; a non-micro error leaves it.    *)
Retry ==
    /\ pc = "retry"
    /\ \/ /\ err \in {"grayBlocked", "notFound"}
          /\ \E o \in Outcomes : Downstream(o) /\ needBreak' = (o = "ok")
       \/ /\ err \in MicroErrors \ {"grayBlocked", "notFound"}
          /\ needBreak' = FALSE
          /\ UNCHANGED << err, downstream, lastOutcome >>
       \/ /\ err \notin MicroErrors
          /\ UNCHANGED << err, downstream, lastOutcome, needBreak >>
    /\ i' = i + 1
    /\ pc' = IF needBreak' \/ ~LoopContinues(i) THEN "trace" ELSE "retry"
    /\ UNCHANGED << entered, attempt, ctxErr, completions, lastErr, calls,
                    passed, returned, lastPassed >>

(* The template runs the callback: DoWithRetry's first call, line 243.    *)
DoWithRetry ==
    /\ pc = "template"
    /\ \E o \in Outcomes :
         /\ Downstream(o)
         /\ pc' = IF o = "ok" THEN "match" ELSE "dwrRetry"
    /\ i' = 0
    /\ needBreak' = TRUE
    /\ UNCHANGED << entered, attempt, ctxErr, completions, lastErr, calls,
                    passed, returned, lastPassed >>

(* One iteration of DoWithRetry's loop, lines 248-263: only "error blocked *)
(* by gray" is retried.  After the loop a remaining error panics (265).    *)
DoWithRetryLoop ==
    /\ pc = "dwrRetry"
    /\ \/ /\ err = "grayBlocked"
          /\ \E o \in Outcomes : Downstream(o) /\ needBreak' = (o = "ok")
       \/ /\ err # "grayBlocked"
          /\ UNCHANGED << err, downstream, lastOutcome, needBreak >>
    /\ i' = i + 1
    /\ pc' = IF needBreak' \/ ~LoopContinues(i)
             THEN IF err' = "ok" THEN "match" ELSE "panic"
             ELSE "dwrRetry"
    /\ UNCHANGED << entered, attempt, ctxErr, completions, lastErr, calls,
                    passed, returned, lastPassed >>

(* A successful response is matched against the first rule's additional   *)
(* items, lines 268-311: a match panics with "additionalItem match,can    *)
(* retry"; otherwise the callback returns nil and the template returns.   *)
MatchAdditionalItems ==
    /\ pc = "match"
    /\ \/ /\ err' = "additionalItem"
          /\ pc' = "panic"
       \/ /\ pc' = "trace"
          /\ UNCHANGED err
    /\ UNCHANGED << entered, i, needBreak, attempt, ctxErr, downstream, lastOutcome,
                    completions, lastErr, calls, passed, returned, lastPassed >>

\* Mutant: the "additionalItem match,can retry" prefix test never matches.
TemplateCatchNoClear ==
    /\ pc = "panic"
    /\ attempt' = attempt + 1
    /\ \/ /\ attempt + 1 < TemplateAttempts
          /\ pc' = "template"
       \/ /\ attempt + 1 >= TemplateAttempts
          /\ pc' = "trace"
    /\ UNCHANGED << err, entered, i, needBreak, ctxErr, downstream, lastOutcome, completions,
                    lastErr, calls, passed, returned, lastPassed >>

(* The template catches the callback's panic and runs it again, or, after *)
(* its last attempt, returns the panic value; Call then clears an         *)
(* "additionalItem match,can retry" error (lines 168-170).                *)
TemplateCatch ==
    /\ pc = "panic"
    /\ attempt' = attempt + 1
    /\ \/ /\ attempt + 1 < TemplateAttempts
          /\ pc' = "template"
          /\ UNCHANGED err
       \/ /\ attempt + 1 >= TemplateAttempts
          /\ pc' = "trace"
          /\ err' = IF err = "additionalItem" THEN "ok" ELSE err
    /\ UNCHANGED << entered, i, needBreak, ctxErr, downstream, lastOutcome, completions,
                    lastErr, calls, passed, returned, lastPassed >>

(* sea.TraceError(entry, err) for a failed call, lines 199-201; it does   *)
(* nothing for the nil entry of a MockCtxTimeout call.                    *)
Trace ==
    /\ pc = "trace"
    /\ ctxErr' = IF IsError(err) /\ entered THEN err ELSE ctxErr
    /\ pc' = "exit"
    /\ UNCHANGED << entered, err, i, needBreak, attempt, downstream, lastOutcome,
                    completions, lastErr, calls, passed, returned, lastPassed >>

(* MetricStatSlot.OnCompleted: every breaker bound to the resource gets   *)
(* OnRequestComplete(rt, ctx.Err()).                                      *)
OnCompleted ==
    /\ completions' = [b \in Breakers |-> completions[b] + 1]
    /\ lastErr' = [b \in Breakers |-> ctxErr]

(* return err (line 202), then the deferred entry.Exit() of a passed      *)
(* entry fires the completion slots.                                      *)
Exit ==
    /\ pc = "exit"
    /\ Return(err)
    /\ IF entered THEN OnCompleted ELSE UNCHANGED << completions, lastErr >>
    /\ UNCHANGED << calls, passed >>

(* Stream starts, lines 314-321: ungoverned with config.CloseAll().  The  *)
(* resource extractor is tested as serverResourceExtract but called as    *)
(* streamClientResourceExtract: with only the first set, the call of a    *)
(* nil function panics.                                                   *)
StreamStart ==
    /\ pc = "idle"
    /\ calls < MaxCalls
    /\ calls' = calls + 1
    /\ \/ \E o \in Outcomes : Return(o)
       \/ /\ options.serverResourceExtract # "nil"
          /\ options.streamClientResourceExtract = "nil"
          /\ Return("nilFuncPanic")
       \/ /\ options.serverResourceExtract = "nil"
             \/ options.streamClientResourceExtract # "nil"
          /\ pc' = "streamEntry"
          /\ UNCHANGED << entered, err, i, needBreak, attempt, ctxErr,
                          downstream, lastOutcome, returned, lastPassed >>
    /\ UNCHANGED << completions, lastErr, passed >>

(* sea.Entry of the stream, lines 322-338: blocked, the result of         *)
(* streamClientBlockFallback or blockErr; passed, the exit is deferred    *)
(* and c.Client.Stream is called once, its error then traced.             *)
StreamEntry ==
    /\ pc = "streamEntry"
    /\ \/ /\ BlockFallback(options.streamClientBlockFallback)
          /\ UNCHANGED passed
       \/ /\ entered' = TRUE
          /\ passed' = passed + 1
          /\ \E o \in Outcomes : Downstream(o)
          /\ pc' = "trace"
          /\ UNCHANGED << i, needBreak, attempt, ctxErr, returned, lastPassed >>
    /\ UNCHANGED << completions, lastErr, calls >>

Terminating ==
    /\ pc = "idle"
    /\ calls = MaxCalls
    /\ UNCHANGED vars

Next == /\ \/ Start \/ Entry \/ RetryLabel \/ Retry \/ DoWithRetry
           \/ DoWithRetryLoop \/ MatchAdditionalItems \/ TemplateCatch \/ Trace
           \/ Exit \/ StreamStart \/ StreamEntry \/ Terminating
        /\ UNCHANGED Opts

Spec == Init /\ [][Next]_vars

\* The caller's steps once a call has started.  Starting a call is the
\* application's choice and is not fair.
CallStep == /\ \/ Entry \/ RetryLabel \/ Retry \/ DoWithRetry \/ DoWithRetryLoop
               \/ MatchAdditionalItems \/ TemplateCatch \/ Trace \/ Exit
               \/ StreamEntry
            /\ UNCHANGED Opts

(* A goroutine inside Call or Stream is runnable until it returns: none   *)
(* of them waits on anything the model leaves out (the downstream call    *)
(* returns one of Outcomes).  So its steps are weakly fair.               *)
FairSpec == Spec /\ WF_vars(CallStep)

-----------------------------------------------------------------------------
TypeOK ==
    /\ Opts \in OptionLists
    /\ pc \in {"idle", "entry", "streamEntry", "retryLabel", "retry", "template", "dwrRetry",
               "match", "panic", "trace", "exit"}
    /\ entered \in BOOLEAN /\ needBreak \in BOOLEAN /\ lastPassed \in BOOLEAN
    /\ err \in Results /\ ctxErr \in Results /\ returned \in Results
    /\ i \in 0..DefaultRetryNum
    /\ attempt \in 0..TemplateAttempts
    /\ downstream \in 0..MaxDownstream /\ lastOutcome \in Outcomes
    /\ completions \in [Breakers -> 0..MaxCalls]
    /\ lastErr \in [Breakers -> Results]
    /\ calls \in 0..MaxCalls /\ passed \in 0..calls

(* The retry counts the code advertises (DefaultRetryNum retries, line    *)
(* 141): within one callback attempt, one call and at most                *)
(* DefaultRetryNum retries.                                               *)
DownstreamBound == downstream <= (attempt + 1) * (1 + DefaultRetryNum)

(* Every bound breaker is told the outcome of the governed call: after a *)
(* call whose Entry passed returns, the error each breaker last received  *)
(* is what the last downstream call returned.  Between the two lie the    *)
(* retry loops, the template's attempts and the clearing of its           *)
(* "additionalItem" panic (168-170), TraceError (199-201) and the         *)
(* deferred Exit (115).                                                   *)
BreakerSeesLastOutcome ==
    pc = "idle" /\ lastPassed => \A b \in Breakers : lastErr[b] = lastOutcome

(* Every Call and Stream returns to its caller: the goto to RetryLabel,   *)
(* the gray retry loops of Call and DoWithRetry and the template's        *)
(* attempts are each bounded, so no path through the wrapper spins.       *)
CallReturns == pc # "idle" ~> pc = "idle"
=============================================================================
