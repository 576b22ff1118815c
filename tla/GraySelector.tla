--------------------------- MODULE GraySelector ---------------------------
(***************************************************************************)
(* The weight router of the gray (canary) traffic selector,               *)
(* src/core/gray/gc_weight.go: NewWeightTrafficSelector turns a rule's    *)
(* GrayWeightList into cumulative float weights and a total, and           *)
(* CalculateAllowedResource draws hashVal = rand.Int63(), reduces it to a  *)
(* bucket in 1..int64(totalWeight) and routes to the first target whose    *)
(* truncated cumulative weight reaches the bucket.                         *)
(*                                                                         *)
(* A weight is a non-negative multiple of 1/Den, held as the integer count *)
(* of those units; int64(x) of a non-negative float is x \div Den.  The    *)
(* target of a draw is its index in the list; NoDecision stands for the    *)
(* ("", "") return and Panic for the runtime panic of an integer modulo by *)
(* zero.                                                                   *)
(***************************************************************************)
EXTENDS Integers, Sequences, FiniteSets

CONSTANTS
    Den,        \* weight resolution: a weight is an integer number of 1/Den
    Weights,    \* the weights a GrayWeightList entry may carry, in 1/Den
    MaxLen,     \* bound on the length of GrayWeightList
    MaxHash     \* draws of rand.Int63() enumerated: 0..MaxHash

ASSUME /\ Den \in Nat \ {0}
       /\ Weights \subseteq Nat
       /\ MaxLen \in Nat
       /\ MaxHash \in Nat

NoDecision == 0
Panic == -1

VARIABLES
    rule,       \* the rule: [list |-> GrayWeightList weights, force |-> Force]
    status,     \* "unbuilt", "nil" (no selector) or "built"
    selector,   \* the built selector: [weights, totalWeight]
    result      \* the last CalculateAllowedResource: index, NoDecision, Panic

vars == << rule, status, selector, result >>

\* Every rule the configuration may carry, up to MaxLen entries.
Rules == [list : UNION {[1..n -> Weights] : n \in 0..MaxLen}, force : BOOLEAN]

\* int64(x) for a non-negative float x held in units of 1/Den.
Trunc(x) == x \div Den

\* The loop of NewWeightTrafficSelector: totalWeight += w; weights[idx] = totalWeight.
RECURSIVE Cumulate(_, _)
Cumulate(list, total) ==
    IF list = << >> THEN << >>
    ELSE << total + Head(list) >> \o Cumulate(Tail(list), total + Head(list))

\* The sum of a list of weights.
RECURSIVE TotalOf(_)
TotalOf(list) == IF list = << >> THEN 0 ELSE Head(list) + TotalOf(Tail(list))

\* The loop of CalculateAllowedResource: the first i with bucket <= int64(weights[i]).
FirstReaching(weights, bucket) ==
    LET hits == {i \in DOMAIN weights : bucket <= Trunc(weights[i])}
    IN  IF hits = {} THEN NoDecision
        ELSE CHOOSE i \in hits : \A j \in hits : i <= j

\* Mutant: the bucket is hashVal % int64(totalWeight), without the + 1.
CalculateAllowedResourceNoOffset(sel, hashVal) ==
    IF sel.totalWeight > 0 /\ Trunc(sel.totalWeight) = 0 THEN Panic
    ELSE LET bucket == IF sel.totalWeight > 0
                       THEN hashVal % Trunc(sel.totalWeight) ELSE 1
         IN  FirstReaching(sel.weights, bucket)

\* CalculateAllowedResource for the draw hashVal.  A positive total below 1
\* truncates to int64 0, and hashVal % 0 panics.
CalculateAllowedResource(sel, hashVal) ==
    IF sel.totalWeight > 0 /\ Trunc(sel.totalWeight) = 0 THEN Panic
    ELSE LET bucket == IF sel.totalWeight > 0
                       THEN (hashVal % Trunc(sel.totalWeight)) + 1 ELSE 1
         IN  FirstReaching(sel.weights, bucket)

Init ==
    /\ rule \in Rules
    /\ status = "unbuilt"
    /\ selector = [weights |-> << >>, totalWeight |-> 0]
    /\ result = NoDecision

(* NewWeightTrafficSelector for a WeightRouter rule: an empty list with   *)
(* Force yields nil; otherwise the cumulative weights and the total.      *)
NewWeightTrafficSelector ==
    /\ status = "unbuilt"
    /\ \/ /\ rule.list = << >>
          /\ rule.force
          /\ status' = "nil"
          /\ UNCHANGED selector
       \/ /\ ~(rule.list = << >> /\ rule.force)
          /\ status' = "built"
          /\ selector' = [weights |-> Cumulate(rule.list, 0),
                          totalWeight |-> TotalOf(rule.list)]
    /\ UNCHANGED << rule, result >>

(* A request is routed by the built selector with some draw of rand.Int63(). *)
Route ==
    /\ status = "built"
    /\ \E h \in 0..MaxHash : result' = CalculateAllowedResource(selector, h)
    /\ UNCHANGED << rule, status, selector >>

(* A nil selector routes nothing: the rule is done with. *)
NilSelector ==
    /\ status = "nil"
    /\ UNCHANGED vars

Next == NewWeightTrafficSelector \/ Route \/ NilSelector

Spec == Init /\ [][Next]_vars

-----------------------------------------------------------------------------
\* The number of buckets, and how many of them route to target i.
Buckets(sel) == Trunc(sel.totalWeight)
Share(sel, i) == Cardinality({h \in 0..(Buckets(sel) - 1) :
                                 CalculateAllowedResource(sel, h) = i})

(* The router divides traffic in proportion to the configured weights:    *)
(* over one cycle of hashVal mod int64(totalWeight), each target of the   *)
(* rule receives a share of the buckets equal to its weight over the sum  *)
(* of the rule's weights.  This relates the built cumulative array back to *)
(* the rule it was built from.                                            *)
WeightedShare ==
    status = "built" =>
        \A i \in DOMAIN rule.list :
            Share(selector, i) * TotalOf(rule.list) = rule.list[i] * Buckets(selector)

=============================================================================
