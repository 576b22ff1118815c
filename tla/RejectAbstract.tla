--------------------------- MODULE RejectAbstract ---------------------------
(***************************************************************************)
(* What the hotspot reject controller promises inside one refill window   *)
(* (spec section 4.3): a per-argument token bucket in which every decision *)
(* is one atomic step.  The first request of an argument is granted        *)
(* maxCount tokens and pays its batch; each later request pays its batch   *)
(* out of the tokens left, or is blocked and changes nothing.  There is no *)
(* refill: the window does not end.                                        *)
(***************************************************************************)
EXTENDS Integers

CONSTANTS Args, Threshold, SpecificItems, BurstCount, Batches

VARIABLES
    tokens,     \* arg -> tokens left, for the arguments seen so far
    admitted    \* arg -> sum of the batches let through

vars == << tokens, admitted >>

\* The threshold of an argument and its bucket size, as in the controller.
TokenCountOf(a) == IF a \in DOMAIN SpecificItems THEN SpecificItems[a] ELSE Threshold
Capacity(a) == TokenCountOf(a) + BurstCount

Init ==
    /\ tokens = << >>
    /\ admitted = [a \in Args |-> 0]

(* The first request of an argument with a positive threshold: the bucket *)
(* is created full and the batch is paid out of it at once.               *)
Grant(a, b) ==
    /\ a \notin DOMAIN tokens
    /\ TokenCountOf(a) > 0
    /\ b <= Capacity(a)
    /\ tokens' = [x \in DOMAIN tokens \cup {a} |->
                    IF x = a THEN Capacity(a) - b ELSE tokens[x]]
    /\ admitted' = [admitted EXCEPT ![a] = @ + b]

(* A later request that the tokens left cover pays its batch. *)
Take(a, b) ==
    /\ a \in DOMAIN tokens
    /\ b <= tokens[a]
    /\ tokens' = [tokens EXCEPT ![a] = @ - b]
    /\ admitted' = [admitted EXCEPT ![a] = @ + b]

Next == \E a \in Args, b \in Batches : Grant(a, b) \/ Take(a, b)

Spec == Init /\ [][Next]_vars
=============================================================================
