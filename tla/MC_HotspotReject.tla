------------------------- MODULE MC_HotspotReject -------------------------
(* Model-checking instance of HotspotReject: three bounded settings.      *)
EXTENDS HotspotReject

\* The argument values, model values given in the cfg.
CONSTANTS a1, a2

\* Goroutines are interchangeable.
ProcSymmetry == Permutations(Procs)

\* a2 carries a specific item of 0, so its calls take the threshold <= 0 block.
MCSpecificItems == [x \in {a2} |-> 0]

\* No argument has a specific item.
NoSpecificItems == [x \in {} |-> 0]
=============================================================================
