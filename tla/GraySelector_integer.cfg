\* Whole-number weights 0..2, lists of up to three targets, draws covering
\* every bucket of the largest total (6).
CONSTANTS
    Den = 10
    Weights = {0, 10, 20}
    MaxLen = 3
    MaxHash = 5
SPECIFICATION Spec
INVARIANT WeightedShare
