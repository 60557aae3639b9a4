SPECIFICATION Spec
CONSTANTS
    RowCount = 6
    WordBits = 2
    predicate_value = 2
    Modes = {"rank", "dense_rank", "filter", "stop"}
INVARIANTS
    BoundsAreExact
    RanksAreExact
    SelectsExactly
    SelectsOnce
PROPERTIES
    EvaluationAdvances
