SPECIFICATION Spec
CONSTANTS
    RowCount = 6
    WordBits = 2
    predicate_value = 2
    Modes = {"stop"}
PROPERTIES
    SkipsAhead
