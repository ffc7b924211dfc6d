CONSTANTS
    Key = {a, b, c, d}
    Option <- Options
    EasyOption <- EasyOptions
    MaxId = 6
SPECIFICATION Spec
SYMMETRY Symmetry
INVARIANTS OrderIsEntries IdsUnique
PROPERTIES LruSpec
