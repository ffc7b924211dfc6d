SPECIFICATION Spec
CONSTANTS
    Easy = {"a", "b", "c"}
    Host = {"s", "p"}
    Plain = {"p"}
    Conn = {c1, c2}
    None = None
    Setups <- MCSetups
    Streams = 2
    MaxHops = 1
    Faults = {"DO"}
SYMMETRY Symmetry
INVARIANTS NobodyForgotten
