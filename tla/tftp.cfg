CONSTANTS
    s1 = s1
    s2 = s2
    Session <- Sessions
    File = 7
    Modulus = 4
    Lifetime = 3
    None = None
SPECIFICATION Spec
SYMMETRY Symmetry
INVARIANTS TypeOK InOrder WholeFile Lockstep
CHECK_DEADLOCK FALSE
