SPECIFICATION Spec
CONSTANTS
    a1 = a1
    a2 = a2
    a3 = a3
    a4 = a4
    k1 = k1
    Attempt = {a1, a2, a3, a4}
    Key = {k1}
    KeyOf <- OneKey
    None = None
    Overlap = TRUE
    Loss = TRUE
SYMMETRY Repeats
INVARIANTS TypeOK ReplayFaithful RepeatsOnlyUnstored
CHECK_DEADLOCK FALSE
