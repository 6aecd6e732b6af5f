SPECIFICATION Spec
CONSTANTS
    a1 = a1
    a2 = a2
    a3 = a3
    a4 = a4
    k1 = k1
    Attempt = {a1, a2, a3}
    Key = {k1}
    KeyOf <- OneKey
    None = None
    Overlap = TRUE
    Loss = FALSE
INVARIANT AtMostOnce
CHECK_DEADLOCK FALSE
