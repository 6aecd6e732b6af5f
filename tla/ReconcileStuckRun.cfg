SPECIFICATION Spec
CONSTANTS
    Run = {r1}
    Gap = {g1, g2}
    Dividend = {g1, g2}
    Request = {q1, q2}
    NoRequest = NoRequest
    Choices <- BothPaths
    Faulty = {}
INVARIANT SettledRunsAreResolved
CHECK_DEADLOCK FALSE
