SPECIFICATION FairSpec
CONSTANTS
    Run = {r1, r2}
    Gap = {g1, g2}
    Dividend = {g1}
    Request = {q1, q2}
    NoRequest = NoRequest
    Choices <- BothPaths
    Faulty = {q1}
INVARIANTS TypeOK ResolvedRunsHaveNothingPending AdjustedIsBacked AnswersHold
PROPERTIES ResolutionSpec  EveryRequestEnds
CHECK_DEADLOCK FALSE
