SPECIFICATION FairSpec
CONSTANTS
    Run = {r1}
    Gap = {g1}
    Dividend = {g1}
    Request = {q1, q2}
    NoRequest = NoRequest
    Choices <- BothPaths
    Faulty = {}
PROPERTY LosersVoidTheirEvents
CHECK_DEADLOCK FALSE
