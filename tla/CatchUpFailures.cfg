CONSTANTS
  a = a
  b = b
  Assets = {a, b}
  Order <- MCOrder
  Code <- MCCode
  MarketOf <- MCMarkets
  Ledgered <- MCLedgered
  StartDay = 2
  LastDay = 3
  OpenDays = {2, 3}
  MonthOf <- MCMonthOf
  YearOf <- MCMonthOf
  FirstDay = 2
  Quoted <- MCQuoted
  Window = 1
  MaxFails = 1
  ImportOnStart = TRUE
  WeeklyDays = {2}
  MaxStops = 1
SPECIFICATION FairSpec
INVARIANT TypeOK
INVARIANT BlockedSourceIsLeftAlone
INVARIANT UnrecoverableMonthsAreEmpty
INVARIANT OnlyLateDaysAreMissed
PROPERTY GapsClose
CHECK_DEADLOCK FALSE
