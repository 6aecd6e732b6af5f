CONSTANTS
  a = a
  b = b
  Assets = {a, b}
  Order <- MCOrder
  Code <- MCCode
  MarketOf <- MCMarkets
  Ledgered <- MCLedgered
  StartDay = 1
  LastDay = 4
  OpenDays = {1, 2, 3, 4}
  MonthOf <- MCMonthOf
  YearOf <- MCOneYear
  FirstDay = 1
  Quoted <- MCQuoted
  Window = 3
  MaxFails = 3
  ImportOnStart = TRUE
  WeeklyDays = {}
  MaxStops = 2
SPECIFICATION Spec
INVARIANT DowntimeGapsStayOpen
CHECK_DEADLOCK FALSE
