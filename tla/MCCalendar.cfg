SPECIFICATION DayByDay
CONSTANTS
  Years <- MCYears
  Seconds = {0, 35999, 86399}
INVARIANTS
  DateIsShown
CHECK_DEADLOCK FALSE
