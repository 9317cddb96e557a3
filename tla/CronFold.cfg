SPECIFICATION Spec
CONSTANTS
  Months <- MCMonths
  FirstWeekday = 0
  Summer <- MCSummer
  Saving = 60
  MaxSearchDays = 130
INVARIANT
  NextMomentIsLater
CHECK_DEADLOCK FALSE
