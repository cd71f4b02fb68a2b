\* Two requests at a time, a leave across two years, the second day a holiday.
SPECIFICATION Spec
CONSTANTS
  r1 = r1
  unknown = unknown
  leaves = leaves
  other = other
  w1 = w1
  w2 = w2
  Resources = {r1}
  Unknown = unknown
  Days <- TwoDays
  WorkDays = {1}
  Months <- OneMonth
  Years <- TwoYears
  Calendars = {leaves, other}
  Events <- TwoEvents
  Files <- TwoFiles
  FreeTypes = {"congedo"}
  Contract <- FirstYear
  Workers = {w1, w2}
  MaxWrites = 2
  MaxChanges = 1
SYMMETRY Symmetry
PROPERTIES OthersKept MirrorsCalendar ImportedOnce
