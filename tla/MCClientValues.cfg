CONSTANTS
  ThisYear = 2023
  ThisMonth = 4
  Dict <- MCDict
  FirstDay <- MCFirstDay
  LastDay = 48213
  FirstMonth = 23400
  LastMonth = 24599
  TypedDates <- MCTypedDates
  TypedTimes <- MCTypedTimes
  TypedNumbers <- MCTypedNumbers
  MaxDigits = 3
  StoredRecords <- MCStoredRecords
  EnteredRows <- MCEnteredRows
  Amounts <- MCAmounts
  Tables <- MCTables
SPECIFICATION Spec
INVARIANTS CalendarKept NumbersKept RecordsKept
CHECK_DEADLOCK FALSE
