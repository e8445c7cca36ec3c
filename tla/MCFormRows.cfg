SPECIFICATION Spec
CONSTANTS
  Codes <- MCCodes
  OnFile <- MCOnFile
  Amounts <- MCAmounts
  MaxRows = 3
  MaxFiltered = 2
  MaxPasted = 1
  MaxKinds = 1
  Kinds = {"sorted", "filtered", "replaced", "undone"}
  Records <- MCRecords
INVARIANTS ShownIsStored  TotalIsCurrent ChangesNoted
