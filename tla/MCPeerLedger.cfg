SPECIFICATION Spec
CONSTANTS
  Amounts = {1, 2}
  MaxLedgers = 3
  MaxHandles = 4
  MaxRows = 2
  Capacity = 2
CHECK_DEADLOCK FALSE
INVARIANTS Solvent Balanced SlotsAccounted
PROPERTIES SpendingIsFinal
