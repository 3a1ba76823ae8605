CONSTANTS
  a = a
  b = b
  c = c
  d = d
  Keys = {a, b, c, d}
  Size <- MCSize
  InitCapacity = 5
  Amounts = {0, 1, 2, 3, 4, 6}
  MaxPins = 2
SPECIFICATION ReplaySpec
INVARIANTS ByteBudget SimulatorAgrees
PROPERTIES EvictsOldestFirst ImplementsStore
