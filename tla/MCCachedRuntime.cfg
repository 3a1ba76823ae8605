CONSTANTS
  a1 = a1
  a2 = a2
  b1 = b1
  b2 = b2
  Keys = {a1, a2, b1, b2}
  Size <- MCSize
  InitCapacity = 4
  Amounts = {}
  MaxPins = 2
  Batches <- MCBatches
  InitDepth = 1
  MaxInflight = 2
  Excesses = {0, 2}
SPECIFICATION Spec
INVARIANTS PinsMatchBatch NoReadOfResident RoomStaysReserved
PROPERTIES RefusalIsJustified PressureReliefSucceeds ImplementsRegistry LayerEnds
