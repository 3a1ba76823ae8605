SPECIFICATION StartSpec
CONSTANTS
  k1 = k1
  k2 = k2
  k3 = k3
  k4 = k4
  Keys = {k1, k2, k3, k4}
  Size <- MCSize
  InitCapacity = 1
  Amounts = {}
  MaxPins = 0
  GiB = 8
  OnDisk <- MCOnDisk
  Settings <- MCSettings
  Others <- MCOthers
INVARIANTS
  NoOvercommit
  WarmupFillsTheCache
  WorkersKeepTheirSlots
  CeilingMeansOthers
PROPERTIES
  FailureClosesTheRuntime
CHECK_DEADLOCK FALSE
