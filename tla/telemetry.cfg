\* Collections of two Prometheus groups, with rows that are refused or without.
CONSTANTS
  a = a
  b = b
  c = c
  i1 = i1
  i2 = i2
  Servers <- ThreeServers
  Group <- TwoGroups
  Inventories <- SomeRows
  Fleets <- Fleet
  MaxMinute = 3
  Keep = 1
  Walked = a
  Limit = 1
  Load <- Loads
  Capacity <- Capacities
  Stale = 1
  Interval = 0
SPECIFICATION Spec
INVARIANTS ReadingsTypeOK AnsweredIsStored  WalkIsComplete ReportsAgree
