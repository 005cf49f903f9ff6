SPECIFICATION Spec
CONSTANTS
  MaxInt = 32767
  Values <- EdgeValues
  Days <- EdgeDays
  TicksPerMilli = 10
  Ticks <- EdgeTicks
  Offsets <- EdgeOffsets
CHECK_DEADLOCK FALSE
INVARIANTS
  IntegerPrinted
  StampsWellFormed
  StampsNameTheTime
PROPERTY
  StampsSort
