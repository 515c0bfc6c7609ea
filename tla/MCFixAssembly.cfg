\* Two days of three epochs each, the second cut short; a buffer of less than two
\* bursts.
CONSTANTS
  Day = 3
  MaxEpoch = 5
  Buffer = 4
SPECIFICATION Spec
INVARIANTS FixOfOneEpoch DateIsOfTheEpoch WholeEpochHandedOut
PROPERTIES HandedOutOnce
CHECK_DEADLOCK FALSE
