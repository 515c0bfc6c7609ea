\* A sync counter of three values, so that it wraps; more hours than values.
CONSTANTS
  SyncMod = 3
  Hours = 5
SPECIFICATION Spec
INVARIANTS ShownHourIsRight TimeDataIsThere
