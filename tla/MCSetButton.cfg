\* Sampling gaps shorter and longer than the debounce time; the clock wraps
\* within a press.
CONSTANTS
  ClockMod = 9
  DebounceMs = 2
  LongPressMs = 4
  Gaps = {1, 3}
  MaxAge = 5
SPECIFICATION FairSpec
INVARIANTS OneActionPerPress LongPressIsHeld
PROPERTIES EdgesAreDebounced HoldIsReported
