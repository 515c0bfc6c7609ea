\* A window of three of four readings, two of which are too far from 1 g and
\* two pairs of which are too far apart.
CONSTANTS
  Reading = {0, 1, 2, 3}
  Required = 3
  MaxSpread = 1
  MinG = 1
  MaxG = 2
SPECIFICATION FairSpec
INVARIANTS FlagsTellTheState ZeroFromStillWindow WindowFromOneSensorState QuietLedMeansZeroed
PROPERTY CaptureEnds
