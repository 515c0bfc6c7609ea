\* A window of two readings, still or not; every state the receiver may be found
\* in.
CONSTANTS
  Reading = {0, 1, 2}
  Required = 2
  MaxSpread = 1
  MinG = 1
  MaxG = 2
  BootBaud = 9600
  RunBaud = 115200
  Configuration <- MCConfiguration
  Writes = 2
SPECIFICATION DeviceSpec
INVARIANTS LedAgreesWithStatus PresentMeansConfigured LinkConfigured
