\* The receiver restarts and SET is pressed long.
CONSTANTS
  Reading = {0}
  Required = 1
  MaxSpread = 1
  MinG = 1
  MaxG = 2
  BootBaud = 9600
  RunBaud = 115200
  Configuration <- MCConfiguration
  Writes = 2
SPECIFICATION DeviceSpec
INVARIANT LongPressRecovers
