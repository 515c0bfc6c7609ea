\* Every kind of measurement at its limits; the driver's frame buffer.
CONSTANTS
  ClockMod = 100
  Capacity = 64
  Unknown = Unknown
  Coordinates <- MCCoordinates
  Clocks <- MCClocks
  Dates <- MCDates
  Altitudes <- MCAltitudes
  Speeds <- MCSpeeds
  Bearings <- MCBearings
  Dops <- MCDops
  Satellites <- MCSatellites
  Temperatures <- MCTemperatures
  Sessions <- MCSessions
  Rates <- MCRates
  Mountings <- MCMountings
  Poses <- MCPoses
  MaxPoses = 6
  StillDelta = 1
  Settle = 1
  MinSpan = 10
  SentenceIds = {0, 4}
  SentenceRates = {0, 1}
  Bauds = {9600, 115200}
  FixRates = {1, 5, 10}
  Models = {4}
  WrongBytes <- MCWrongBytes
SPECIFICATION Spec
INVARIANTS PositionIsRead TimeIsRead ValuesWithinResolution StatusIsRead FacesAreSettled LevelledByZero FramesHeardAsSent
PROPERTY OrderIsKept
