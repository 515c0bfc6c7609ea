CONSTANTS
  MotionPid = motion
  StatusPid = status
  Pid = {motion, status}
  MaxPids = 1
  ClockMod = 7
  MotionInterval = 2
  StatusInterval = 4
  Interval = {0, 3}
  Gaps = {1, 2}
  IdleGaps = {6}
  MaxAge = 4
SPECIFICATION FairSpec
INVARIANT FilterKeepsPermissions
PROPERTIES MotionCeiling AppIntervalHonoured ListedChannelFlows
