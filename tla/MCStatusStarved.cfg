CONSTANTS
  MotionPid = motion
  StatusPid = status
  Pid = {motion, status}
  MaxPids = 1
  ClockMod = 8
  MotionInterval = 2
  StatusInterval = 4
  Interval = {3}
  Gaps = {1}
  IdleGaps = {}
  MaxAge = 4
SPECIFICATION FairSpec
PROPERTY StatusFlows
