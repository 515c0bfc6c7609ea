\* Two connections, three filter writes, a queue of two and a table of one PID:
\* the queue overflows, the table overflows, and a reconnect overtakes the loop.
CONSTANTS
  MotionPid = motion
  StatusPid = status
  Pid = {motion, status}
  NoItem = NoItem
  Item <- MCItem
  Depth = 2
  MaxPids = 1
  MaxConns = 2
  MaxWrites = 3
SPECIFICATION FairSpec
INVARIANTS NoUnwrittenSlot WritesAccounted PublishesUnderOwnSubscription PromptDenyAll
PROPERTIES IsFifo EveryWriteApplied
CHECK_DEADLOCK TRUE
