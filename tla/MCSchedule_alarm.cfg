SPECIFICATION FairSpec
CONSTANTS
  h1 = h1
  h2 = h2
  e1 = e1
  Handler <- TwoHandlers
  Editor <- OneEditor
  Sync = Sync
  Off = Off
  NoTime = NoTime
  NoAlarm = NoAlarm
  Period = 2
  MaxNow = 2
  MaxRev = 3
  MaxStops = 1
INVARIANTS
  RunsOnce
  ArmedOrMinded
PROPERTIES
  DueGoesToHandler
  DueIsTaken
CHECK_DEADLOCK FALSE
