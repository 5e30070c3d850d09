\* Two processes; a hang is two seconds of silence, a wait lasts one second.
CONSTANTS
  p1 = p1
  p2 = p2
  Proc <- MCProc
  TransTime = 2
  WaitTime = 1
  MaxRounds = 2
  MaxSpurious = 1
SPECIFICATION Spec
INVARIANTS
  TypeOK
  UnanimousVerdict
  CollectivesMatch
PROPERTIES
  HeardSignalDefersAlarm
  HangIsReported
CHECK_DEADLOCK FALSE
