\* One process: its helper misses a signal sent before it waits.
CONSTANTS
  p1 = p1
  p2 = p2
  Proc <- MCAlone
  TransTime = 2
  WaitTime = 1
  MaxRounds = 1
  MaxSpurious = 0
SPECIFICATION Spec
PROPERTY AlarmMeansSilence
CHECK_DEADLOCK FALSE
