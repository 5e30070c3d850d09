\* Two application threads, the helper thread and three call paths.
CONSTANTS
  app1 = app1
  app2 = app2
  helper = helper
  a = a
  b = b
  c = c
  Nobody = Nobody
  Threads <- MCThreads
  Helper = helper
  Names <- MCNames
SPECIFICATION Spec
INVARIANT PackedFitsBuffer
CHECK_DEADLOCK FALSE
