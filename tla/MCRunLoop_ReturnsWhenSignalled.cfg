SPECIFICATION RunLoopSpec
CONSTANTS
  Threads = {t1, t2}
  Room = 1
  Results = 1
PROPERTY ReturnsWhenSignalled
CHECK_DEADLOCK FALSE
