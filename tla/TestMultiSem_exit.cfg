\* One consumer, a producer, and Control-C at any time.
CONSTANTS
  Waiters = {w1}
  Releasers = {r1, h}
  Handler = h
  Nobody = nobody
  MaxCount = 3
  InitialCount = 1
  Units <- OneToTooMany
  LongMax = 7
  Finite = {w1}
  MaxProduced = 3
SPECIFICATION TestFairSpec
PROPERTY ConsumersShutDown
CHECK_DEADLOCK FALSE
