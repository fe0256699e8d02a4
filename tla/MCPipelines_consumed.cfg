\* One pair; a queue of two in front of the transmitter.
SPECIFICATION Spec
CONSTANTS
  MaxPairs = 1
  Goal = 2
  TBLOCK_SIZE = 2
  P2T_QLEN = 3
  T2R_QLEN = 2
  R2C_QLEN = 3
  Programs = {"ThreeStagePthreads"}
  ShortPairs = 1
  MAX_RETRY = 2
INVARIANT AllConsumedAtShutDown
CHECK_DEADLOCK FALSE
