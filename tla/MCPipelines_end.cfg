\* One pair whose two messages fill a block: the final message travels alone.
SPECIFICATION FairSpec
CONSTANTS
  MaxPairs = 1
  Goal = 2
  TBLOCK_SIZE = 2
  P2T_QLEN = 3
  T2R_QLEN = 2
  R2C_QLEN = 3
  Programs = {"ThreeStage"}
  ShortPairs = 1
  MAX_RETRY = 2
PROPERTY BossTerminates
CHECK_DEADLOCK FALSE
