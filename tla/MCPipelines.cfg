\* Two pairs (one with short waits), queues that hold one or two messages.  The
\* six messages fill two blocks, the eight with the final ones not a third.
SPECIFICATION FairSpec
CONSTANTS
  MaxPairs = 2
  Goal = 3
  TBLOCK_SIZE = 3
  P2T_QLEN = 3
  T2R_QLEN = 2
  R2C_QLEN = 2
  Programs = {"ThreeStage", "ThreeStageSig_noSOAW", "ThreeStageCancel",
              "ThreeStagePthreads"}
  ShortPairs = 1
  MAX_RETRY = 2
INVARIANTS TypeOK EndToEndOrder NoDataLeftBehind FinishedConsumerHasRoom
PROPERTIES ConsumersFinish ShortWaitsTerminate RetriesTerminate
\* The program ends, or hangs as MCPipelines_end shows.
CHECK_DEADLOCK FALSE
