\* Two threads on either side, two slots to fill and one kind of message.
SPECIFICATION Spec
CONSTANTS
  Producers = {p1, p2}
  Consumers = {c1, c2}
  Destroyers = {d1}
  Msg = {m1}
  NoMsg = NoMsg
  NoThread = NoThread
  QSize = 3
  DWordMod = 16
  Versions = {"QueueObj", "QueueObj_Sig", "QueueObjCS_Sig", "QueueObjSig_noSOAW",
              "QueueObjPoll", "QueueObjCV", "QueueObjPthreads"}
  Finite = {p1, p2, c1, c2}
  MaxWait = 6
  CV_TIMEOUT = 5
INVARIANTS TypeOK TimelyDecisionsHold NoSignalLost NoLostWakeup
PROPERTY ImplementsFIFO
SYMMETRY Sym
\* Threads may block for ever on a guard that has been kept or a lost signal.
CHECK_DEADLOCK FALSE
