\* Two kinds of message and two slots, so that an order shows; with
\* QueueObjCancel, where any thread may be cancelled at any time.
SPECIFICATION Spec
CONSTANTS
  Producers = {p1, p2}
  Consumers = {c1}
  Destroyers = {}
  Msg = {m1, m2}
  NoMsg = NoMsg
  NoThread = NoThread
  QSize = 3
  DWordMod = 16
  Versions = {"QueueObj", "QueueObj_Sig", "QueueObjCS_Sig", "QueueObjSig_noSOAW",
              "QueueObjPoll", "QueueObjCV", "QueueObjPthreads", "QueueObjCancel"}
  Finite = {p1, p2, c1}
  MaxWait = 6
  CV_TIMEOUT = 5
INVARIANT TimelyDecisionsHold
PROPERTY ImplementsFIFO
SYMMETRY Sym
\* Threads may block for ever on a guard that a cancelled thread has kept.
CHECK_DEADLOCK FALSE
