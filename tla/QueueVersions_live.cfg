\* Every MaxWait is INFINITE.  Two threads on either side and two slots to fill,
\* so that two of them can wait, or be about to, while two messages come or go.
SPECIFICATION FairSpec
CONSTANTS
  Producers = {p1, p2}
  Consumers = {c1, c2}
  Destroyers = {}
  Msg = {m1}
  NoMsg = NoMsg
  NoThread = NoThread
  QSize = 3
  DWordMod = 16
  Versions = {"QueueObj", "QueueObj_Sig", "QueueObjPoll", "QueueObjCV",
              "QueueObjPthreads"}
  Finite = {}
  MaxWait = 6
  CV_TIMEOUT = 5
PROPERTY NoCallStuck
