\* Two consumers that can both be between the guard and their wait.
SPECIFICATION FairSpec
CONSTANTS
  Producers = {p1, p2}
  Consumers = {c1, c2}
  Destroyers = {}
  Msg = {m1}
  NoMsg = NoMsg
  NoThread = NoThread
  QSize = 3
  DWordMod = 16
  Versions = {"QueueObjCS_Sig"}
  Finite = {}
  MaxWait = 6
  CV_TIMEOUT = 5
PROPERTY NoCallStuck
