\* Each program with a few threads; see the README for the bounds.  No
\* symmetry, because of the liveness properties.
SPECIFICATION ProgramsSpec
CONSTANTS
  Chosen = {"simplePC", "eventPC", "multiPCav", "testTHB", "msg_emulation", "serverNP",
            "serverSK", "08-Queue", "09-Queue", "Handshake", "JobShell", "serverNPCP",
            "cciOV", "cciEX", "cciMT", "cciMT_VTP", "FileCopy", "sortMT", "compMP", "grepMT",
            "SendReceiveSKST", "SendReceiveSKHA", "SimpleService"}
  Numbers = {0, 1, 2, 3}
  \* simplePC.c, eventPC.c, multiPCav.c
  Producer = producer
  Consumers = {0, 1}
  Consumer = 1
  Nobody = nobody
  MaxMessages = 4
  \* testTHB.c
  ThbThreads = {0, 1, 2, 3}
  Closer = closer
  NoOwner = noOwner
  Unowned = unowned
  bThreshold = 3
  MAXIMUM_WAIT_OBJECTS = 3
  \* msg_emulation.c
  Senders = {0}
  Receivers = {1}
  Removers = {2}
  NoThread = noThread
  q_max = 1
  b_max = 5
  MQ_MAX_MESSAGE_SIZE = 2
  MQ_MAX_BYTES_IN_QUEUE = 5
  LONG = 1
  Types = {1, 2}
  Sizes = {0, 2}
  MsgTypes = {2}
  Buffers = {1, 2}
  Keys = {1}
  MaxBytes = 5
  \* serverNP.C, serverSK.c
  MAX_CLIENTS = 2
  SK_CLIENTS = 2
  \* 08-Queue, 09-Queue
  Writers = {2, 3}
  FirstWriter = 2
  WriterRequests = 1
  ClientRequests = 2
  SRWMaxElements = 1
  m_nMaxElements = 2
  QueueClients = {c1, c2}
  QueueServers = {s1}
  \* Handshake
  g_szServerShutdown = "shutdown"
  Texts = {"text", "shutdown"}
  Nothing = "nothing"
  \* JobShell
  Shells = {sh1, sh2}
  ProcessIds = {1, 2}
  MAX_JOBS_ALLOWED = 1
  NoShell = noShell
  \* serverNPCP.C
  MAX_CLIENTS_CP = 2
  MAX_SERVER_TH = 2
  MaxLines = 1
  Leavers = {0}
  \* cciOV.C, cciEX.C, cciMT.c, cciMT_VTP.c, FileCopy.cpp
  MAX_OVRLP = 2
  MaxRecords = 5
  \* sortMT.c, compMP.c, grepMT.c
  nRec = 4
  CrewSizes = {1, 2, 4}
  SortKeys = {1, 2}
  fileSize = 5
  blockSize = 2
  nThreads = 2
  MAX_MISMATCH = 2
  Files = 3
  \* SendReceiveSKST.c, SendReceiveSKHA.c
  Sockets = {1, 2}
  Lengths = {0, 3}
  MAX_MESSAGE_LEN = 5
  MaxSends = 2
INVARIANTS BarrierHolds NoLostBroadcast BusyProtectsWaiters NoUseAfterFree
INVARIANTS MessagesOnce CountsBoundedInEventPC ReadyIsAnnouncedInEventPC
INVARIANTS StatusCoversMessages SlotsTellThreads CountedElementsStored
INVARIANTS ResultOfRequest JobsFound OneOperationPerPipe
INVARIANTS FilesConverted SortedInTheEnd LowestMismatches ResultsReported
PROPERTIES WaitsAreServed StopsEnd
\* The programs end, or hang as StopsEnd says.
CHECK_DEADLOCK FALSE
