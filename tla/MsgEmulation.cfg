\* One thread for each kind of call, and one queue.
SPECIFICATION Spec
CONSTANTS
  Senders = {s1}
  Receivers = {r1}
  Removers = {d1}
  NoThread = noThread
  q_max = 1
  b_max = 6
  MQ_MAX_MESSAGE_SIZE = 2
  MQ_MAX_BYTES_IN_QUEUE = 5
  LONG = 1
  Types = {1, 2}
  Sizes = {0, 2}
  MsgTypes = {0, 2}
  Buffers = {1, 2}
  Keys = {1}
  MaxBytes = 6
INVARIANT NobodyWaitsOnRemoved
\* All threads may wait.
CHECK_DEADLOCK FALSE
