\* One semaphore used by two consumers with finite waits, a producer and the
\* handler, with both rules; or three processes that open and close semaphores
\* of two names in a table with two slots.
\* rand () == RAND_MAX asks for one unit more than the maximum.
CONSTANTS
  Waiters = {w1, w2}
  Releasers = {r1, h}
  Handler = h
  Nobody = nobody
  MaxCount = 2
  InitialCount = 1
  Units <- OneToTooMany
  LongMax = 7
  Finite = {w1, w2}
  MaxProduced = 3
  Openers = {o1, o2, o3}
  SemNames = {n1, n2}
  SYNCH_MAX_NUMBER = 3
  NoOpener = noOpener
  NoName = noName
SPECIFICATION SemaphoresSpec
INVARIANTS UnitsConserved NamesInOneSlot
\* The consumers may wait for ever, as TestMultiSem_exit shows.
CHECK_DEADLOCK FALSE
