\* Both rules, one waiter with finite waits, requests that are refused included.
CONSTANTS
  Waiters = {w1, w2, w3}
  Releasers = {r}
  Nobody = nobody
  MaxCount = 2
  InitialCount = 1
  Units <- AnyUnits
  LongMax = 7
  Finite = {w1}
SPECIFICATION FairSpec
INVARIANTS TypeOK NoLostSignal
PROPERTIES SatisfiableReleased FirstComeFirstServed
