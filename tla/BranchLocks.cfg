SPECIFICATION FairLocksSpec
CONSTANTS
  Threads = {r1, r2, w1}
  Workers = {w1}
  MaxConn = 2
  Branches = {1, 600}
  Located = {1}
  Elector = 600
  r1 = r1
  r2 = r2
  w1 = w1
INVARIANTS TypeOK SlotsAccounted NeverExhausted LocksTypeOK NoCircularWait
PROPERTIES KeepsPromise GuardLetGo
