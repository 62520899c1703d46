\* Two jobs, one with two recipients; two workers; refusals, handlers that throw, retries and a rolled-back tick.
SPECIFICATION FairSpec
CONSTANTS
  j1 = j1 j2 = j2 owner = owner admin = admin w1 = w1 w2 = w2
  Jobs = {j1, j2}
  Recipients = {owner, admin}
  To <- BothTold
  Steadfast = {j1}
  Lapsing = {j1}
  Workers = {w1, w2}
  NoWorker = NoWorker
  MaxAttempts = 1
  Batch = 1
  Retention = 2
  LastEnqueue = 0
  MaxTime = 3
  MaxAborts = 1
INVARIANTS OneCopyPerTick WorkingAddressReached
PROPERTIES ImplementsIdealDelivery EveryJobEnds
