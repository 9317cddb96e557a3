SPECIFICATION StoreSpec
CONSTANTS
  u1 = u1
  a1 = a1
  u2 = u2
  s1 = s1
  s2 = s2
  Absent = Absent
  Records <- MCRecords
  Width <- MCWidth
  Separated = {}
  Batches <- MCBatches
  Summaries <- MCSummaries
  MaxRecords = 4
  Exposed <- StoreSteps
INVARIANT
  InterruptedCompactionHarmless
