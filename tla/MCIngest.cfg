SPECIFICATION IngestSpec
CONSTANTS
  Contents = {c1}
  Sections = {s1}
  JobIds = {j1}
  Runs = {r1}
  IngestWorkers = {w1}
  Nobody = Nobody
  MaxAttempts = 2
  JobBatch = 1
  MaxIngestFaults = 0
  MaxIngestCrashes = 1
  MaxIngestLate = 0
  MaxIngestTrouble = 1
INVARIANT CrashResumes
CHECK_DEADLOCK FALSE
