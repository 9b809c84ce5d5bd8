SPECIFICATION BackfillSpec
CONSTANTS
  Live = {}
  Exports = {q1}
  Pages = 3
  Cap = 2
  BackfillIds = {b1, b2, b3}
  Importers = {i1}
  NoOne = NoOne
  MaxTries = 2
  MaxBackfillFaults = 0
  MaxBackfillCrashes = 0
  MaxBackfillLate = 0
  MaxRequests = 0
  MaxAsks = 1
  MaxTrouble = 0
PROPERTY ExportsArrive
CHECK_DEADLOCK FALSE
