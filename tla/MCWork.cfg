SPECIFICATION Spec
CONSTANTS
  c1 = c1  w1 = w1
  q1 = q1
  t1 = t1  t2 = t2  t3 = t3
  Contents = {c1, c2}
  Sections = {s1, s2}
  JobIds = {j1, j2}
  Runs = {r1, r2}
  IngestWorkers = {w1, w2}
  Nobody = Nobody
  MaxAttempts = 2
  JobBatch = 2
  MaxIngestFaults = 2
  MaxIngestCrashes = 1
  MaxIngestLate = 1
  MaxIngestTrouble = 2
  Live = {q1, q2}
  Exports = {}
  Pages = 3
  Cap = 2
  BackfillIds = {b1, b2, b3}
  Importers = {i1, i2}
  NoOne = NoOne
  MaxTries = 2
  MaxBackfillFaults = 1
  MaxBackfillCrashes = 1
  MaxBackfillLate = 1
  MaxRequests = 1
  MaxAsks = 2
  MaxTrouble = 2
  Tasks = {t1, t2, t3}
  FirstPlan <- First
  Plans <- Later
  Poison = {t3}
  MaxRuns <- Capped
  RunLimit = 2
  Schedulers = {h1, h2}
  NoTask = NoTask
  MaxClock = 3
  MaxSchedFaults = 1
  MaxEdits = 2
  n1 = n1  d1 = d1  d2 = d2  p1 = p1  k1 = k1
  shell = shell  screen = screen
  Identities = {n1}
  Daemons = {d1, d2}
  Sessions = {e1, e2}
  Powers = {shell, screen}
  Offers = {{shell}, {shell, screen}}
  Pairings = {p1, p2}
  Invocations = {k1}
  Unset = Unset
  IdentityOf <- Mine
  MaxNodeTrouble = 1
INVARIANT WorkTypeOK
INVARIANT AnsweredOnce
INVARIANT PowersGranted
INVARIANT LiveSessionHolds
INVARIANT NoPageSkipped
INVARIANT AttemptsBounded
INVARIANT PersistedOnce
INVARIANT NamedIsRead
INVARIANT MessagePerRun
PROPERTY FinishedStays
PROPERTY JobsSettle
PROPERTY LiveRangesArrive
PROPERTY NoJobLingers
PROPERTY DueTasksRun
PROPERTY DaemonsServe
CHECK_DEADLOCK FALSE
