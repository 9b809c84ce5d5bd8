\* The first hop with two workers; in the second one envelope and its copy, for no,
\* one or two targets, with every fault once.
CONSTANTS
  m1 = m1
  m2 = m2
  t1 = t1
  t2 = t2
  n1 = n1
  w1 = w1
  w2 = w2
  Msgs = {m1}
  Targets = {t1, t2}
  RouteSets = {{}, {t1}, {t1, t2}}
  FetchSize = 2
  MaxAttempts = 2
  MayExpire = TRUE
  MaxArrivals = 2
  MaxCrashes = 1
  MaxDbErrors = 1
  MaxSendErrors = 1
  MaxLate = 1
SPECIFICATION MCSpec
INVARIANT CopiesCounted
PROPERTY DeliveredIsFinal
PROPERTY ImplementsHandover
PROPERTY OpenSettles
CHECK_DEADLOCK FALSE
