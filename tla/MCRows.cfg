\* One worker that dies once, adapters that come and go, a failing statement and a
\* failing publish; an operator and two agents, an edit of the section between any
\* two steps and a transaction that fails.  Both parts may come to rest for good: no
\* deadlock check.
CONSTANTS
  m1 = m1
  m2 = m2
  m3 = m3
  s1 = s1
  s2 = s2
  x1 = x1
  x2 = x2
  Msgs = {m1, m2, m3}
  WebNotes = {}
  Silent = {m2}
  Workers = {w1}
  AdapterStates = {TRUE, FALSE}
  BatchSize = 2
  MaxCrashes = 1
  MaxDbErrors = 1
  MaxBrokerErrors = 1
  Sections = {s1, s2}
  Records = {x1, x2}
  Files <- Exported
  Agents = {a1, a2}
  Operators = {o1}
  Nobody = Nobody
  MaxReplacements = 2
  MaxSelfEdits = 1
  MaxInterrupts = 1
SPECIFICATION MCSpec
INVARIANT ErasesKnownState
INVARIANT SnapshotsFit
INVARIANT PublishedIsVisible
PROPERTY VerdictsStand
PROPERTY ReplacementsEnd
PROPERTY OrderKept
PROPERTY QueuedSettles
CHECK_DEADLOCK FALSE
