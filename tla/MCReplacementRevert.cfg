\* One replacement is taken back while the section is edited once.
CONSTANTS
  m1 = m1
  m2 = m2
  m3 = m3
  s1 = s1
  s2 = s2
  x1 = x1
  x2 = x2
  Msgs = {m1, m2, m3}
  WebNotes = {}
  Silent = {m2}
  Workers = {w1}
  AdapterStates = {TRUE, FALSE}
  BatchSize = 2
  MaxCrashes = 1
  MaxDbErrors = 1
  MaxBrokerErrors = 1
  Sections = {s1, s2}
  Records = {x1, x2}
  Files <- Exported
  Agents = {a1, a2}
  Operators = {o1}
  Nobody = Nobody
  MaxReplacements = 2
  MaxSelfEdits = 1
  MaxInterrupts = 1
SPECIFICATION SelfSpec
INVARIANT NewerStateKept
CHECK_DEADLOCK FALSE
