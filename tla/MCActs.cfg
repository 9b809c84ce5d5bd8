SPECIFICATION Spec
CONSTANTS
  l1 = l1
  w1 = w1
  w2 = w2
  a1 = a1
  a2 = a2
  tool = tool
  alarm = alarm
  reply = reply
  MaxCalls = 2
  ChatCalls = {1}
  Loops = {l1}
  MaxEscalations = 1
  MaxApprovalFaults = 2
  Senders = {w1, w2}
  Addresses = {a1, a2}
  Mails = {tool, alarm, reply}
  Tools = {tool}
  Urgent = {alarm}
  Replies = {reply}
  Keys <- Kept
  Costs = {2}
  Gains = {0, 1}
  MaxPoints = 3
  MaxSilent = 1
  MaxEvents = 2
  MaxOutboundFaults = 1
  MaxControls = 1
  MaxLinks = 0
INVARIANT BarsBind
INVARIANT OneReservation
INVARIANT StrainCoversDebt
INVARIANT NothingFree
PROPERTY ImplementsConsent
PROPERTY CallsEnd
PROPERTY EscalationsEnd
CHECK_DEADLOCK FALSE
