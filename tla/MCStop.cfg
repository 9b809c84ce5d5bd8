SPECIFICATION OutboundSpec
CONSTANTS
  w1 = w1
  a1 = a1
  tool = tool
  Senders = {w1}
  Addresses = {a1}
  Mails = {tool}
  Tools = {tool}
  Urgent = {}
  Replies = {}
  Keys <- Kept
  Costs = {2}
  Gains = {0, 1}
  MaxPoints = 3
  MaxSilent = 1
  MaxEvents = 1
  MaxOutboundFaults = 0
  MaxControls = 1
  MaxLinks = 1
INVARIANT StopHolds
CHECK_DEADLOCK FALSE
