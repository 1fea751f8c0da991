CONSTANTS
  Msgs = {m1}
  SelfFiling = {}
  MaxFaults = 0
  MaxRestarts = 0
  MaxCopies = 2
SPECIFICATION Spec
PROPERTY NeverSentAtOnce
CHECK_DEADLOCK FALSE
