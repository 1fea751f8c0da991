CONSTANTS
  Subs = {s1}
  Emails = {e1}
  Codes = {1}
  Polls = {1}
  Tasks = {t1}
  None = None
  MaxResets = 0
  MaxRestarts = 0
  MaxKvFailures = 0
  NetMayFail = FALSE
SPECIFICATION Spec
INVARIANT PolledCodePersisted
