CONSTANTS
  Subs = {s1}
  Emails = {e1, e2}
  Codes = {1, 2}
  Polls = {1, 2}
  Tasks = {t1}
  None = None
  MaxResets = 0
  MaxRestarts = 1
  MaxKvFailures = 1
  NetMayFail = TRUE
SPECIFICATION MergeSpec
SYMMETRY Symmetry
VIEW View
INVARIANT TypeOK
INVARIANT RamBackedByPoll
INVARIANT TokensOfOwner
PROPERTY MergePreserves
