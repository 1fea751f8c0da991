CONSTANTS
  Subs = {s1}
  Emails = {e1, e2}
  Codes = {1}
  Polls = {1, 2}
  Tasks = {t1}
  None = None
  MaxResets = 1
  MaxRestarts = 1
  MaxKvFailures = 0
  NetMayFail = TRUE
SPECIFICATION FairSpec
PROPERTY SignInCompletes
PROPERTY PollsEnd
