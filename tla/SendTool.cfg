CONSTANTS
  Msgs = {m1, m2}
  SelfFiling = {m2}
  MaxFaults = 1
  MaxRestarts = 1
  MaxCopies = 2
SPECIFICATION FairSpec
INVARIANT TypeOK
INVARIANT SavedIsFiled
PROPERTY FiledOnceAfterSending
PROPERTY HeldCopyLands
PROPERTY CancelReleases
CHECK_DEADLOCK FALSE
