CONSTANTS
  big = big
  small = small
  Accounts <- AccountsMC
  Limit = 2
  Window = 2
  MaxUid <- MaxUidMC
  MaxChanges = 1
  MaxFaults = 1
SPECIFICATION FairSpec
INVARIANT TypeOK
INVARIANT AnswersNewest
PROPERTY OnlyHurtLeftOut
PROPERTY SearchAnswers
