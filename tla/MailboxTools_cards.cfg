CONSTANTS
  Discovered <- MCDiscovered
  Outlook <- MCOutlook
  Id <- MCId
  Dotted <- MCDotted
  Number <- MCNumber
  Lower <- MCLower
  SmtpName <- MCSmtpName
  Cards <- MCCards
  Tails <- MCTails
  Forms <- MisreadForms
  Saved <- First
  Login <- MCLogin
  Calls = {c1}
  Requests <- MCRequests
  Within <- MCWithin
  Msgs = {"m1", "m2"}
  MailAtStart <- MCMail
  Listings <- MCListings
  Provider <- MCProvider
  ArchiveWords <- MCArchiveWords
  None = None
  MaxForms = 1
  MaxClears = 1
SPECIFICATION Spec
PROPERTY CardsServed
CHECK_DEADLOCK FALSE
