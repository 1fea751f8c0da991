CONSTANTS
  Subs = {s1, s2}
  Sessions = {x1, x2}
  Mailboxes = {imap, outlook}
  Parse <- MCParse
  OAuth2 <- MCOAuth2
  Forms <- MCForms
  Typed <- MCTyped
  Own <- MCOwn
  s1 = s1
  s2 = s2
  imap = imap
  outlook = outlook
  Deployments <- MCDeployments
  Outlook = {outlook}
  Arrays = {1, 2, 3, 4, 5, 6}
  Calls = {k1, k2}
  None = None
SPECIFICATION Spec
SYMMETRY Symmetry
VIEW View
INVARIANT TypeOK
INVARIANT SubjectServedOwn
INVARIANT SubjectResetForgets
INVARIANT ConfiguredHasCredentials
PROPERTY ResetIsOwn
