----------------------------- MODULE TokenFile -----------------------------
(***************************************************************************)
(* Outlook tokens of a single-user (stdio) server: tokens.json, its cache  *)
(* in the process, the tokens of the configured accounts and their refresh *)
(* (src/src/tools/helpers/oauth2.ts), beside the command line's auth and   *)
(* logout (auth-cli.ts), which are processes of their own.                 *)
(*                                                                         *)
(* A token is told by its refresh token.  A step runs from one await to    *)
(* the next; the synchronous file reads and writes of a process are one    *)
(* step.  One server runs at a time, with every mailbox configured.        *)
(***************************************************************************)
EXTENDS Naturals, FiniteSets

CONSTANTS Emails,
          Tokens,     \* refresh tokens Microsoft can issue (bound)
          Calls,      \* tool calls and polls awaiting something at once (bound)
          None,
          MaxFaults   \* bound on lost answers and failed writes

ASSUME FileBounds ==
  /\ None \notin Tokens
  /\ None \notin Emails
  /\ None \notin [Emails -> Tokens \cup {None}]
  /\ MaxFaults \in Nat

VARIABLES
  file,      \* tokens.json; None when it is missing or cannot be parsed
  up,        \* whether the server runs
  mem,       \* its cachedTokenStore
  acct,      \* account.oauth2 of each mailbox
  shown,     \* pendingAuths whose code has not expired
  call,      \* calls and background polls
  holder,    \* the mailbox a token was issued for
  accepted,  \* tokens Microsoft accepts
  faults,
  \* History, for the properties:
  lost,      \* mailboxes whose newest token was answered and not saved
  unseen,    \* mailboxes signed in by the command line that the cache has missed
  overtaken  \* mailboxes whose entry a late load took back

server == <<up, mem, acct, shown>>
history == <<lost, unseen, overtaken>>
vars == <<file, up, mem, acct, shown, call, holder, accepted, faults,
          lost, unseen, overtaken>>

Token == Tokens \cup {None}
Store == [Emails -> Token]
NoTokens == [e \in Emails |-> None]

\* reading, parsing: loadStoredTokens before and after readFile has read; asking:
\* requestDeviceCode in flight; polling: startBackgroundPoll; refreshing, answered:
\* refreshAccessToken before and after Microsoft has handled it.
Pc == {"idle", "reading", "parsing", "asking", "polling", "refreshing", "answered"}
Call == [pc : Pc, email : Emails \cup {None}, tok : Token, read : Store \cup {None}]
Idle == [pc |-> "idle", email |-> None, tok |-> None, read |-> None]

\* Every variable has its type, and a server that is down holds nothing.
TypeOK ==
  /\ file \in Store \cup {None}
  /\ up \in BOOLEAN
  /\ mem \in Store \cup {None}
  /\ acct \in Store
  /\ shown \subseteq Emails
  /\ call \in [Calls -> Call]
  /\ \A k \in Calls : call[k].pc # "idle" => up /\ call[k].email # None
  /\ \A k \in Calls : call[k].pc = "refreshing" => call[k].tok # None
  /\ ~up => mem = None /\ acct = NoTokens /\ shown = {}
  /\ holder \in [Tokens -> Emails \cup {None}]
  /\ accepted \subseteq Tokens
  /\ faults \in 0 .. MaxFaults
  /\ lost \subseteq Emails
  /\ unseen \subseteq Emails
  /\ overtaken \subseteq Emails

Init ==
  /\ file = None
  /\ up = FALSE
  /\ mem = None
  /\ acct = NoTokens
  /\ shown = {}
  /\ call = [k \in Calls |-> Idle]
  /\ holder = [t \in Tokens |-> None]
  /\ accepted = {}
  /\ faults = 0
  /\ lost = {}
  /\ unseen = {}
  /\ overtaken = {}

-----------------------------------------------------------------------------

Entry(s, e) == IF s = None THEN None ELSE s[e]

\* A new token of a mailbox.
Issued(t, e) ==
  /\ holder[t] = None
  /\ holder' = [holder EXCEPT ![t] = e]

Fault ==
  /\ faults < MaxFaults
  /\ faults' = faults + 1

\* Mutant: the file is not read when nothing is cached.
MergedBlind(e, t) ==
  [(IF mem # None THEN mem ELSE NoTokens) EXCEPT ![e] = t]

\* saveTokensToFile: the cached store, else the file's, with the token put in.
Merged(e, t) ==
  [(IF mem # None THEN mem ELSE IF file # None THEN file ELSE NoTokens)
     EXCEPT ![e] = t]

\* Mutant: the store that was written is not cached.
SaveToFileUncached(e, t, ok) ==
  /\ mem' = mem
  /\ IF ok THEN file' = Merged(e, t) /\ UNCHANGED <<faults, lost>>
           ELSE UNCHANGED file /\ Fault /\ lost' = lost \cup {e}

\* It is cached before it is written; the write may throw.
SaveToFile(e, t, ok) ==
  /\ mem' = Merged(e, t)
  /\ IF ok THEN file' = Merged(e, t) /\ UNCHANGED <<faults, lost>>
           ELSE UNCHANGED file /\ Fault /\ lost' = lost \cup {e}

End(k) == call' = [call EXCEPT ![k] = Idle]

-----------------------------------------------------------------------------
(* The server's process. *)

\* loadConfig: the accounts are given the tokens of the file.
Start ==
  /\ ~up
  /\ up' = TRUE
  /\ mem' = file
  /\ acct' = IF file = None THEN NoTokens ELSE file
  /\ UNCHANGED <<file, shown, call, holder, accepted, faults, history>>

Stop ==
  /\ up
  /\ up' = FALSE
  /\ mem' = None
  /\ acct' = NoTokens
  /\ shown' = {}
  /\ call' = [k \in Calls |-> Idle]
  /\ lost' = lost \cup {call[k].email : k \in {j \in Calls : call[j].pc = "answered"}}
  /\ unseen' = {}
  /\ UNCHANGED <<file, holder, accepted, faults, overtaken>>

\* config(cache_clear): the file will be read again.
CacheClear ==
  /\ up
  /\ mem' = None
  /\ unseen' = {}
  /\ UNCHANGED <<file, up, acct, shown, call, holder, accepted, faults, lost, overtaken>>

-----------------------------------------------------------------------------
(* ensureValidToken for an account without tokens. *)

\* The cache answers: the account is given its token.
LoadCached(e) ==
  /\ up
  /\ acct[e] = None
  /\ Entry(mem, e) # None
  /\ acct' = [acct EXCEPT ![e] = mem[e]]
  /\ UNCHANGED <<file, up, mem, shown, call, holder, accepted, faults, history>>

\* The cache has none, and no code is shown yet: one is asked for.
AskCached(k, e) ==
  /\ up
  /\ call[k].pc = "idle"
  /\ acct[e] = None
  /\ mem # None
  /\ mem[e] = None
  /\ e \notin shown
  /\ call' = [call EXCEPT ![k] = [Idle EXCEPT !.pc = "asking", !.email = e]]
  /\ UNCHANGED <<file, server, holder, accepted, faults, history>>

\* Nothing is cached: the file is read.
StartLoad(k, e) ==
  /\ up
  /\ call[k].pc = "idle"
  /\ acct[e] = None
  /\ mem = None
  /\ call' = [call EXCEPT ![k] = [Idle EXCEPT !.pc = "reading", !.email = e]]
  /\ UNCHANGED <<file, server, holder, accepted, faults, history>>

ReadFile(k) ==
  /\ call[k].pc = "reading"
  /\ call' = [call EXCEPT ![k].pc = "parsing", ![k].read = file]
  /\ UNCHANGED <<file, server, holder, accepted, faults, history>>

\* What a load that resumes late takes back: entries of the cache (of the file, when
\* nothing is cached) that are not as it read them, where it replaces them; and the
\* token its own account could have had from there.
TakenBack(k) ==
  LET r == call[k].read
      now == IF mem # None THEN mem ELSE file
  IN
  {e \in Emails : r # None /\ Entry(now, e) # r[e]}
    \cup {e \in {call[k].email} : Entry(now, e) \notin {None, Entry(r, e)}}

\* Mutant: the entry is cached in place of the store.
FinishLoadEntry(k, ask) ==
  LET e == call[k].email
      r == call[k].read
  IN
  /\ call[k].pc = "parsing"
  /\ mem' = IF r # None THEN r[e] ELSE mem
  /\ acct' = IF Entry(r, e) # None THEN [acct EXCEPT ![e] = r[e]] ELSE acct
  /\ ask => acct'[e] = None /\ e \notin shown
  /\ call' = [call EXCEPT ![k] = IF ask THEN [Idle EXCEPT !.pc = "asking", !.email = e]
                                        ELSE Idle]
  /\ overtaken' = overtaken \cup TakenBack(k)
  /\ UNCHANGED <<file, up, shown, holder, accepted, faults, lost, unseen>>

\* loadStoredTokens resumes with what it read; if that has no token for the account,
\* and it has got none meanwhile, the call may ask for a code.
FinishLoad(k, ask) ==
  LET e == call[k].email
      r == call[k].read
  IN
  /\ call[k].pc = "parsing"
  /\ mem' = IF r # None THEN r ELSE mem
  /\ acct' = IF Entry(r, e) # None THEN [acct EXCEPT ![e] = r[e]] ELSE acct
  /\ ask => acct'[e] = None /\ e \notin shown
  /\ call' = [call EXCEPT ![k] = IF ask THEN [Idle EXCEPT !.pc = "asking", !.email = e]
                                        ELSE Idle]
  /\ overtaken' = overtaken \cup TakenBack(k)
  /\ UNCHANGED <<file, up, shown, holder, accepted, faults, lost, unseen>>

\* The device code is there: it is shown, and polled for in the background.
CodeIssued(k) ==
  /\ call[k].pc = "asking"
  /\ shown' = shown \cup {call[k].email}
  /\ call' = [call EXCEPT ![k].pc = "polling"]
  /\ UNCHANGED <<file, up, mem, acct, holder, accepted, faults, history>>

\* A shown code expires, its poll perhaps still asleep: another may be asked for.
Lapse(e) ==
  /\ e \in shown
  /\ shown' = shown \ {e}
  /\ UNCHANGED <<file, up, mem, acct, call, holder, accepted, faults, history>>

\* The user has approved: the token is saved; a retry will find it.
PollGranted(k, t, ok) ==
  LET e == call[k].email IN
  /\ call[k].pc = "polling"
  /\ Issued(t, e)
  /\ accepted' = accepted \cup {t}
  /\ SaveToFile(e, t, ok)
  /\ shown' = shown \ {e}
  /\ End(k)
  /\ UNCHANGED <<up, acct, unseen, overtaken>>

\* Declined, expired, or a request that throws.
GiveUp(k) ==
  /\ call[k].pc \in {"asking", "polling"}
  /\ shown' = IF call[k].pc = "polling" THEN shown \ {call[k].email} ELSE shown
  /\ End(k)
  /\ UNCHANGED <<file, up, mem, acct, holder, accepted, faults, history>>

-----------------------------------------------------------------------------
(* ensureValidToken for an account whose access token has expired. *)

StartRefresh(k, e) ==
  /\ call[k].pc = "idle"
  /\ acct[e] # None
  /\ call' = [call EXCEPT ![k] = [Idle EXCEPT
                !.pc = "refreshing", !.email = e, !.tok = acct[e]]]
  /\ UNCHANGED <<file, server, holder, accepted, faults, history>>

\* Microsoft answers, with a new refresh token or without; it may revoke the old.
Rotated(k, t, revoke) ==
  /\ call[k].pc = "refreshing"
  /\ call[k].tok \in accepted
  /\ Issued(t, call[k].email)
  /\ accepted' = (IF revoke THEN accepted \ {call[k].tok} ELSE accepted) \cup {t}
  /\ call' = [call EXCEPT ![k].pc = "answered", ![k].tok = t]
  /\ UNCHANGED <<file, server, faults, history>>

Renewed(k) ==
  /\ call[k].pc = "refreshing"
  /\ call[k].tok \in accepted
  /\ call' = [call EXCEPT ![k].pc = "answered", ![k].tok = None]
  /\ UNCHANGED <<file, server, holder, accepted, faults, history>>

\* OAUTH_REFRESH_FAILED.
Refused(k) ==
  /\ call[k].pc = "refreshing"
  /\ call[k].tok \notin accepted
  /\ End(k)
  /\ UNCHANGED <<file, server, holder, accepted, faults, history>>

\* Mutant: the refresh token of the answer is not taken over.
FinishRefreshOld(k, ok) ==
  LET e == call[k].email IN
  /\ call[k].pc = "answered"
  /\ SaveToFile(e, acct[e], ok)
  /\ End(k)
  /\ UNCHANGED <<up, acct, shown, holder, accepted, unseen, overtaken>>

\* account.oauth2 is updated in place, and saved.
FinishRefresh(k, ok) ==
  LET e == call[k].email
      t == IF call[k].tok # None THEN call[k].tok ELSE acct[e]
  IN
  /\ call[k].pc = "answered"
  /\ acct' = [acct EXCEPT ![e] = t]
  /\ SaveToFile(e, t, ok)
  /\ End(k)
  /\ UNCHANGED <<up, shown, holder, accepted, unseen, overtaken>>

\* The answer does not arrive.
RefreshThrows(k) ==
  /\ call[k].pc \in {"refreshing", "answered"}
  /\ Fault
  /\ lost' = IF call[k].pc = "answered" THEN lost \cup {call[k].email} ELSE lost
  /\ End(k)
  /\ UNCHANGED <<file, server, holder, accepted, unseen, overtaken>>

-----------------------------------------------------------------------------
(* The command line: deviceCodeAuth and deleteStoredTokens. *)

Login(e, t) ==
  /\ Issued(t, e)
  /\ accepted' = accepted \cup {t}
  /\ file' = [(IF file # None THEN file ELSE NoTokens) EXCEPT ![e] = t]
  /\ unseen' = IF mem # None THEN unseen \cup {e} ELSE unseen
  /\ UNCHANGED <<server, call, faults, lost, overtaken>>

Logout(E) ==
  /\ file # None
  /\ \E e \in E : file[e] # None
  /\ file' = [e \in Emails |-> IF e \in E THEN None ELSE file[e]]
  /\ UNCHANGED <<server, call, holder, accepted, faults, history>>

-----------------------------------------------------------------------------

CallStep(k) ==
  \/ \E e \in Emails : AskCached(k, e) \/ StartLoad(k, e) \/ StartRefresh(k, e)
  \/ ReadFile(k)
  \/ \E ask \in BOOLEAN : FinishLoad(k, ask)
  \/ CodeIssued(k)
  \/ \E t \in Tokens, ok \in BOOLEAN : PollGranted(k, t, ok)
  \/ GiveUp(k)
  \/ \E t \in Tokens, revoke \in BOOLEAN : Rotated(k, t, revoke)
  \/ Renewed(k)
  \/ Refused(k)
  \/ \E ok \in BOOLEAN : FinishRefresh(k, ok)
  \/ RefreshThrows(k)

\* One mailbox is logged out, or all are.
CommandLine ==
  \/ \E e \in Emails, t \in Tokens : Login(e, t)
  \/ \E E \in {{e} : e \in Emails} \cup {Emails} : Logout(E)

Next ==
  \/ Start
  \/ Stop
  \/ CacheClear
  \/ \E e \in Emails : LoadCached(e) \/ Lapse(e)
  \/ \E k \in Calls : CallStep(k)
  \/ CommandLine

Spec == Init /\ [][Next]_vars

-----------------------------------------------------------------------------

\* A token is alive while Microsoft accepts it, or a call is bringing back the one
\* that replaces it.
Alive(e, t) ==
  \/ t \in accepted
  \/ \E k \in Calls : /\ call[k].pc = "answered"
                      /\ call[k].email = e
                      /\ call[k].tok \in accepted
  \/ e \in lost \cup overtaken

\* "Refreshed tokens are persisted and account.oauth2 is updated in place"
\* (ensureValidToken): the token an account would refresh with, and the one a
\* restart would read, is one that Microsoft still accepts, though each refresh
\* may revoke its predecessor, calls refresh side by side, and polls, logins and
\* logouts write the same file.  (Not once an answer was lost, a write failed, or
\* a load overtaken by another took back what it had cached.)
RefreshTokenLives ==
  \A e \in Emails :
    /\ acct[e] # None => Alive(e, acct[e])
    /\ Entry(file, e) # None => Alive(e, file[e])

\* A mailbox leaves tokens.json by a logout only, whatever other mailboxes are saved,
\* unless the command line signed it in beside a server that had cached the file, or
\* a late load took it back: saveTokensToFile writes the whole cached store.
OnlyLogoutForgets ==
  [][\A e \in Emails : Entry(file, e) # None /\ Entry(file', e) = None =>
       \/ e \in unseen \cup overtaken
       \/ \E E \in SUBSET Emails : Logout(E)]_vars

\* "On a later retry, the function picks up tokens saved by that poll"
\* (ensureValidToken): a code is asked for only while tokens.json has no token of
\* the mailbox, with the same exceptions.
AsksUnsignedOnly ==
  [][\A k \in Calls : call[k].pc # "asking" /\ call'[k].pc = "asking" =>
       LET e == call'[k].email IN
       Entry(file, e) = None \/ e \in unseen \cup overtaken']_vars

=============================================================================
