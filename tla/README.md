# better-email-mcp in TLA+

A model of the parts of better-email-mcp whose correctness depends on order,
failure and concurrency: the Outlook device-code sign-in, the per-subject
credential store, the send tool with its Sent-folder copies and webhook, the
search over mailboxes that change meanwhile, the tools that act on a mailbox
with their folder caches, the string the credentials are kept in, the token file
of the stdio mode with its refreshes, and the credentials of the HTTP server from
the form to the sessions. TLC checks every module on
small instances; TLAPS proves the invariants for every value of the constants.
Paths below are relative to the repository root (its TypeScript is in `src/`).

## 1. The system

An MCP server (Node, one event loop) that gives a language model access to mail
over IMAP, SMTP, Microsoft OAuth and Resend. It runs in two modes: *stdio*, for
one user with credentials from the environment, and *HTTP*, for many users
("subs", JWT subjects), in a container behind a Cloudflare worker that sleeps
when idle and is recreated with an empty memory.

| Component | State it keeps | Operations | What is hard | What makes it correct |
|---|---|---|---|---|
| **Outlook sign-in** `helpers/oauth2.ts` | `pendingAuths` (RAM, per email); `pendingDeviceCode` and `outlookTokens` in the blob of a sub; detached polls | form submission, `ensureValidToken`, `initiateOutlookDeviceCode`, `startBackgroundPoll`, `saveTokens`, `persist/load/clearPendingDeviceCode` | polls run detached for minutes beside resets, resubmissions and other sign-ins; three read-modify-writes of one blob; container sleep; a code granted once | tokens end under the sub and mailbox that asked; a shown code is polled for; an approval is not lost; one flow does not overwrite another's data, as far as that holds (section 3); polls end |
| **Credential store** `auth/cred-store.ts`, `worker.ts` (`kvOutbound`) | cache in RAM, one blob per sub in Workers KV | `save`, `load`, `clear` | cache set before the PUT, cold loads that overlap writes, PUTs that fail or overtake each other | isolation of subs, write-through when settled |
| **Send tool** `composite/send.ts`, `smtp-client.ts`, `resend-client.ts` | none of its own | `new`, `reply`, `forward`, `cancel_scheduled`, `get_email_status` | two transports, providers that file by themselves, lost answers, best-effort filing, cancel racing release | at most one Sent copy and only of what was sent; the answer's `saved_to_sent` is true |
| **Resend webhook** `resend-webhook.ts` | `pendingSentAppends` (RAM) | `email.sent`, `email.bounced`, `email.complained` | at-least-once, unordered delivery; restart loses the map | held copy is filed once or released |
| **Mail search** `imap-client.ts` (`searchEmails`) | none between calls | fan-out, ESEARCH PARTIAL, UID windows, fetch, summaries | mailbox changes between requests; one account failing; window arithmetic | the newest matches of every healthy account, always an answer |
| **Mailbox tools** `composite/messages.ts`, `folders.ts`, `attachments.ts`, `imap-client.ts` | Sent and archive folder caches (promises, per account ID) | read, flags, move, archive, trash, folder status, attachments, append of a Sent copy, `cache_clear` | calls share a listing that may fail or be overtaken by a clearing; the account is found by a partial address; a new form while a call runs | messages change only in the mailbox that was meant; no folder from before a clearing; every call is answered |
| Token refresh, token file `oauth2.ts` | `tokens.json`, `cachedTokenStore`, account objects mutated in place | `refreshAccessToken`, `loadStoredTokens`, `saveTokensToFile`, `deleteStoredTokens`, CLI login | concurrent refreshes with rotation, two processes on one file, stale cache | a usable refresh token survives |
| Credential lifecycle `credential-state.ts`, `registry.ts`, `composite/config.ts`, `transports/http.ts` | process-wide setup state, `EMAIL_CREDENTIALS`, `config.enc`, account arrays of the cache, the sessions and the startup closure | `resolveCredentialState`, form, `setup_*`, guard of `CallTool`, `authScope`, `serverFactory` | state per process, accounts per sub; arrays shared and emptied in place; every step awaits something | a sub is served its own mailboxes, a reset hits its own sub and is not undone, configured means a string to reload |
| **Credential strings** `helpers/config.ts`, `relay-setup.ts` | none | `assembleEmailCredentials`, `parseCredentials`, `resolveAccounts` | one colon-separated string whose password may hold colons, hosts, ports and security words | what the form wrote is read back as it was typed |
| Edge gate `worker.ts` (`fetch`) | none | checks before the container is reached | - | - |
| Start-up, formatting, schema, scripts | none | - | - | - |

How they interact. The credential form and the sign-in write the *same* blob of
the store (`setOutlookTokenStore` injects the form's own store); a tool call
loads that blob before its session starts (`authScope`), which warms the cache
and gives the session a snapshot of the accounts; detached polls write to it
long after the request that started them; `setup_reset` clears it. The send tool
hands the bytes of a scheduled message to the webhook through
`pendingSentAppends`, and files its copies through the Sent-folder cache that
`config(cache_clear)` empties. The form's cards become one string, and the accounts
every tool resolves are what that string is read back to. Everything shares one event loop, so the atomic step is
the code between two awaits on I/O.

`PROJECT.json` lists every component with its status and every hazard at its line.

## 2. Modules

| Module | Models | Uses |
|---|---|---|
| `DeviceCode` | sign-in: form, tool call, device code, persisted session, polls, reset, restart | |
| `DeviceCodeMerges` | `DeviceCode` with a history variable: what merges preserve, and when | `DeviceCode` |
| `DeviceCode_proofs` | the types, `RamBackedByPoll`, `TokensOfOwner`, `MergePreserves` | `DeviceCodeMerges` |
| `CredStore` | one cache in front of the key-value store, request by request | |
| `CredStore_proofs` | its types, `WrittenIsDurable`, `SubsIsolated` | `CredStore` |
| `SentLedger` | abstract: what is promised of the Sent folder | |
| `SendTool` | send tool, both transports, cancel, webhook; `Ledger == INSTANCE SentLedger` | `SentLedger` |
| `SendTool_proofs` | its types, `SavedIsFiled`, that it implements `SentLedger` | `SendTool` |
| `MailSearch` | `searchEmails` on changing mailboxes | |
| `MailSearch_proofs` | its types, `AnswersNewest`, `OnlyHurtLeftOut` | `MailSearch` |
| `CredentialString` | the string of credentials: `assembleEmailCredentials`, `parseCredentials`, functions without state | |
| `FormPromise` | what the form promises of each card, stated from its fields alone; the cards (`Misread`) and passwords (`MisreadTails`) that break it | `CredentialString` |
| `FormPromise_proofs` | what `split`, `join` and `trim` do to texts of any length; passwords, cards and whole forms are read back | `FormPromise` |
| `FolderCache` | abstract: what is promised of a cache of special folders | |
| `MailboxTools` | the form, account resolution, sessions, folder caches, the requests that change messages; `Promise == INSTANCE FolderCache WITH ...` | `FormPromise`, `FolderCache` |
| `MailboxTools_proofs` | its types, `FolderSinceClear`, `OnlyMeantMailbox`, `CardsReadBack`, `TailsReadBack`, that the caches implement `FolderCache` | `MailboxTools`, `FormPromise_proofs` |
| `TokenFile` | stdio mode: `tokens.json`, its cache, refresh with rotation, polls, CLI `auth` and `logout` | |
| `TokenFile_proofs` | its types, `RefreshTokenLives`, `OnlyLogoutForgets`, `AsksUnsignedOnly` | `TokenFile` |
| `CredentialLifecycle` | HTTP mode: setup state, environment, `config.enc`, account arrays; form, tool guard, reset, `setup_complete`, restart | |
| `CredentialLifecycle_proofs` | its types, `SubjectServedOwn`, `SubjectResetForgets`, `ResetIsOwn`, `ConfiguredHasCredentials` | `CredentialLifecycle` |
| `*MC` | constants and symmetry for TLC | |

### State and actions against the code

**DeviceCode.** `kv`/`cache` are the durable and cached blob of a sub (`accounts`,
`tokens`, `pending`); `ram` is `pendingAuths`; `poll[p]` an instance of
`startBackgroundPoll`; `task[t]` a form submission or tool call that awaits
something; `listed` the accounts in open session snapshots. `owner`, `status` and
`lapsed` are Microsoft's side of a code. A token is identified with the code it was granted for.
A poll is at most one per slot of `Polls`, a call one per `Tasks`.

- *The store.* A save sets the cache (`Cache`) and sends a PUT, which is carried out, or fails, in a later step
  (`Write`): a PUT that fails may have been carried out all the same. A load that the cache answers
  (`Warm`) resumes in the same turn of the event loop, so the merge follows at once; one that the cache does not
  answer sends a GET, whose answer is that of the moment it was sent, or nothing when it fails (`Read`), and is merged
  in a later step. Between the two, and between cache and PUT, every other flow may step.
  A blob without an accounts array is not trusted by a load (`Trusted`), and a merge into nothing makes one
  (`WithToken`, as `saveTokens` does; `persistPendingDeviceCode` puts an empty array in).
- *The form.* `FormSubmit` is `onCredentialsSaved` up to the PUT, `FormStored` its answer, and
  `FormReuse`/`FormRequest` go on in `initiateOutlookDeviceCode`.
- *Tool calls.* `StartLoad` and `Loaded` are `authScope`; `ResumePoll`, `RequestCode` and `RequestUnread`
  the branches of `ensureValidToken` that change state; `CodeIssued` is all that follows the
  answer of `requestDeviceCode`, `Persist` and `Persisted` the rest of `persistPendingDeviceCode`.
- *Polls.* The `Poll*` actions are `startBackgroundPoll` with `saveTokens` (`PollSave` or `PollReadKv`, `PollMerge`;
  `PollStored`) and `clearPendingDeviceCode` (`PollDone`, `PollClear`, `PollDropped`) inside it. Microsoft
  answers with the tokens once (`Granted`): when that answer is lost (`GrantLost`, the status `lost`) nobody gets
  them, and later polls of the code are refused as for a redeemed one.
- *Reset and restart.* `StartReset` drops the cached blob, `ResetDone` is the DELETE and the emptying of the session's
  accounts. A restart drops everything but KV; a request that was in flight has been carried out before it or never is.

**DeviceCodeMerges** adds `raced`, the subs whose requests to the store overlapped or failed and that have not
settled since (`Settled`: nothing in flight, and the cache empty or equal to KV).

**CredStore.** `call[c]` is a request on its way to the store: `put` (save, or
clear with `None`), `get`, and `fill`, a load whose answer has come. `StartWrite`
sets the cache before the request goes out, as `save` and `clear` do; `Write`,
`WriteFails` and `Read` carry the requests out in any order; `Fill` validates.
`last`, `saved` and `raced` are history. A request carried out after its caller
was told that it failed, or after the container died, and the eventual
consistency of Workers KV itself, are not modelled.

**SendTool.** `call[m]` is the one call that sends `m`, `held` the keys of
`pendingSentAppends`, `filing` the webhook handlers between
`takePendingSentAppend` and the end of the append, `cancel` a `cancel_scheduled`
call. `mail`, `events` and `bounced` are Resend's and Svix's side, `copies` the
Sent folder. Every request may be carried out and answered, carried out and its
answer lost, or fail. Replies and forwards differ in wording alone and are one
kind, "answer". `get_email_status` reads only.

**MailSearch.** `find[a]` is the search of one account: `top` is `uidNext - 1` as
it was when the mailbox was selected, `high` the upper end of the next window,
`selected` is `selectedUids`. `Arrive`, `Match`, `Unmatch` and `Expunge` are the
other clients; they step between any two requests. The query is abstracted to
the set `hits` of messages that match it now. The release of the lock, the logout
and the fetch are one step; a snippet that cannot be made is a `Fail`.

**CredentialString.** A string is a sequence of words, of which `":"`, `","` and `" "`
stand for themselves; a word is told apart only as far as the code does (digits, a
dot, a security word, an address). `split`, `join` and `trim` are JavaScript's; every other
operator has the name of the function it translates. Tables and computations on the letters of a word
(`PROVIDER_MAP`, `emailToId`, `isOutlookDomain`, `toLowerCase`) are constant functions.

**FormPromise** states the reading a second time, from the fields of a card and not from the
string: `Keeps` is what it means that an account is the one typed on a card,
`Documented` which cards the documentation says can be used, and `Expressible` which of
those the string can carry. The difference of the two is named there, case by case, and is the
subject of `form_cards`. `Typable` are the cards whose fields hold what their labels ask for: one
address, host names (or a host with its port), ports, a security word, and as the password any words at all.

**MailboxTools.** `accounts` is the list the tools are called with; `Submit` is
`onCredentialsSaved` from the findings on unusable cards to the trial of the logins, and takes
the list over if all go well. `cache` stands for `sentFolderCache` and
`archiveFolderCache`: a cell names the call whose promise it holds, or the folder the promise has come to.
A call is `Refuse`d, or resolves its account (`meant`) and goes on in `StartPlain`,
`StartKnown` (the folder is in the cache), `StartWaiting` (it awaits the promise of
another call) or `StartListing` (its own promise goes into the cache before the listing is asked).
`Connect`, `ConnectFails`, `List`, `Act`, `WorkFails` and `Finish` are `withConnection`
around one request, which a server may carry out, refuse, fail, or carry out without its answer arriving;
`Settle` is the promise resolving, for the call that listed and all that await it.
`since`, `asked` and `asof` are history: when a call looked in the cache, and when the listing was
asked whose folder it has. `Rearrange` is another client of the mailbox.
A message stands for its UID in its folder. The search is `MailSearch`, the sending is `SendTool`, of
which `"file"` is the append of the copy; tokens are `TokenFile` and `DeviceCode`.

**TokenFile.** `file` is `tokens.json`, `mem` is `cachedTokenStore`, `acct` the
`oauth2` of the configured accounts, `shown` the codes of `pendingAuths` that have not
expired, and `call[k]` a tool call or a background poll between two awaits. A token is told by its refresh
token; access tokens and their expiry only decide whether a call refreshes,
which is left open (`StartRefresh` may happen at any time). `holder`
and `accepted` are Microsoft's side. `loadStoredTokens` is split at its one await
on the file (`StartLoad`, `ReadFile`, `FinishLoad`), `ensureValidToken` also at
`requestDeviceCode` and at `refreshAccessToken`; an answer that has been given
(`Rotated`, `Renewed`) is taken over later (`FinishRefresh`). `saveTokensToFile` is
synchronous and one step, of which the write may fail after the cache was set.
`Login` and `Logout` are other processes: they see the file and leave `mem` alone.
`Start` is `loadConfig`, whose reads are one step; `CacheClear` is `config(cache_clear)`. Tokens are assumed to come with
a refresh token (`offline_access` is among the scopes asked for). Not modelled:
several servers on one file, a write cut off in the middle, tokens that lapse or
are revoked for reasons other than rotation, and `setup_reset`, after which the
accounts are loaded anew.

**CredentialLifecycle.** `multi` says whether the deployment has subjects, or is run with
`MCP_AUTH_DISABLE` for one user; it is chosen at first and kept. `state` is that
of `credential-state.ts`, `env` is `EMAIL_CREDENTIALS`, `config` is `config.enc`,
`tokens` is `tokens.json`. A credential string is the set of its entries, and `Parse` says of each entry which
mailbox it is read as, or that it is read as none; `credential-state.ts` asks only whether there is a string
(`Found`), while the form, the start and the reload parse it (`Parsed`). `Saved` is what `resolveCredentialState` finds
on disk: the string of `config.enc`, or an entry `email:oauth2` per mailbox of `tokens.json`, which of a domain that
`OUTLOOK_EXTRA_DOMAINS` adds is read as none. The volume starts empty. `cached[s]`,
`current` and `session[x].array` are references to arrays, whose `content` is kept
apart: `authScope` hands out the array of the cache (`OpenCached`) or of a
freshly parsed blob that it caches (`Opened`), `serverFactory` the startup array
when there is no scope (`OpenAnonymous`), and `setup_reset` empties the array of its session
in place (`ResetDone`). A form is `SubmitAs` or `SubmitAnonymous` (parsed, and the logins of
the mailboxes with a password tested: `Passes` asks nothing of an Outlook mailbox, which is stored before
anyone signs in to it), `Stored` or `StoreFails`, then `Accept`, which goes on in
`SignIn`, `Asked`, `Granted`. The guard of `CallTool` is `StartReload`: `loadConfig` reads
the environment before its await, and `Reloaded` assigns the list after it.
`setup_reset` is `StartReset`, `Cleared`, `ResetDone`; `setup_complete` is
`CompleteAtOnce`, or `StartComplete`, `Resolve`, `Resolved` around the files. Steps that only
answer (setup instructions, `status`, tool calls on a filled list) change nothing.
In `Granted`, `filed` is false when the form's context had a subject although
the deployment has none: the token then goes to that subject's blob. The races of
loads and writes of one blob are left to `CredStore`, and tokens inside a
subject's blob to `DeviceCode`.

## 3. What TLC checks

| Run | Question | Properties |
|---|---|---|
| `device_code` | safety of two sign-ins of one sub beside forms, tool calls, a restart, a failed KV request and network errors | `TypeOK`, `RamBackedByPoll`, `TokensOfOwner`, `MergePreserves` |
| `device_code_live` | does an approved sign-in complete, and does every poll end, beside forms, tool calls, a reset, a restart and requests to Microsoft that fail | `SignInCompletes`, `PollsEnd` |
| `device_code_persisted` | finding 1 | `PolledCodePersisted` |
| `cred_store` | three overlapping calls of two subs with a failure and a restart | `TypeOK`, `WrittenIsDurable`, `SubsIsolated` |
| `send_tool` | two messages, one of a provider that files by itself, a fault and a restart; refinement of `SentLedger` | `TypeOK`, `SavedIsFiled`, `FiledOnceAfterSending`, `HeldCopyLands`, `CancelReleases` |
| `send_reply_at` | finding 2 | `NeverSentAtOnce` |
| `mail_search` | two accounts searched at once, a change by another client and a failure | `TypeOK`, `AnswersNewest`, `OnlyHurtLeftOut`, `SearchAnswers` |
| `token_file` | two mailboxes, two calls at once, a fault, restarts, the command line beside the server | `TypeOK`, `RefreshTokenLives`, `OnlyLogoutForgets`, `AsksUnsignedOnly` |
| `credential_lifecycle` | two sessions and two awaited calls, with two subjects or none; forms, polls, reloads, resets, `setup_complete`, failures, restarts | `TypeOK`, `SubjectServedOwn`, `SubjectResetForgets`, `ResetIsOwn`, `ConfiguredHasCredentials` |
| `lifecycle_reset` | finding 3 | `ResetForgets` |
| `mailbox_tools` | two calls, a second form, a `cache_clear`, failing listings and requests; all cards and passwords of the instance | `TypeOK`, `OnlyMeantMailbox`, `FolderSinceClear`, `CachesKeepPromise`, `CallsAnswered`, `CardsReadBack`, `TailsReadBack` |
| `form_cards` | findings 4 and 5 | `CardsServed` |

Each property of a passing run has a mutant in `PROJECT.json`: a definition of the
code changed as a plausible bug would change it (an operator commented "Mutant"
beside the definition it replaces), under which TLC finds the property violated.

### Bounds, and why they are enough

- Polls, tasks and codes: two polls and two codes give the races between an old
  and a new code of one mailbox, and between two mailboxes of one sub, and so two PUTs in flight that are
  carried out in either order; a third adds no new pair. One form or tool call at a time awaits something; it
  overlaps with both polls.
- `DeviceCode.cfg` has one sub, one restart, one KV request that fails and no reset (1.9 million states). `View` identifies
  states in which the same polls take other places, or in which a code that can no longer be approved or redeemed
  came to its end in another way: neither makes a difference to any step.
  Subs meet only in `pendingAuths`, keyed by email; that every token stays with its sub, and the
  safety properties with resets, are proved for all sets of subs and all bounds.
- `DeviceCode_live.cfg` has two mailboxes, two polls, a reset, a restart and network errors (243,000 states), but
  one code: completion is stated for each code, a poll of the same code may be resumed beside the first, and what
  two codes do to each other is the question of the safety run. It sets `MaxKvFailures = 0`, since a token
  whose PUT fails *is* lost. A token whose answer from Microsoft is lost is lost too, and the sign-ins of one
  life of the server say nothing about the next; `SignInCompletes` names both as ways in which a
  sign-in may end. "Completes" means that the token is in KV, not in the cache alone.
- `CredStore.cfg`: three calls, so that a save, a load and a clear overlap.
- `SendTool.cfg`: `MaxCopies = 2` lets a second copy be counted. Deadlock is not
  checked in the two send runs: every message is sent once, so their supply ends.
- `MailSearch.cfg`: `MaxUid = 4`, `Window = 2`, `Limit = 2` gives two full windows,
  a limit reached within a window or between two, and none. (One mailbox of five
  UIDs with two changes, and this instance with two changes, were checked as well.)
- `TokenFile.cfg`: two calls overlap, and three tokens are a login and two
  rotations, or a login and a rotation beside another mailbox. (Four tokens, or
  three calls, were checked without faults.)
- `CredentialLifecycle.cfg`: faults and restarts are unbounded. Two sessions hold the
  same array or different ones, of one subject or of two; two calls overlap, one of
  which may be a poll. One subject has the password of the first mailbox; the other types that one without having
  it, and the Outlook mailbox. The Outlook mailbox is of an extra domain: one entry for it is read, its `email:oauth2` is
  not. Without subjects any form may be submitted. The deployment's environment is empty or holds the first mailbox. Six arrays are more
  than can be referred to at once, so that a new one always exists. `View` identifies
  states that differ in the names of arrays only, or in the content of arrays that nothing
  refers to.
  `CredentialLifecycle_reset.cfg` has one call at a time, so that its trace is sequential.
- `MailboxTools.cfg`: two calls give the pairs that matter, one that lists and one that awaits it, or one
  before and one after a clearing; `MaxClears = 1` puts the clearing anywhere among them. `MaxForms = 1`
  submits one of two forms after the saved one: it moves an address to another host and drops another. Two addresses
  have the same ID, and so share the cells of the caches. Some 9000 cards are encoded and read back: passwords of
  up to three segments that look like a word, a host, a port or a security word, every way of typing the
  servers; the 84 passwords of one to three such segments are also read with each ending. Three segments are
  as far back as the parser looks; that more make no difference, and that all other cards the string can
  carry are read back too, is proved.
  A call is made once, so the runs end and deadlock is not checked.

### Fairness

- `DeviceCode!Fairness`: a task and a poll that can go on do so (timers fire, awaited requests return), and a code
  lapses in the end (time passes). The request of a poll may throw at any time and never has to (`PollAdvances`),
  so that `PollsEnd` rests on the deadline and not on failures.
  Nothing is assumed of users, resets or restarts.
- `SendTool!Fairness`: requests are answered or fail, and Svix redelivers an event
  until it is acknowledged. `Release`, the clock of Resend, is not assumed fair.
- `MailboxTools!FairSpec`: requests are answered, refused or time out (the default timeouts of `ImapFlow`), and
  a settled promise resumes those that await it. Nothing is assumed of users, forms, clearings or other clients.
- `MailSearch!Fairness`: each account's requests are answered or fail, and the
  search answers when all have settled.

`SignInCompletes` and the like hold under these alone; what may excuse them (a lapsed
code, a restart, a fault) is in their statement.

### Where the token file falls behind

`TokenFile` found two places in which what the code does is weaker than one would
expect. No comment promises otherwise, so they are no findings; the properties
except exactly the mailboxes concerned, which history variables record.

- *A login of the command line beside a running server* (`unseen`). The server keeps
  answering from `cachedTokenStore`, asks for a code although `tokens.json` has the
  token, and its next save of any mailbox writes the cached store over the file:
  the login is lost. A logout is undone in the same way. A restart or
  `config(cache_clear)` brings the cache up to date, and ends the exception.
- *A load that resumes late* (`overtaken`). Between `readFile` and its continuation a
  poll may save, the command line may write, or another load may fill the cache and
  its account be refreshed; the continuation then puts the older store back into
  `cachedTokenStore`, and the older token into `account.oauth2`, which a rotation
  may have revoked.

A rotation whose answer is lost, or whose save fails, leaves the old token where
it was (`lost`): nothing the program could do about the first.

`lost` and `overtaken` are kept once they are set, so `RefreshTokenLives`, `OnlyLogoutForgets` and `AsksUnsignedOnly`
say little of such a mailbox afterwards. What they show is that concurrent refreshes, polls, logins and logouts
alone never lead there, and that a fault or a late load harms its own mailbox only; they do not
show that these are prevented, which they are not.

### Findings

1. **A code may be polled for that KV does not hold** (`device_code_persisted`). The
   form saves `{ accounts }` over the whole blob and then reuses a live code of
   `pendingAuths` without persisting it again, so the poll does not survive the
   container's sleep although sessions "are persisted to KV so the background
   poll survives container sleep/recreate".
2. **`scheduled_at` of a reply or a forward is dropped** (`send_reply_at`). The
   message goes out at once, which `assertSchedulingSupported` says a caller "must
   never get without noticing".
3. **A reset without subjects leaves the credentials in the environment**
   (`lifecycle_reset`). `setup_reset` is documented to "clear all saved credentials", but
   `process.env.EMAIL_CREDENTIALS` stays as the form set it: `setup_complete` finds
   the server configured, and the next tool call of the session that was reset
   reloads the old mailboxes. With subjects this cannot happen
   (`SubjectResetForgets`), since a subject's form does not touch the environment.
4. **An SMTP host alone is read as the IMAP host** (`form_cards`). The form encodes
   `email:password:imap.custom.com:993:smtp.custom.com`, which the comment of the parser
   lists among its formats; without a security word after it, `extractSmtpSegments` leaves the
   host in place, `extractImapSegments` takes it for IMAP, and `imap.custom.com:993` is joined to the
   password. The encoder and the parser are each tested, but not against each other.
5. **An address of an extra OAuth domain vanishes** (`form_cards`). The message of the form tells the
   user to add the domain to `OUTLOOK_EXTRA_DOMAINS`; the address then needs no password and is
   encoded alone, but `createOAuth2Account` finds no servers for it and returns nothing.
   Beside another valid card the form is accepted without a word.

With the form of finding 4 or of 5 alone, `form_cards` finds `CardsServed` violated too.

### Other places where the code does less than one would expect

They are in the models, but no run fails for them: where a comment speaks of them at all,
the README is the place to say so.

- *A resumed session is polled twice.* `ensureValidToken` means to resume "a pending
  device-code session that survived a container sleep/recreate" (`oauth2.ts:820`), but checks only
  that the blob holds one: each retried tool call starts one more poll of the same code, also
  while the first still runs. `RamBackedByPoll` and `PollsEnd` hold all the same.
- *A background poll outlives a reset with subjects.* `setup_reset` stops no poll: a
  code approved later is merged into an empty blob, which brings an entry of the subject
  back, against `docs/config.md:37` (the `Poll*` actions of `DeviceCode`); `TokensOfOwner` says that it is at least the subject's own.
- *`trash` deletes.* The tool calls `messageDelete` where `docs/messages.md:93` says that it moves to the trash;
  `effect` takes the message away.
- *Counts are not checked.* `move`, `archive` and the flag actions answer success with the number of UIDs they were
  given, whatever the server did (`Act` leaves `mail` as it was in one of its outcomes).
- *Overlapping writes lose entries.* `saveTokens` says that "this load-then-save is atomic enough"
  (`oauth2.ts:372`) as the container is single-threaded. It awaits twice all the same: two merges that both read
  a cold store, or whose PUTs are carried out in the other order, leave KV without what one of them stored, with no
  failure and no reset. `MergePreserves` says when nothing is lost: while no two requests of a sub overlap and none fails.
- *A failed read is taken for no blob* (`cred-store.ts:125`). A token is then saved without the accounts; the blob is
  served until the restart, and refused by `isValidCredentialPayload` from then on.
- *The second subject is shown the first one's code*, since `pendingAuths` is keyed by the email (`FormReuse`); the token
  goes to the subject whose poll it is.
- *Configured without a mailbox.* `credential-state.ts` takes any string for credentials. The environment of the
  deployment, and the `email:oauth2` of a mailbox on an extra domain that is found in `tokens.json`, may be read as no
  account: the server says that it is configured, and tool calls work on nothing. `ConfiguredHasCredentials` names the two.
- *IDs collide.* `emailToId` gives `a.b@corp.org` and `a_b@corp.org` one ID. Every tool that changes a mailbox
  or sends goes through `resolveSingleAccount`, which refuses an ambiguous account (`meant`); `resolveAccount`, which
  would take the first, has no caller. The caches are keyed by the ID too, so the two share their folders, as do mailboxes of the same address
  at different hosts or of different subjects, and a new form does not empty them.
- *A failed listing is remembered.* The default folder stays in the cache until `cache_clear`.
- *A security word at the end of a password* of four segments and more is lower-cased when
  it is put back (`extractSmtpSegments`), so such a password without servers after it is read back changed; the
  documentation asks for a host after a password with colons, and with one it is kept (`CardsReadBack`).
- *A blank at the end of a password* is trimmed with the entry when no server follows it (`Expressible`).

## 4. What is proved

All theorems are of `Spec` (`MergesPreserve` of `MergeSpec`, which is `Spec` with a history variable), for every value of the constants that satisfies the
named assumptions (`NoneAssumption`, `BoundsAssumption`, `SendBounds`,
`StoreBounds`, `SearchBounds`, `FileBounds`, `LifecycleBounds`, `BoundsNat`, and what the forms,
requests, folder lists and words of `MailboxTools` and `FormPromise` are): `None` is no member of the other sets
and, in `DeviceCode`, no blob (`NoneIsNoBlob`), and the bounds are numbers. The bounds of the runs are therefore not part of the claims.

- **DeviceCode**: `TypeCorrect`, `RamBacked`, `TokensOwned`, `MergesPreserve`. `TokensOfOwner` speaks of every
  blob, also those on their way to or from the store, and is not inductive all the same: a poll or a task carries the
  code and the sub it will write for. `OwnerInv` adds
  that a poll waits for a code its own sub and email asked for
  and that only issued codes have an owner; lemmas on `WithToken`, `WithPending`
  and `WithoutPending` say what the three merges keep. Two subs are in these theorems, which TLC's one sub cannot show.
  `MergePreserves` is an action property and rests on `MergeInv`: every sub that is not `raced` is `Calm`. At most one
  of its requests is in flight (no `Overlap`); that request is `Alone`, which says, by the kind of the request, how its blob,
  the cache and KV are related (a GET's answer is what KV holds; a PUT's blob is what the cache holds, and keeps what
  KV holds); and with none in flight the cache is empty or equal to KV. Each action is taken for the subs it
  does not touch (`Calm` stays) and for the one it does, which is calm before, raced after, or settled by it.
- **SendTool**: `SendCorrect`, `SendTypes`, `SavedTruth` and `Filed`, the refinement of
  `SentLedger`. `SendInv` adds `FilingOK` of each message: its bytes wait in at most
  one place, held or being filed, and never beside a copy; a call still in progress
  holds nothing; what is being filed, or announced by `email.sent`, has been sent. Each
  step then maps to one step of the ledger or to none.
- **CredStore**: `StoreCorrect`, `StoreTypes`, `DurableWhenSettled`, `Isolated`. `StoreInv` adds
  what an unraced sub has in flight: one put of exactly `last`, or loads whose
  value is what the store holds.
- **MailSearch**: `SearchCorrect`, `SearchTypes`, `NewestAnswered`, `OthersAnswered`.
  `SearchInv` adds per account that what is selected matched at some time and that
  every steady message above the window is selected or older than `Limit`
  selected ones. The step that matters is `SearchWindow`: the loop goes on only
  while fewer than `Limit` are selected, so nothing above has been cut off.
- **TokenFile**: `FileCorrect`, `FileTypes`, `RefreshCorrect`, `ForgetCorrect`,
  `AskCorrect`. `FileInv` says that every copy of a token (account, cache, file, what a
  load has read) belongs to its mailbox and has left the answer it came in
  (`KnownCopies`, so an answer's token is known to its call alone and cannot be
  revoked before it is saved), is alive (`LiveCopies`, but for what a load has read:
  that may be dead, but then differs from every copy kept and the load is found to
  be late), and that a mailbox in the file is in the cache too (`SeenCopies`). A revocation hits tokens of one mailbox
  only, and the call that caused it stands for them until it has saved the successor
  over all copies.
- **CredentialLifecycle**: `LifecycleTypeCorrect`, `ServedOwn`, `ResetSubjectForgets`,
  `ResetsOwnArrays`, `ConfiguredBacked`. `LifecycleInv` adds to the types that with
  subjects everything process-wide, and every string read from it that an awaited call
  carries, is the deployment's (`Confined`); that an array is referred to on behalf of one subject
  only and never is the startup array (`Unshared`, without which emptying one in
  place could empty another's); and that without subjects the environment is set before a form's
  sign-in goes on, and every string on its way there is one that can be reloaded (`Backed`, so that a poll granted
  much later may say configured).
  The invariant is preserved group by group: `OpenInv`, `FormInv`, `ToolInv`, `RestartInv`.

- **FormPromise**: `PasswordsReadBack`, `ExpressibleCardsReadBack`, `FormsReadBack`; from them `TailsRead`,
  `CardsRead` and `TypedMailbox` in `MailboxTools_proofs`. The theorems say that the form and the parser agree,
  for passwords and forms of any length, on every card of `Typable` that is `Expressible`; on the others of
  `Documented` they do not (findings 4 and 5). `PasswordsReadBack` is about the segments: lemmas say what the
  endings of a sequence look like to `canHaveSmtpHostPort`, `looksLikeHost` and `isPortSegment`, then what
  `extractSmtpSegments` and `extractImapSegments` take off each of five endings the form writes: the IMAP host, host and
  port, and both servers with the SMTP port, its security, or both. The sixth, both servers with the SMTP host
  alone, is left out, since it is misread (finding 4). Nothing is
  assumed of the segments but that there is one: the parser looks back a fixed number of segments, and every one
  it looks at belongs to the ending, except with a host and a port after a password that `LooksFull`.
  The text around the segments is next. `SplitJoin` and `JoinSplit` say that `split` undoes `join` on segments
  without the separator, and `join` undoes `split` on every text: the password is joined again from
  segments that the colons in it made. Both are inductions over the length of a text, done without an induction
  theorem: were there a counterexample, the set of the lengths of counterexamples would have a least member
  (`Least`, from the library's `WFMin`), and the step below it gives the contradiction. `split` and `join` are
  recursive functions, whose existence `Recursion` derives in the same way. The entry of a card is then a list of
  fields of which only the password holds colons; `Cat` and `CatWith` relate such lists to their
  parts, so that a card is written (`FieldsAre`) and split (`SegmentsCat`) field by field. One lemma per
  way of filling in a card follows `parseSingleCredential` through `parsePasswordAndHost` to the servers
  (`OutlookCard`, `LoginCard`, `HostCard`, `HostPortCard`, `HostAndPortCard`, `SmtpPortCard`,
  `SmtpSecurityCard`, `SmtpPortSecurityCard`), and shows that `trim` leaves the entry as it is (`Inked`). Entries
  hold no comma, so a form is split into them again (`EntriesSplit`), which gives `FormsReadBack`.
  Assumed of the constants are `WordsApart` and `WordsKnown` (the words that mean something hold no separator and
  are not taken for one another, as is so of host names, ports and security words), `TailsKnown` and `CardsKnown`;
  TLC evaluates them in the runs.
- **MailboxTools**: `TypeCorrect`, `LookedForSinceClear`, `CachesImplementPromise`, `MeantMailbox`, `TypedMailbox`. `ToolsInv` adds to the types that
  a call that lists holds at most one cell, of the kind and account of its task, and awaits nothing; that a
  call which awaits another awaits one that still lists, for the same cell; and that the listing of
  a cell was asked after the last clearing. `FolderSinceClear` is not inductive without it: a call that awaits
  a promise must have looked in the cache at the same count of clearings as the call that made the promise, which holds
  because a clearing empties the cell for those that come after. With the same invariant each step maps to one step
  of `FolderCache` or to none: `Settle` is `Keep` or, when overtaken, `Drop`. `MeantMailbox` has a premise,
  that every form of the constants is read back as it was typed (`ReadAsTyped`); TLC evaluates it for the
  forms of the run (`FormsReadAsTyped`). `MeantInv` says that the accounts come from one form and that a call in
  progress carries the account of the card it meant, which `ResolvedIsMeant` derives from what
  `resolveAccounts` and `resolveSingleAccount` accept; a later form replaces `accounts` and not what a call carries.
  `TypedMailbox` replaces the premise by one on the fields alone: if the forms hold cards of `Typable` that are
  `Expressible` (TLC evaluates this too, as `FormsExpressible`), `FormsReadBack` gives `ReadAsTyped`. What was typed in a
  card then decides the mailbox in which messages change, with no assumption on the encoding left.

Only model-checked: the liveness properties (`SignInCompletes`, `PollsEnd`, `HeldCopyLands`, `CancelReleases`,
`SearchAnswers`, `CallsAnswered`), since fairness is out of the prover's reach, and everything in section 3 about
failing runs. Every other property of a passing run is stated by a theorem.

## 5. Not modelled, and the plan

Not modelled: the encryption and OAuth server of mcp-core, the Svix signature, the
scheduling of containers, composition and parsing of messages, HTML and error
texts, attachments' bytes, scripts, tests and the deployment.

Left out of `MailboxTools`: the listing of folders over all accounts, which changes nothing; the texts a call
reads; reconnecting inside `ImapFlow`.

Modules still to be written, the most important first:

1. `SessionRefresh` - `ensureValidToken` on the accounts of a subject's sessions (HTTP
   mode), where a refreshed token is merged into the subject's blob by `saveTokens`
   and each session holds accounts of its own.
2. `SendValidation` (attachments of the send tool) and `EdgeGate` (the checks of `worker.ts` before the
   container), functions without state, if they earn a run.

Theorems to come: `CredStore` as an implementation of a register for a sub without
races, and the invariants of the new modules.
