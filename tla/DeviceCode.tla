----------------------------- MODULE DeviceCode -----------------------------
(***************************************************************************)
(* Outlook sign-in by device code in the HTTP multi-user server            *)
(* (src/src/tools/helpers/oauth2.ts, with the credential form of           *)
(* transports/http.ts, the per-sub store of auth/cred-store.ts and the     *)
(* reset of tools/composite/config.ts).                                    *)
(*                                                                         *)
(* The server keeps one encrypted blob per sub: its mailbox accounts, the  *)
(* Outlook tokens and at most one pending device-code session.  A sign-in  *)
(* begins in the form (FormSubmit) or in a tool call that needs a token    *)
(* (RequestCode), asks Microsoft for a device code, remembers it in RAM    *)
(* (pendingAuths) and in the blob, and polls Microsoft until the user      *)
(* approves or declines it, or the code lapses.                            *)
(*                                                                         *)
(* Granularity.  A step runs from one await on I/O to the next.  A store   *)
(* load that the cache answers (Warm) resumes in the same turn of the      *)
(* event loop; one that it does not sends a GET, whose answer arrives in a *)
(* later step and carries the blob of the moment it was sent.  A save sets *)
(* the cache and sends a PUT, which is carried out, or fails, in a later   *)
(* step: the PUTs of two flows may be carried out in either order.         *)
(***************************************************************************)
EXTENDS Naturals, FiniteSets

CONSTANTS Subs,       \* JWT subjects
          Emails,     \* Outlook mailboxes a subject may configure
          Codes,      \* device codes Microsoft can issue, in this order
          Polls,      \* background polls that can run at once (bound)
          Tasks,      \* form submissions and tool calls in flight (bound)
          None,       \* undefined / null
          MaxResets, MaxRestarts,  \* bounds on setup_reset and on restarts
          MaxKvFailures,           \* bound on KV requests that fail
          NetMayFail  \* whether a request to Microsoft may throw

ASSUME NoneAssumption ==
  /\ None \notin Codes
  /\ None \notin Subs
  /\ None \notin Emails
  /\ \A s \in Subs, e \in Emails : <<s, e>> # None
ASSUME BoundsAssumption ==
  /\ Codes \subseteq Nat
  /\ Polls \subseteq Nat
  /\ MaxResets \in Nat
  /\ MaxRestarts \in Nat
  /\ MaxKvFailures \in Nat
  /\ NetMayFail \in BOOLEAN

VARIABLES
  kv,        \* durable blob of each sub (Workers KV or the volume)
  cache,     \* PerSubCredStore.cache, lost at a restart
  ram,       \* pendingAuths: the code shown for an email, lost at a restart
  poll,      \* startBackgroundPoll instances
  task,      \* form submissions and tool calls awaiting something
  listed,    \* accounts in the snapshots that open MCP sessions of a sub may hold
  owner,     \* whom a code was requested for, None before it is issued
  status,    \* Microsoft's view of a code
  lapsed,    \* codes past their expiry
  resets, restarts, kvFailures

store == <<kv, cache, kvFailures>>
vars == <<kv, cache, kvFailures, ram, poll, task, listed, owner, status,
          lapsed, resets, restarts>>

Code == Codes \cup {None}
Blob == [accounts : (SUBSET Emails) \cup {None},
         tokens   : [Emails -> Code],
         pending  : Code]

ASSUME NoneIsNoBlob == None \notin Blob

EmptyBlob == [accounts |-> None, tokens |-> [e \in Emails |-> None],
              pending |-> None]

\* redeemed: Microsoft has answered with the tokens; lost: the answer never came.
Status == {"unissued", "waiting", "approved", "declined", "redeemed", "lost"}
Dead == {"declined", "redeemed", "lost"}

\* waiting: in the polling loop; merging, storing: the GET and the PUT of saveTokens;
\* saved: the PUT is carried out; clearing, dropping: the GET and the PUT of
\* clearPendingDeviceCode.
PollPc == {"idle", "waiting", "merging", "storing", "saved", "clearing", "dropping"}
IdlePoll == [pc |-> "idle", code |-> None, sub |-> None, email |-> None,
             blob |-> None]

\* submitting: the PUT of a form; checking: the PUT is carried out, pendingAuths not
\* yet consulted; requesting: requestDeviceCode in flight; persisting, storing: the
\* GET and the PUT of persistPendingDeviceCode; loading: the GET of authScope;
\* resetting: the DELETE of setup_reset.
TaskPc == {"idle", "submitting", "checking", "requesting", "persisting", "storing",
           "loading", "resetting"}
IdleTask == [pc |-> "idle", sub |-> None, email |-> None, code |-> None,
             blob |-> None]

PollState == [pc : PollPc, code : Code, sub : Subs \cup {None},
              email : Emails \cup {None}, blob : Blob \cup {None}]
TaskState == [pc : TaskPc, sub : Subs \cup {None},
              email : Emails \cup {None}, code : Code, blob : Blob \cup {None}]

StoreTypeOK ==
  /\ kv \in [Subs -> Blob \cup {None}]
  /\ cache \in [Subs -> Blob \cup {None}]
  /\ kvFailures \in 0 .. MaxKvFailures

PollTypeOK ==
  /\ poll \in [Polls -> PollState]
  /\ \A p \in Polls : poll[p].pc # "idle" =>
       /\ poll[p].code # None /\ poll[p].sub # None /\ poll[p].email # None
       /\ poll[p].pc \in {"storing", "dropping"} => poll[p].blob # None

TaskTypeOK ==
  /\ task \in [Tasks -> TaskState]
  /\ \A t \in Tasks :
       /\ task[t].pc # "idle" => task[t].sub # None
       /\ task[t].pc \notin {"idle", "loading", "resetting"} => task[t].email # None
       /\ task[t].pc \in {"persisting", "storing"} => task[t].code # None
       /\ task[t].pc \in {"submitting", "storing"} => task[t].blob # None

CodeTypeOK ==
  /\ owner \in [Codes -> (Subs \X Emails) \cup {None}]
  /\ status \in [Codes -> Status]
  /\ lapsed \in SUBSET Codes

\* Every variable has its type; a running poll or task knows whom it works for.
TypeOK ==
  /\ StoreTypeOK
  /\ PollTypeOK
  /\ TaskTypeOK
  /\ CodeTypeOK
  /\ ram \in [Emails -> Code]
  /\ listed \in [Subs -> SUBSET Emails]
  /\ resets \in 0 .. MaxResets
  /\ restarts \in 0 .. MaxRestarts

Init ==
  /\ kv = [s \in Subs |-> None]
  /\ cache = [s \in Subs |-> None]
  /\ ram = [e \in Emails |-> None]
  /\ poll = [p \in Polls |-> IdlePoll]
  /\ task = [t \in Tasks |-> IdleTask]
  /\ listed = [s \in Subs |-> {}]
  /\ owner = [c \in Codes |-> None]
  /\ status = [c \in Codes |-> "unissued"]
  /\ lapsed = {}
  /\ resets = 0
  /\ restarts = 0
  /\ kvFailures = 0

-----------------------------------------------------------------------------
(* The per-sub store. *)

Warm(s) == cache[s] # None

\* A blob read from KV is trusted only if it holds an accounts array.
Trusted(b) == IF b # None /\ b.accounts # None THEN b ELSE None

\* The accounts a request sees: a blob without the field counts as empty.
Accounts(b) == IF b = None \/ b.accounts = None THEN {} ELSE b.accounts

\* Whether a KV request succeeds.
KvOutcome(ok) ==
  \/ ok /\ UNCHANGED kvFailures
  \/ /\ ~ok
     /\ kvFailures < MaxKvFailures
     /\ kvFailures' = kvFailures + 1

\* authScope and serverFactory: a session snapshots the accounts of the blob its
\* sub's cache holds, and may be opened whenever one is set and stay open.
Snapshot(s, b) == listed' = [listed EXCEPT ![s] = @ \cup Accounts(b)]

\* The cache is set before the PUT is awaited.
Cache(s, b) ==
  /\ cache' = [cache EXCEPT ![s] = b]
  /\ Snapshot(s, b)

\* A PUT or DELETE; one that fails may have been carried out all the same.
Write(s, b, ok) ==
  /\ KvOutcome(ok)
  /\ kv' \in {[kv EXCEPT ![s] = b]} \cup (IF ok THEN {} ELSE {kv})

\* The answer to a GET: one that fails is taken for no blob.
Read(s, ok) == IF ok THEN Trusted(kv[s]) ELSE None

\* A blob that was read is cached when its answer arrives.
Fill(s, b) == IF b = None THEN UNCHANGED <<cache, listed>> ELSE Cache(s, b)

(* The three read-modify-write operations, as functions of the loaded blob. *)

\* Mutant: saveTokens forgets to spread the loaded blob.
WithTokenOnly(b, e, c) == [EmptyBlob EXCEPT !.tokens[e] = c]

\* saveTokens: merge the token, drop a pending session of the same email.
WithToken(b, e, c) ==
  LET old == IF b = None THEN EmptyBlob ELSE b IN
  [old EXCEPT !.tokens[e] = c,
              !.pending = IF @ # None /\ owner[@][2] = e THEN None ELSE @]

\* persistPendingDeviceCode: null becomes an empty accounts array.
WithPending(b, c) ==
  LET old == IF b = None THEN [EmptyBlob EXCEPT !.accounts = {}] ELSE b IN
  [old EXCEPT !.pending = c]

\* clearPendingDeviceCode: whatever session the blob holds is removed.
WithoutPending(b) == [b EXCEPT !.pending = None]

-----------------------------------------------------------------------------
(* Starting a sign-in. *)

\* A code in pendingAuths that has not expired is shown again.
Live(c) == c # None /\ c \notin lapsed

\* Mutant: the detached poll reads currentSub(), which is null there.
DetachedPoll(c, s, e) ==
  [pc |-> "waiting", code |-> c, sub |-> None, email |-> e, blob |-> None]

StartedPoll(c, s, e) ==
  [pc |-> "waiting", code |-> c, sub |-> s, email |-> e, blob |-> None]

\* Which of the idle places a new poll takes does not matter: the first.
Free(p) ==
  /\ poll[p].pc = "idle"
  /\ \A q \in Polls : poll[q].pc = "idle" => p <= q

Begin(t, pc, s, e, b) ==
  /\ task[t].pc = "idle"
  /\ task' = [task EXCEPT ![t] =
                [pc |-> pc, sub |-> s, email |-> e, code |-> None, blob |-> b]]

Finish(t) == task' = [task EXCEPT ![t] = IdleTask]

\* The form saves the submitted accounts over the whole blob of the sub (A: the
\* Outlook ones) and goes on with the first of them, e; it has dropped the
\* tokens it found for them.
FormSubmit(t, s, A, e) ==
  LET form == [EmptyBlob EXCEPT !.accounts = A] IN
  /\ A # {} => e \in A
  /\ Begin(t, "submitting", s, e, form)
  /\ Cache(s, form)
  /\ UNCHANGED <<kv, kvFailures, ram, poll, owner, status, lapsed, resets,
                 restarts>>

\* A failed save is reported and nothing else happens.
FormStored(t, ok) ==
  /\ task[t].pc = "submitting"
  /\ Write(task[t].sub, task[t].blob, ok)
  /\ IF ok /\ task[t].blob.accounts # {}
       THEN task' = [task EXCEPT ![t].pc = "checking", ![t].blob = None]
       ELSE Finish(t)
  /\ UNCHANGED <<cache, ram, poll, listed, owner, status, lapsed, resets, restarts>>

\* initiateOutlookDeviceCode: a live code of this email is returned as it is.
FormReuse(t) ==
  /\ task[t].pc = "checking"
  /\ Live(ram[task[t].email])
  /\ Finish(t)
  /\ UNCHANGED <<store, ram, poll, listed, owner, status, lapsed,
                 resets, restarts>>

FormRequest(t) ==
  /\ task[t].pc = "checking"
  /\ ~Live(ram[task[t].email])
  /\ task' = [task EXCEPT ![t].pc = "requesting"]
  /\ UNCHANGED <<store, ram, poll, listed, owner, status, lapsed,
                 resets, restarts>>

\* authScope of any request, a new session's or a tool call's, when the cache is cold.
StartLoad(t, s, ok) ==
  /\ ~Warm(s)
  /\ KvOutcome(ok)
  /\ Begin(t, "loading", s, None, Read(s, ok))
  /\ UNCHANGED <<kv, cache, ram, poll, listed, owner, status, lapsed, resets, restarts>>

Loaded(t) ==
  LET s == task[t].sub
      b == task[t].blob
  IN
  /\ task[t].pc = "loading"
  /\ Fill(s, b)
  /\ Finish(t)
  /\ UNCHANGED <<kv, kvFailures, ram, poll, owner, status, lapsed, resets, restarts>>

\* ensureValidToken with allowInteractive, for an account without tokens, of a
\* request whose authScope found the cache warm or filled it.
NeedsSignIn(s, e) ==
  /\ e \in listed[s]
  /\ Warm(s)
  /\ cache[s].tokens[e] = None

\* Mutant: the email of the session is not compared.
ResumableAnyEmail(s, e) == Live(cache[s].pending)

\* The session the blob holds for this email, if it has not expired.
Resumable(s, e) ==
  /\ Live(cache[s].pending)
  /\ owner[cache[s].pending][2] = e

\* The blob holds a session for this email: a poll is started for it.
ResumePoll(s, e, p) ==
  /\ NeedsSignIn(s, e)
  /\ Resumable(s, e)
  /\ Free(p)
  /\ ram' = [ram EXCEPT ![e] = cache[s].pending]
  /\ poll' = [poll EXCEPT ![p] = StartedPoll(cache[s].pending, s, e)]
  /\ UNCHANGED <<store, task, listed, owner, status, lapsed, resets, restarts>>

\* Neither the blob nor RAM holds one: a code is requested.  (When RAM holds
\* one the call reports it and changes nothing.)
RequestCode(t, s, e) ==
  /\ NeedsSignIn(s, e)
  /\ ~Resumable(s, e)
  /\ ~Live(ram[e])
  /\ Begin(t, "requesting", s, e, None)
  /\ UNCHANGED <<store, ram, poll, listed, owner, status, lapsed, resets, restarts>>

\* No blob was read, as after a reset, and the reads of loadStoredTokens and
\* loadPendingDeviceCode that follow find none either.
RequestUnread(t, e) ==
  LET s == task[t].sub IN
  /\ task[t].pc = "loading"
  /\ task[t].blob = None
  /\ ~Warm(s)
  /\ e \in listed[s]
  /\ ~Live(ram[e])
  /\ task' = [task EXCEPT ![t].pc = "requesting", ![t].email = e]
  /\ UNCHANGED <<store, ram, poll, listed, owner, status, lapsed, resets, restarts>>

\* Microsoft issues c: it is put in pendingAuths, persisted in the background
\* and polled for.
CodeIssued(t, c, p, ok) ==
  LET s == task[t].sub
      e == task[t].email
  IN
  /\ task[t].pc = "requesting"
  /\ status[c] = "unissued"
  /\ \A d \in Codes : status[d] = "unissued" => c <= d
  /\ Free(p)
  /\ owner' = [owner EXCEPT ![c] = <<s, e>>]
  /\ status' = [status EXCEPT ![c] = "waiting"]
  /\ ram' = [ram EXCEPT ![e] = c]
  /\ poll' = [poll EXCEPT ![p] = StartedPoll(c, s, e)]
  /\ \/ /\ Warm(s)
        /\ ok
        /\ Cache(s, WithPending(cache[s], c))
        /\ task' = [task EXCEPT ![t].pc = "storing", ![t].code = c,
                                ![t].blob = WithPending(cache[s], c)]
        /\ UNCHANGED kvFailures
     \/ /\ ~Warm(s)
        /\ KvOutcome(ok)
        /\ task' = [task EXCEPT ![t].pc = "persisting", ![t].code = c,
                                ![t].blob = Read(s, ok)]
        /\ UNCHANGED <<cache, listed>>
  /\ UNCHANGED <<kv, lapsed, resets, restarts>>

\* The request throws (or the bounded supply of codes is used up).
RequestFails(t) ==
  /\ NetMayFail \/ \A c \in Codes : status[c] # "unissued"
  /\ task[t].pc = "requesting"
  /\ Finish(t)
  /\ UNCHANGED <<store, ram, poll, listed, owner, status, lapsed,
                 resets, restarts>>

\* persistPendingDeviceCode after its GET.
Persist(t) ==
  LET b == WithPending(task[t].blob, task[t].code) IN
  /\ task[t].pc = "persisting"
  /\ Cache(task[t].sub, b)
  /\ task' = [task EXCEPT ![t].pc = "storing", ![t].blob = b]
  /\ UNCHANGED <<kv, kvFailures, ram, poll, owner, status, lapsed, resets, restarts>>

Persisted(t, ok) ==
  /\ task[t].pc = "storing"
  /\ Write(task[t].sub, task[t].blob, ok)
  /\ Finish(t)
  /\ UNCHANGED <<cache, ram, poll, listed, owner, status, lapsed, resets, restarts>>

-----------------------------------------------------------------------------
(* The background poll.  authorization_pending and slow_down change nothing *)
(* but the time of the next request.                                        *)

\* Mutant: pendingAuths.delete is left out.
EndPollKeepsRam(p) ==
  /\ poll' = [poll EXCEPT ![p] = IdlePoll]
  /\ UNCHANGED ram

\* However a poll ends without a token, it forgets the code of its email.
EndPoll(p) ==
  /\ poll' = [poll EXCEPT ![p] = IdlePoll]
  /\ ram' = [ram EXCEPT ![poll[p].email] = None]

\* The user has approved: Microsoft answers once with the tokens.
Grantable(p) ==
  /\ poll[p].pc = "waiting"
  /\ poll[p].code \notin lapsed
  /\ status[poll[p].code] = "approved"

Granted(p) ==
  /\ Grantable(p)
  /\ status' = [status EXCEPT ![poll[p].code] = "redeemed"]

\* Mutant: the loop has no deadline and polls on.
PollRefusedNoDeadline(p) ==
  /\ poll[p].pc = "waiting"
  /\ IF status[poll[p].code] \in Dead
       THEN EndPoll(p)
       ELSE poll[p].code \in lapsed /\ UNCHANGED <<poll, ram>>
  /\ UNCHANGED <<store, task, listed, owner, status, lapsed, resets, restarts>>

\* authorization_declined, a code already redeemed, or the deadline.
PollRefused(p) ==
  /\ poll[p].pc = "waiting"
  /\ \/ poll[p].code \in lapsed
     \/ status[poll[p].code] \in Dead
  /\ EndPoll(p)
  /\ UNCHANGED <<store, task, listed, owner, status, lapsed, resets, restarts>>

\* The request to Microsoft throws.
PollThrows(p) ==
  /\ NetMayFail
  /\ poll[p].pc = "waiting"
  /\ EndPoll(p)
  /\ UNCHANGED <<store, task, listed, owner, status, lapsed, resets, restarts>>

\* The answer with the tokens is lost: nobody can get them with this code again.
GrantLost(p) ==
  /\ NetMayFail
  /\ Grantable(p)
  /\ status' = [status EXCEPT ![poll[p].code] = "lost"]
  /\ EndPoll(p)
  /\ UNCHANGED <<store, task, listed, owner, lapsed, resets, restarts>>

\* saveTokens saves the loaded blob b with the token.
SaveToken(p, b) ==
  LET merged == WithToken(b, poll[p].email, poll[p].code) IN
  /\ Cache(poll[p].sub, merged)
  /\ poll' = [poll EXCEPT ![p].pc = "storing", ![p].blob = merged]
  /\ UNCHANGED <<kv, kvFailures, ram, task, owner, lapsed, resets, restarts>>

PollSave(p) ==
  /\ Granted(p)
  /\ Warm(poll[p].sub)
  /\ SaveToken(p, cache[poll[p].sub])

\* Mutant: saveTokens gives up when there is no blob to merge into.
PollReadKvGivesUp(p, ok) ==
  LET b == Read(poll[p].sub, ok) IN
  /\ Granted(p)
  /\ ~Warm(poll[p].sub)
  /\ KvOutcome(ok)
  /\ IF b = None
       THEN EndPoll(p)
       ELSE /\ poll' = [poll EXCEPT ![p].pc = "merging", ![p].blob = b]
            /\ UNCHANGED ram
  /\ UNCHANGED <<kv, cache, task, listed, owner, lapsed, resets, restarts>>

PollReadKv(p, ok) ==
  /\ Granted(p)
  /\ ~Warm(poll[p].sub)
  /\ KvOutcome(ok)
  /\ poll' = [poll EXCEPT ![p].pc = "merging", ![p].blob = Read(poll[p].sub, ok)]
  /\ UNCHANGED <<kv, cache, ram, task, listed, owner, lapsed, resets, restarts>>

PollMerge(p) ==
  /\ poll[p].pc = "merging"
  /\ SaveToken(p, poll[p].blob)
  /\ UNCHANGED status

\* When the PUT fails the poll ends as if its request had thrown.
PollStored(p, ok) ==
  /\ poll[p].pc = "storing"
  /\ Write(poll[p].sub, poll[p].blob, ok)
  /\ IF ok THEN /\ poll' = [poll EXCEPT ![p].pc = "saved", ![p].blob = None]
                /\ UNCHANGED ram
           ELSE EndPoll(p)
  /\ UNCHANGED <<cache, task, listed, owner, status, lapsed, resets, restarts>>

\* clearPendingDeviceCode saves only when the blob it loaded holds a session.
DropPending(p, b) ==
  /\ b # None
  /\ b.pending # None
  /\ Cache(poll[p].sub, WithoutPending(b))
  /\ poll' = [poll EXCEPT ![p].pc = "dropping", ![p].blob = WithoutPending(b)]

\* After saveTokens: pendingAuths.delete, then clearPendingDeviceCode.
PollDone(p, ok) ==
  LET s == poll[p].sub IN
  /\ poll[p].pc = "saved"
  /\ ram' = [ram EXCEPT ![poll[p].email] = None]
  /\ \/ /\ ok
        /\ Warm(s)
        /\ DropPending(p, cache[s])
        /\ UNCHANGED kvFailures
     \/ /\ ok
        /\ Warm(s)
        /\ cache[s].pending = None
        /\ poll' = [poll EXCEPT ![p] = IdlePoll]
        /\ UNCHANGED <<cache, listed, kvFailures>>
     \/ /\ ~Warm(s)
        /\ KvOutcome(ok)
        /\ poll' = [poll EXCEPT ![p].pc = "clearing", ![p].blob = Read(s, ok)]
        /\ UNCHANGED <<cache, listed>>
  /\ UNCHANGED <<kv, task, owner, status, lapsed, resets, restarts>>

PollClear(p) ==
  LET b == poll[p].blob IN
  /\ poll[p].pc = "clearing"
  /\ \/ DropPending(p, b)
     \/ /\ b # None => b.pending = None
        /\ Fill(poll[p].sub, b)
        /\ poll' = [poll EXCEPT ![p] = IdlePoll]
  /\ UNCHANGED <<kv, kvFailures, ram, task, owner, status, lapsed, resets, restarts>>

\* Best effort: nobody is told of a failure.
PollDropped(p, ok) ==
  /\ poll[p].pc = "dropping"
  /\ Write(poll[p].sub, poll[p].blob, ok)
  /\ poll' = [poll EXCEPT ![p] = IdlePoll]
  /\ UNCHANGED <<cache, ram, task, listed, owner, status, lapsed, resets, restarts>>

-----------------------------------------------------------------------------
(* The user at Microsoft, the clock, the reset tool and the container. *)

Decide(c, d) ==
  /\ status[c] = "waiting"
  /\ c \notin lapsed
  /\ d \in {"approved", "declined"}
  /\ status' = [status EXCEPT ![c] = d]
  /\ UNCHANGED <<store, ram, poll, task, listed, owner, lapsed,
                 resets, restarts>>

Lapse(c) ==
  /\ status[c] # "unissued"
  /\ c \notin lapsed
  /\ lapsed' = lapsed \cup {c}
  /\ UNCHANGED <<store, ram, poll, task, listed, owner, status,
                 resets, restarts>>

\* config setup_reset: the cached blob is dropped and the store's deleted,
StartReset(t, s) ==
  /\ resets < MaxResets
  /\ resets' = resets + 1
  /\ Begin(t, "resetting", s, None, None)
  /\ cache' = [cache EXCEPT ![s] = None]
  /\ UNCHANGED <<kv, kvFailures, ram, poll, listed, owner, status, lapsed, restarts>>

\* and then the accounts snapshot of the calling session truncated; sessions opened
\* before an earlier form submit hold another array and keep theirs.  A DELETE that
\* fails ends the reset.
ResetDone(t, kept, ok) ==
  LET s == task[t].sub IN
  /\ task[t].pc = "resetting"
  /\ Write(s, None, ok)
  /\ kept = listed[s] \/ (ok /\ kept = {})
  /\ listed' = [listed EXCEPT ![s] = kept]
  /\ Finish(t)
  /\ UNCHANGED <<cache, ram, poll, owner, status, lapsed, resets, restarts>>

\* The container is put to sleep or recreated: only KV survives.
Restart ==
  /\ restarts < MaxRestarts
  /\ restarts' = restarts + 1
  /\ cache' = [s \in Subs |-> None]
  /\ ram' = [e \in Emails |-> None]
  /\ poll' = [p \in Polls |-> IdlePoll]
  /\ task' = [t \in Tasks |-> IdleTask]
  /\ listed' = [s \in Subs |-> {}]
  /\ UNCHANGED <<kv, kvFailures, owner, status, lapsed, resets>>

-----------------------------------------------------------------------------

TaskStep(t) ==
  \/ \E ok \in BOOLEAN : FormStored(t, ok) \/ Persisted(t, ok)
  \/ FormReuse(t)
  \/ FormRequest(t)
  \/ Loaded(t)
  \/ \E e \in Emails : RequestUnread(t, e)
  \/ \E c \in Codes, p \in Polls, ok \in BOOLEAN : CodeIssued(t, c, p, ok)
  \/ RequestFails(t)
  \/ Persist(t)
  \/ \E kept \in SUBSET Emails, ok \in BOOLEAN : ResetDone(t, kept, ok)

\* What follows an answer of Microsoft, the deadline or an answer of the store.
PollAdvances(p) ==
  \/ PollRefused(p)
  \/ GrantLost(p)
  \/ PollSave(p)
  \/ PollMerge(p)
  \/ PollClear(p)
  \/ \E ok \in BOOLEAN :
       PollReadKv(p, ok) \/ PollStored(p, ok) \/ PollDone(p, ok) \/ PollDropped(p, ok)

PollStep(p) == PollAdvances(p) \/ PollThrows(p)

UserStep ==
  \/ \E t \in Tasks, s \in Subs, A \in SUBSET Emails, e \in Emails :
       FormSubmit(t, s, A, e)
  \/ \E t \in Tasks, s \in Subs, ok \in BOOLEAN : StartLoad(t, s, ok)
  \/ \E s \in Subs, e \in Emails, p \in Polls : ResumePoll(s, e, p)
  \/ \E t \in Tasks, s \in Subs, e \in Emails : RequestCode(t, s, e)
  \/ \E c \in Codes, d \in Status : Decide(c, d)
  \/ \E t \in Tasks, s \in Subs : StartReset(t, s)

Next ==
  \/ UserStep
  \/ \E t \in Tasks : TaskStep(t)
  \/ \E p \in Polls : PollStep(p)
  \/ \E c \in Codes : Lapse(c)
  \/ Restart

Spec == Init /\ [][Next]_vars

\* Timers fire, awaited requests return and time passes; a poll may fail at any
\* request, but no poll has to, and users need not act.
Fairness ==
  /\ \A t \in Tasks : WF_vars(TaskStep(t))
  /\ \A p \in Polls : WF_vars(PollAdvances(p))
  /\ WF_vars(\E c \in Codes : Lapse(c))

FairSpec == Spec /\ Fairness

-----------------------------------------------------------------------------
(* Properties that hold. *)

\* Polls that have not yet forgotten the code of their email.
Backing(p) == poll[p].pc \in {"waiting", "merging", "storing", "saved"}

\* A code shown from pendingAuths is always still being polled for by a poll of
\* that email: whoever approves the code that the form or a tool call repeats
\* is not left waiting on a poll that declined, threw, ended or was restarted
\* away (pendingAuths.set and .delete around startBackgroundPoll).
RamBackedByPoll ==
  \A e \in Emails : ram[e] # None =>
    \E p \in Polls : Backing(p) /\ poll[p].email = e /\ poll[p].code = ram[e]

BlobOfOwner(b, s) ==
  b # None =>
    /\ \A e \in Emails : b.tokens[e] # None => owner[b.tokens[e]] = <<s, e>>
    /\ b.pending # None => owner[b.pending] # None /\ owner[b.pending][1] = s

\* A token or a pending session in the blob of a sub, cached, durable or on its way to
\* or from the store, comes from a code that this sub requested, and a token stands
\* under the email it was requested for: no poll, resumed after a restart or merging
\* into a blob that changed under it, stores a token of one user or mailbox under
\* another.
TokensOfOwner ==
  /\ \A s \in Subs : BlobOfOwner(kv[s], s) /\ BlobOfOwner(cache[s], s)
  /\ \A p \in Polls : BlobOfOwner(poll[p].blob, poll[p].sub)
  /\ \A t \in Tasks : BlobOfOwner(task[t].blob, task[t].sub)

Stored(c) ==
  \E s \in Subs : kv[s] # None /\ \E e \in Emails : kv[s].tokens[e] = c

\* A sign-in the user approves reaches the store, unless its code lapses before
\* Microsoft has granted the token (as it does when nobody polls for it any more, or the
\* request of the poll throws), the answer with the token is lost or the server is
\* restarted meanwhile: whatever other sign-ins, form submissions and resets run beside
\* it, before a restart and after one, as long as KV requests succeed.
SignInCompletes ==
  \A c \in Codes, n \in 0 .. MaxRestarts :
    status[c] = "approved" /\ restarts = n ~>
      \/ Stored(c)
      \/ c \in lapsed /\ status[c] # "redeemed"
      \/ status[c] = "lost"
      \/ restarts > n

\* Every background poll ends, so a container can go back to sleep.
PollsEnd == \A p \in Polls : poll[p].pc # "idle" ~> poll[p].pc = "idle"

-----------------------------------------------------------------------------
(* A property the comments state and the code breaks. *)

\* "device-code sessions are persisted to KV so the background poll survives
\* container sleep/recreate" (setOutlookTokenStore): a code that is polled for
\* and can still be approved is in KV, unless its sub has dropped the mailbox or
\* is just signing in again.
PolledCodePersisted ==
  \A p \in Polls :
    /\ poll[p].pc = "waiting"
    /\ poll[p].code \notin lapsed
    /\ status[poll[p].code] \in {"waiting", "approved"}
    /\ poll[p].email \in Accounts(kv[poll[p].sub])
    => \/ \E t \in Tasks : task[t].sub = poll[p].sub
       \/ /\ kv[poll[p].sub] # None
          /\ kv[poll[p].sub].pending = poll[p].code

=============================================================================
