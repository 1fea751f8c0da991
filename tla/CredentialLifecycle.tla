------------------------ MODULE CredentialLifecycle ------------------------
(***************************************************************************)
(* The credentials of an HTTP server: the process-wide state of            *)
(* credential-state.ts with EMAIL_CREDENTIALS and config.enc, the account  *)
(* lists that transports/http.ts hands to sessions and registry.ts keeps   *)
(* there, and the credential form, setup_reset and setup_complete that     *)
(* change them.  A credential string is the set of its entries, empty when *)
(* there is none; what an entry is read as is left to CredentialString.    *)
(*                                                                         *)
(* Account lists are JavaScript arrays: a session, the per-subject cache   *)
(* and the startup closure may hold one and the same array, and a reset    *)
(* empties it in place.  A step runs from one await to the next.           *)
(***************************************************************************)
EXTENDS Naturals, FiniteSets

CONSTANTS Subs, Sessions, Mailboxes,
          Parse,        \* of each entry of a string: the mailbox it is read as, or None
          OAuth2,       \* of each Outlook mailbox: the entry "email:oauth2"
          Forms,        \* the strings submitted
          Typed,        \* the mailboxes a subject may type
          Own,          \* those whose password it has
          Deployments,  \* the strings the environment may be started with
          Outlook,      \* the mailboxes that sign in with a device code
          Arrays,       \* identities of arrays (bound)
          Calls,        \* requests and polls awaiting something at once (bound)
          None

ASSUME LifecycleBounds ==
  /\ Outlook \subseteq Mailboxes
  /\ Parse \in [DOMAIN Parse -> Mailboxes \cup {None}]
  /\ OAuth2 \in [Outlook -> DOMAIN Parse]
  /\ Forms \subseteq SUBSET DOMAIN Parse
  /\ Typed \in [Subs -> SUBSET Mailboxes]
  /\ Own \in [Subs -> SUBSET Mailboxes]
  /\ Deployments \subseteq SUBSET DOMAIN Parse
  /\ Arrays \subseteq Nat \ {0}
  /\ None \notin Subs \cup Sessions \cup Mailboxes

VARIABLES
  multi,      \* a subject per user; else MCP_AUTH_DISABLE, one user and no subject
  deployed,   \* EMAIL_CREDENTIALS of the environment the server is started with
  state,      \* credential-state's state
  env,        \* process.env.EMAIL_CREDENTIALS
  config,     \* the string of config.enc
  tokens,     \* the mailboxes of tokens.json
  kv,         \* the account list the key-value store holds for a subject
  cached,     \* the array in credStore's cache, 0 when there is none
  current,    \* currentAccounts of startHttp
  session,    \* the server instance of each session
  content,    \* what is in each array
  call

disk == <<config, tokens, kv>>
setting == <<multi, deployed>>
vars == <<multi, deployed, state, env, config, tokens, kv, cached, current,
          session, content, call>>

List == SUBSET Mailboxes
String == SUBSET DOMAIN Parse
NoString == {}

\* parseCredentials: an entry without known servers is skipped, such as email:oauth2
\* of a domain that OUTLOOK_EXTRA_DOMAINS adds.
Parsed(string) == {Parse[e] : e \in string} \ {None}

States == {"awaiting_setup", "setup_in_progress", "configured"}

\* array is registerTools' accounts; forgot: a setup_reset of this session ended
\* and, without subjects, no form was accepted since.
Session == [array : Arrays \cup {0}, sub : Subs \cup {None}, forgot : BOOLEAN]
Closed == [array |-> 0, sub |-> None, forgot |-> FALSE]

\* opening: credStore.load of authScope; writing, written: a form before and after
\* its credentials are stored; asking, polling: its device code; reloading:
\* loadConfig of a tool call; clearing, deleting: setup_reset in credStore.clear
\* and in deleteConfig; resolving, resolved: setup_complete around its reads.
Pc == {"idle", "opening", "writing", "written", "asking", "polling", "reloading",
       "clearing", "deleting", "resolving", "resolved"}
Call == [pc : Pc, of : Sessions \cup {None}, sub : Subs \cup {None}, string : String]
Idle == [pc |-> "idle", of |-> None, sub |-> None, string |-> NoString]

\* Every variable has its type; a session has a subject exactly when there are
\* subjects, and a call on a session has that session's.
TypeOK ==
  /\ multi \in BOOLEAN
  /\ deployed \in Deployments
  /\ state \in States
  /\ env \in String
  /\ config \in String
  /\ tokens \subseteq Outlook
  /\ kv \in [Subs -> List]
  /\ cached \in [Subs -> Arrays \cup {0}]
  /\ current \in Arrays
  /\ session \in [Sessions -> Session]
  /\ \A x \in Sessions :
       IF session[x].array = 0 THEN session[x] = Closed
                               ELSE session[x].sub # None <=> multi
  /\ content \in [Arrays -> List]
  /\ call \in [Calls -> Call]
  /\ \A k \in Calls : call[k].pc \in {"writing", "written"} =>
       (call[k].sub # None <=> multi)
  /\ \A k \in Calls : call[k].pc \in {"opening", "clearing"} =>
       multi /\ call[k].of # None /\ call[k].sub # None
  /\ \A k \in Calls : call[k].pc \in {"reloading", "clearing", "deleting"} =>
       /\ call[k].of # None
       /\ session[call[k].of].array # 0
       /\ session[call[k].of].sub = call[k].sub

-----------------------------------------------------------------------------

\* The arrays something refers to, and one that is new.
Referenced ==
  {current} \cup {cached[s] : s \in Subs} \cup {session[x].array : x \in Sessions}

New(a) ==
  /\ a \in Arrays \ Referenced
  /\ \A b \in Arrays \ Referenced : a <= b

Await(k, pc, x, s, string) ==
  /\ call[k].pc = "idle"
  /\ call' = [call EXCEPT ![k] = [pc |-> pc, of |-> x, sub |-> s, string |-> string]]

Continue(k, from, to) ==
  /\ call[k].pc = from
  /\ call' = [call EXCEPT ![k].pc = to]

End(k, from) ==
  /\ call[k].pc = from
  /\ call' = [call EXCEPT ![k] = Idle]

\* No request of the session is awaited.
Quiet(x) == \A k \in Calls : call[k].of # x

-----------------------------------------------------------------------------
(* Starting: resolveCredentialState, then loadConfig. *)

\* What resolveCredentialState finds when the environment has nothing: config.enc,
\* unless it cannot be read, then email:oauth2 of each mailbox of tokens.json.
Saved(readable) ==
  IF readable /\ config # NoString THEN config ELSE {OAuth2[e] : e \in tokens}

\* Any string will do: what it is read as is not asked.
Found(string) == IF string # NoString THEN "configured" ELSE "awaiting_setup"

Init ==
  /\ multi \in BOOLEAN
  /\ deployed \in Deployments
  /\ state = Found(deployed)
  /\ env = deployed
  /\ config = NoString
  /\ tokens = {}
  /\ kv = [s \in Subs |-> {}]
  /\ cached = [s \in Subs |-> 0]
  /\ current \in Arrays
  /\ \A a \in Arrays : current <= a
  /\ session = [x \in Sessions |-> Closed]
  /\ content = [a \in Arrays |-> IF a = current THEN Parsed(deployed) ELSE {}]
  /\ call = [k \in Calls |-> Idle]

\* The process ends wherever it is, and another one starts.
Restart ==
  /\ env' = IF deployed # NoString THEN deployed ELSE Saved(TRUE)
  /\ state' = Found(env')
  /\ cached' = [s \in Subs |-> 0]
  /\ session' = [x \in Sessions |-> Closed]
  /\ content' = [content EXCEPT ![current] = Parsed(env')]
  /\ call' = [k \in Calls |-> Idle]
  /\ UNCHANGED <<setting, disk, current>>

-----------------------------------------------------------------------------
(* authScope and serverFactory: which array a new session gets. *)

Opens(x, s, a) ==
  /\ session[x] = Closed
  /\ session' = [session EXCEPT ![x] = [array |-> a, sub |-> s, forgot |-> FALSE]]

\* Without a subject: the array loaded at startup or left by the last form.
OpenAnonymous(x) ==
  /\ ~multi
  /\ Opens(x, None, current)
  /\ UNCHANGED <<setting, state, env, disk, cached, current, content, call>>

OpenCached(x, s) ==
  /\ multi
  /\ Quiet(x)
  /\ cached[s] # 0
  /\ Opens(x, s, cached[s])
  /\ UNCHANGED <<setting, state, env, disk, cached, current, content, call>>

StartOpen(k, x, s) ==
  /\ multi
  /\ session[x] = Closed
  /\ Quiet(x)
  /\ cached[s] = 0
  /\ Await(k, "opening", x, s, NoString)
  /\ UNCHANGED <<setting, state, env, disk, cached, current, session, content>>

\* Mutant: a subject without mailboxes falls back to the startup array.
OpenedOrCurrent(k, a, ok) ==
  LET s == call[k].sub
      found == IF ok THEN kv[s] ELSE {}
      array == IF found = {} THEN current ELSE a
  IN /\ End(k, "opening")
     /\ New(a)
     /\ Opens(call[k].of, s, array)
     /\ content' = IF found = {} THEN content ELSE [content EXCEPT ![a] = found]
     /\ cached' = IF found = {} THEN cached ELSE [cached EXCEPT ![s] = a]
     /\ UNCHANGED <<setting, state, env, disk, current>>

\* Mutant: no blob leaves the session without an array.
OpenedWithoutDefault(k, a, ok) ==
  LET s == call[k].sub
      found == IF ok THEN kv[s] ELSE {}
  IN /\ End(k, "opening")
     /\ New(a)
     /\ Opens(call[k].of, s, IF found = {} THEN 0 ELSE a)
     /\ content' = [content EXCEPT ![a] = found]
     /\ cached' = IF found = {} THEN cached ELSE [cached EXCEPT ![s] = a]
     /\ UNCHANGED <<setting, state, env, disk, current>>

\* A blob is parsed into an array of its own, which the cache and the session
\* share; no blob, or a request that fails, gives the session an empty one.  (The
\* store answers in this step: CredStore has the races of its requests.)
Opened(k, a, ok) ==
  LET s == call[k].sub
      found == IF ok THEN kv[s] ELSE {}
  IN /\ End(k, "opening")
     /\ New(a)
     /\ Opens(call[k].of, s, a)
     /\ content' = [content EXCEPT ![a] = found]
     /\ cached' = IF found = {} THEN cached ELSE [cached EXCEPT ![s] = a]
     /\ UNCHANGED <<setting, state, env, disk, current>>

\* The client is done with the session.
Close(x) ==
  /\ session[x] # Closed
  /\ Quiet(x)
  /\ session' = [session EXCEPT ![x] = Closed]
  /\ UNCHANGED <<setting, state, env, disk, cached, current, content, call>>

-----------------------------------------------------------------------------
(* onCredentialsSaved. *)

\* A form that is read as no mailbox is refused.
Accepted(string) == Parsed(string) # {}

\* testImapConnection of the mailboxes with a password: an Outlook mailbox is stored
\* as it was typed, before anyone signs in to it.
Passes(s, string) ==
  Parsed(string) \subseteq Typed[s] /\ Parsed(string) \ Outlook \subseteq Own[s]

\* credStore.save caches the array before it stores it.
SubmitAs(k, s, string, a) ==
  /\ multi
  /\ Accepted(string)
  /\ Passes(s, string)
  /\ New(a)
  /\ Await(k, "writing", None, s, string)
  /\ cached' = [cached EXCEPT ![s] = a]
  /\ content' = [content EXCEPT ![a] = Parsed(string)]
  /\ UNCHANGED <<setting, state, env, disk, current, session>>

SubmitAnonymous(k, string) ==
  /\ ~multi
  /\ Accepted(string)
  /\ Await(k, "writing", None, None, string)
  /\ UNCHANGED <<setting, state, env, disk, cached, current, session, content>>

\* A subject's blob holds the accounts, config.enc the string.
Stored(k) ==
  /\ Continue(k, "writing", "written")
  /\ IF multi
       THEN kv' = [kv EXCEPT ![call[k].sub] = Parsed(call[k].string)] /\ UNCHANGED config
       ELSE config' = call[k].string /\ UNCHANGED kv
  /\ UNCHANGED <<setting, state, env, tokens, cached, current, session, content>>

\* A subject is told and the form is over; config.enc is done without.
StoreFails(k) ==
  /\ IF multi THEN End(k, "writing") ELSE Continue(k, "writing", "written")
  /\ UNCHANGED <<setting, state, env, disk, cached, current, session, content>>

\* initiateOutlookOAuth, up to its request.
SignIn(k) ==
  IF Parsed(call[k].string) \cap Outlook # {}
    THEN Continue(k, "written", "asking") /\ UNCHANGED state
    ELSE End(k, "written") /\ state' = "configured"

\* Mutant: the environment is set for a subject's form too.
AcceptForAll(k, a) ==
  /\ SignIn(k)
  /\ New(a)
  /\ env' = call[k].string
  /\ IF multi THEN UNCHANGED <<current, content, session>>
     ELSE /\ current' = a
          /\ content' = [content EXCEPT ![a] = Parsed(call[k].string)]
          /\ session' = [x \in Sessions |-> [session[x] EXCEPT !.forgot = FALSE]]
  /\ UNCHANGED <<setting, disk, cached>>

\* Mutant: the environment is left to the next restart.
AcceptOnDisk(k, a) ==
  /\ SignIn(k)
  /\ New(a)
  /\ IF multi THEN UNCHANGED <<current, content, session>>
     ELSE /\ current' = a
          /\ content' = [content EXCEPT ![a] = Parsed(call[k].string)]
          /\ session' = [x \in Sessions |-> [session[x] EXCEPT !.forgot = FALSE]]
  /\ UNCHANGED <<setting, env, disk, cached>>

\* Without subjects, the environment and the closure change with the form.
Accept(k, a) ==
  /\ SignIn(k)
  /\ New(a)
  /\ IF multi THEN UNCHANGED <<env, current, content, session>>
     ELSE /\ env' = call[k].string
          /\ current' = a
          /\ content' = [content EXCEPT ![a] = Parsed(call[k].string)]
          /\ session' = [x \in Sessions |-> [session[x] EXCEPT !.forgot = FALSE]]
  /\ UNCHANGED <<setting, disk, cached>>

\* The code is shown and the poll goes on in the background.
Asked(k) ==
  /\ Continue(k, "asking", "polling")
  /\ state' = "setup_in_progress"
  /\ UNCHANGED <<setting, env, disk, cached, current, session, content>>

\* The credentials stay stored, and state stays what it was.
AskFails(k) ==
  /\ End(k, "asking")
  /\ UNCHANGED <<setting, state, env, disk, cached, current, session, content>>

\* The token goes to the subject of the form: to tokens.json only when it had none,
\* which without subjects is up to the deployment.
Granted(k, e, filed) ==
  /\ End(k, "polling")
  /\ e \in Parsed(call[k].string) \cap Outlook
  /\ filed => ~multi
  /\ state' = "configured"
  /\ tokens' = IF filed THEN tokens \cup {e} ELSE tokens
  /\ UNCHANGED <<setting, env, config, kv, cached, current, session, content>>

\* Denied or expired.
PollEnds(k) ==
  /\ End(k, "polling")
  /\ UNCHANGED <<setting, state, env, disk, cached, current, session, content>>

-----------------------------------------------------------------------------
(* Tool calls on a session. *)

Serves(x) == IF session[x].array = 0 THEN {} ELSE content[session[x].array]

\* The guard of CallToolRequestSchema: a session with no mailboxes reloads the
\* environment's, which is read at once and may be read as none.  (When state is not
\* configured the call only returns instructions.)
StartReload(k, x) ==
  /\ session[x] # Closed
  /\ Serves(x) = {}
  /\ state = "configured"
  /\ Await(k, "reloading", x, session[x].sub, env)
  /\ UNCHANGED <<setting, state, env, disk, cached, current, session, content>>

Reloaded(k, a) ==
  /\ End(k, "reloading")
  /\ New(a)
  /\ session' = [session EXCEPT ![call[k].of].array = a]
  /\ content' = [content EXCEPT ![a] = Parsed(call[k].string)]
  /\ UNCHANGED <<setting, state, env, disk, cached, current>>

\* setup_reset.  With a subject: its blob, and then the process-wide state.
StartReset(k, x) ==
  /\ session[x] # Closed
  /\ LET s == session[x].sub IN
     IF multi THEN /\ cached' = [cached EXCEPT ![s] = 0]
                   /\ Await(k, "clearing", x, s, NoString)
                   /\ UNCHANGED state
              ELSE /\ state' = "awaiting_setup"
                   /\ Await(k, "deleting", x, s, NoString)
                   /\ UNCHANGED cached
  /\ UNCHANGED <<setting, env, disk, current, session, content>>

Cleared(k) ==
  /\ Continue(k, "clearing", "deleting")
  /\ kv' = [kv EXCEPT ![call[k].sub] = {}]
  /\ state' = "awaiting_setup"
  /\ UNCHANGED <<setting, env, config, tokens, cached, current, session, content>>

\* The call rejects: the session keeps its mailboxes.
ClearFails(k, done) ==
  /\ End(k, "clearing")
  /\ kv' = IF done THEN [kv EXCEPT ![call[k].sub] = {}] ELSE kv
  /\ UNCHANGED <<setting, state, env, config, tokens, cached, current, session,
                 content>>

\* Mutant: the session's snapshot is left alone.
ResetDurableOnly(k, ok) ==
  /\ End(k, "deleting")
  /\ config' = IF ok THEN NoString ELSE config
  /\ session' = [session EXCEPT ![call[k].of].forgot = TRUE]
  /\ UNCHANGED <<setting, state, env, tokens, kv, cached, current, content>>

\* config.enc is deleted, or is not and nobody is told; then the array the session
\* holds by now is emptied.
ResetDone(k, ok) ==
  LET x == call[k].of IN
  /\ End(k, "deleting")
  /\ config' = IF ok THEN NoString ELSE config
  /\ content' = [content EXCEPT ![session[x].array] = {}]
  /\ session' = [session EXCEPT ![x].forgot = TRUE]
  /\ UNCHANGED <<setting, state, env, tokens, kv, cached, current>>

\* setup_complete: resolveCredentialState again.
CompleteAtOnce ==
  /\ \E x \in Sessions : session[x] # Closed
  /\ env # NoString
  /\ state' = "configured"
  /\ UNCHANGED <<setting, env, disk, cached, current, session, content, call>>

StartComplete(k) ==
  /\ \E x \in Sessions : session[x] # Closed
  /\ env = NoString
  /\ Await(k, "resolving", None, None, NoString)
  /\ UNCHANGED <<setting, state, env, disk, cached, current, session, content>>

\* Both files are read in this step; readable: resolveConfig did not throw.
Resolve(k, readable) ==
  /\ call[k].pc = "resolving"
  /\ call' = [call EXCEPT ![k].pc = "resolved", ![k].string = Saved(readable)]
  /\ UNCHANGED <<setting, state, env, disk, cached, current, session, content>>

\* Whatever a form did in the meantime is written over.
Resolved(k) ==
  /\ End(k, "resolved")
  /\ env' = IF call[k].string # NoString THEN call[k].string ELSE env
  /\ state' = Found(call[k].string)
  /\ UNCHANGED <<setting, disk, cached, current, session, content>>

-----------------------------------------------------------------------------

Open ==
  \/ \E x \in Sessions : OpenAnonymous(x) \/ Close(x)
  \/ \E x \in Sessions, s \in Subs : OpenCached(x, s)
  \/ \E k \in Calls, x \in Sessions, s \in Subs : StartOpen(k, x, s)
  \/ \E k \in Calls, a \in Arrays, ok \in BOOLEAN : Opened(k, a, ok)

Form ==
  \/ \E k \in Calls, s \in Subs, f \in Forms, a \in Arrays : SubmitAs(k, s, f, a)
  \/ \E k \in Calls, f \in Forms : SubmitAnonymous(k, f)
  \/ \E k \in Calls : Stored(k) \/ StoreFails(k) \/ Asked(k) \/ AskFails(k) \/ PollEnds(k)
  \/ \E k \in Calls, a \in Arrays : Accept(k, a)
  \/ \E k \in Calls, e \in Mailboxes, filed \in BOOLEAN : Granted(k, e, filed)

Tool ==
  \/ \E k \in Calls, x \in Sessions : StartReload(k, x) \/ StartReset(k, x)
  \/ \E k \in Calls, a \in Arrays : Reloaded(k, a)
  \/ \E k \in Calls : Cleared(k) \/ Resolved(k)
  \/ \E k \in Calls, done \in BOOLEAN : ClearFails(k, done)
  \/ \E k \in Calls, ok \in BOOLEAN : ResetDone(k, ok) \/ Resolve(k, ok)
  \/ CompleteAtOnce
  \/ \E k \in Calls : StartComplete(k)

Next == Open \/ Form \/ Tool \/ Restart

Spec == Init /\ [][Next]_vars

-----------------------------------------------------------------------------

\* What s may be served: the mailboxes it typed itself, and of those that sign in with
\* a password only the ones it has the password of.
Rightful(s) == Typed[s] \cap (Own[s] \cup Outlook)

\* With subjects, the mailboxes a session works on, and those cached and stored for
\* its subject, are ones that subject typed, and with a password that passed the login
\* of the form, unless the deployment's environment brought them: "we must NOT touch
\* the shared config.enc, process.env, or the single-user currentAccounts closure ...
\* would leak one subject's mailboxes into every other subject's tool calls"
\* (http.ts:254-257), whatever the forms, reloads, resets and restarts of all subjects
\* do in between.
SubjectServedOwn ==
  multi =>
    /\ \A x \in Sessions : session[x] # Closed =>
         Serves(x) \subseteq Rightful(session[x].sub) \cup Parsed(deployed)
    /\ \A s \in Subs : kv[s] \subseteq Rightful(s)
    /\ \A s \in Subs : cached[s] # 0 => content[cached[s]] \subseteq Rightful(s)

\* With subjects, "the next tool call in the same session cannot continue using
\* credentials that were just deleted" (registry.ts:409-411), and no later one can:
\* reloads, other subjects' forms and polls that make the state configured again, and
\* a new form of the same subject give that session nothing but the deployment's.
SubjectResetForgets ==
  multi => \A x \in Sessions : session[x].forgot => Serves(x) \subseteq Parsed(deployed)

\* With subjects, the mailboxes in a session's array change under it only by the
\* reset of a session of the same subject: emptying an array in place never empties
\* another subject's, nor the array loaded at startup.
ResetIsOwn ==
  [][multi =>
       /\ \A x \in Sessions :
            session[x] # Closed /\ session'[x].array = session[x].array
              /\ content'[session[x].array] # content[session[x].array] =>
            \E k \in Calls, ok \in BOOLEAN :
              ResetDone(k, ok) /\ session[call[k].of].sub = session[x].sub
       /\ content'[current] # content[current] => Restart]_vars

\* A string that is read as some mailbox, but for the two that nothing parses before
\* the state is set: start, the deployment's, and the email:oauth2 entries that
\* resolveCredentialState makes of tokens.json.
Reloads(string, start) ==
  /\ string # NoString
  /\ \/ Parsed(string) # {}
     \/ string = start
     \/ string \subseteq {OAuth2[e] : e \in Outlook}

\* Without subjects, a server that says it is configured has credentials to reload, so
\* that a tool call that passes the guard of registry.ts:382-386 gets mailboxes:
\* although the environment is set by forms, startup and setup_complete, and the state
\* by those, by background polls and by resets.
ConfiguredHasCredentials ==
  ~multi =>
    /\ state = "configured" => Reloads(env, deployed)
    /\ \A k \in Calls : call[k].pc = "reloading" => Reloads(call[k].string, deployed)

\* "Clear all saved credentials" (src/docs/config.md:37), without subjects: after its
\* setup_reset and until a form is accepted, a session serves only what the
\* environment of the deployment gives.  The code leaves EMAIL_CREDENTIALS as the form
\* set it, and tokens.json, so it does not hold.
ResetForgets ==
  ~multi => \A x \in Sessions : session[x].forgot => Serves(x) \subseteq Parsed(deployed)

=============================================================================
