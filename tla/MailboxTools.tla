---------------------------- MODULE MailboxTools ----------------------------
(***************************************************************************)
(* The tools that act on a mailbox (src/src/tools/composite/messages.ts,   *)
(* attachments.ts and the status of folders.ts), and the copy the send tool*)
(* files, over the IMAP sessions and the caches of special folders of      *)
(* helpers/imap-client.ts and messages.ts.  The accounts they act with are *)
(* those a credential form was read back to.                               *)
(*                                                                         *)
(* A mailbox is a host with an address, and a message stands for its UID in*)
(* the folder it is in.  Steps run from one await on I/O to the next; that *)
(* a refused token is told from a refused connection is left to TokenFile. *)
(***************************************************************************)
EXTENDS FormPromise, FiniteSets

CONSTANTS
  Forms,      \* the forms submitted
  Saved,      \* the form accepted before the server started
  Login,      \* the password of each mailbox
  Calls,      \* tool calls, each made once
  Requests,   \* what a call may ask: [op, query, folder, uids, dest, flag]
  Within,     \* the addresses each query is part of
  Msgs,
  MailAtStart, \* the messages in the mailboxes: [msg, box, folder, flags]
  Listings,   \* the folder lists each mailbox may show, each [path, flags] in order
  Provider,   \* the provider whose name is part of a word of a host name
  ArchiveWords, \* the paths and flags that /archive|all( mail)/i matches
  None,
  MaxForms,   \* bound on forms submitted
  MaxClears   \* bound on cache_clear

readBack(f) == parseCredentials(assembleEmailCredentials(f))

Mailboxes == DOMAIN Login
Kinds == {"sent", "archive"}
Ids == {Id[e] : e \in DOMAIN Id}

Ops == {"read", "status", "mark", "unmark", "move", "archive", "trash", "file"}
Texts == Seq(STRING)
Server == [host : Texts, port : Nat, secure : BOOLEAN]
Account == [id : Ids, email : Texts, password : Texts, auth : {"oauth2", "password"},
            imap : Server, smtp : Server]

ASSUME FormsRead == Saved \in Forms /\ \A f \in Forms : readBack(f) \in Seq(Account)
ASSUME RequestsKnown ==
  \A r \in Requests : r.op \in Ops /\ r.uids \subseteq Msgs
ASSUME ListingsKnown ==
  \A box \in Mailboxes : \A l \in Listings[box] :
    DOMAIN l = 1 .. Len(l)
ASSUME MailKnown ==
  \A x \in MailAtStart : x = [msg |-> x.msg, box |-> x.box, folder |-> x.folder, flags |-> x.flags]
                         /\ x.msg \in Msgs /\ x.box \in Mailboxes
ASSUME BoundsNat == MaxForms \in Nat /\ MaxClears \in Nat

VARIABLES
  accounts,  \* the accounts the tools are called with
  forms,     \* forms submitted so far
  cache,     \* sentFolderCache and archiveFolderCache: per id, the call whose
             \* promise it is, or the folder that promise has come to
  pc,        \* where each call is
  stage,     \* the session a call is in: "list" for the folder list, or "act"
  task,      \* what it does, with the account resolved for it
  target,    \* the folder it files or moves to
  found,     \* the folder its listing has shown
  waits,     \* the call whose promise it awaits
  ok,        \* whether that session has gone well
  sessions,  \* calls with an IMAP session open
  listing,   \* the folders of each mailbox, as its server shows them
  mail,      \* the messages in the mailboxes
  clears,    \* calls of cache_clear so far
  since,     \* of each call, clears at the time it looked in the cache (history)
  asked,     \* clears when the listing was asked that filled each cell (history)
  asof       \* the same of the listing each call has its folder from (history)

history == <<since, asked, asof>>
vars == <<accounts, cache, pc, stage, task, target, found, waits, ok, sessions,
          listing, mail, forms, clears, history>>

(***************************************************************************)
(* Which account a call means.                                             *)
(***************************************************************************)
exact(account, query) == account.email = <<query>> \/ account.id = query
partial(account, query) ==
  \E i \in DOMAIN account.email : account.email[i] \in Within[query]

exactly(query) == {i \in DOMAIN accounts : exact(accounts[i], query)}

\* Accounts are named by their place.
resolveAccounts(query) ==
  CASE query = None -> DOMAIN accounts
    [] query # None /\ exactly(query) # {} -> exactly(query)
    [] query # None /\ exactly(query) = {} ->
         {i \in DOMAIN accounts : partial(accounts[i], query)}

\* Mutant: of several exact matches the first is taken, as resolveAccount does, which
\* no tool calls.
meantFirst(r) ==
  IF r.query # None /\ exactly(r.query) # {} THEN {Min(exactly(r.query))}
  ELSE resolveAccounts(r.query)

\* A call goes on with one account, and is refused if its query means none or several.
meant(r) == resolveAccounts(r.query)

complete(r) ==
  /\ r.op # "status" => r.uids # {}
  /\ r.op = "move" => r.dest # None
  /\ r.op = "status" => r.folder # None
  /\ r.op \in {"status", "file"} => r.query # None

(***************************************************************************)
(* Folders.                                                                *)
(***************************************************************************)
kind(op) == IF op = "file" THEN "sent" ELSE "archive"
looksUp(op) == op \in {"file", "archive"}

defaultFolder(k, host) ==
  LET at == {Provider[host[i]] : i \in {j \in DOMAIN host : host[j] \in DOMAIN Provider}} IN
  IF k = "archive"
  THEN IF at \cap {"outlook", "yahoo"} # {} THEN "Archive" ELSE "[Gmail]/All Mail"
  ELSE IF "gmail" \in at THEN "[Gmail]/Sent Mail"
  ELSE IF "outlook" \in at THEN "Sent Items" ELSE "Sent"

isArchiveFolder(f) == f.path \in ArchiveWords \/ f.flags \cap ArchiveWords # {}
isSentFolder(f, default_) == "\\Sent" \in f.flags \/ f.path = default_

\* The folder a listing comes to.
specialFolder(k, host, folders) ==
  LET usual == defaultFolder(k, host)
      fits(f) == IF k = "archive" THEN isArchiveFolder(f) ELSE isSentFolder(f, usual)
      at == {i \in DOMAIN folders : fits(folders[i])}
  IN IF at = {} THEN usual ELSE folders[Min(at)].path

Shown == UNION {Listings[box] : box \in Mailboxes}
Usual == {"[Gmail]/Sent Mail", "Sent Items", "Sent", "Archive", "[Gmail]/All Mail"}
Paths == Usual \cup UNION {{l[i].path : i \in DOMAIN l} : l \in Shown}

ASSUME NoneApart == None \notin Calls \cup Paths

Mailbox(account) == <<account.imap.host, account.email>>
SignsIn(account) ==
  /\ Mailbox(account) \in Mailboxes
  /\ account.auth = "password" => account.password = Login[Mailbox(account)]

Empty == [by |-> None, path |-> None]

Init ==
  /\ accounts = readBack(Saved)
  /\ forms = 0
  /\ cache = [k \in Kinds |-> [i \in Ids |-> Empty]]
  /\ pc = [c \in Calls |-> "idle"]
  /\ stage = [c \in Calls |-> "act"]
  /\ task = [c \in Calls |-> None]
  /\ target = [c \in Calls |-> None]
  /\ found = [c \in Calls |-> None]
  /\ waits = [c \in Calls |-> None]
  /\ ok = [c \in Calls |-> TRUE]
  /\ sessions = {}
  /\ listing \in {l \in [Mailboxes -> Shown] : \A box \in Mailboxes : l[box] \in Listings[box]}
  /\ mail = MailAtStart
  /\ clears = 0
  /\ since = [c \in Calls |-> 0]
  /\ asked = [k \in Kinds |-> [i \in Ids |-> 0]]
  /\ asof = [c \in Calls |-> 0]

(***************************************************************************)
(* The credential form: encoded, read back and tried (onCredentialsSaved). *)
(***************************************************************************)
Submit(f) ==
  LET tried == readBack(f) IN
  /\ forms < MaxForms
  /\ forms' = forms + 1
  /\ findUnusableAccountCards(f) = {}
  /\ \/ /\ tried # <<>>
        /\ \A i \in DOMAIN tried : tried[i].auth = "password" => SignsIn(tried[i])
        /\ accounts' = tried
     \/ UNCHANGED accounts
  /\ UNCHANGED <<cache, pc, stage, task, target, found, waits, ok, sessions,
                 listing, mail, clears, history>>

(***************************************************************************)
(* A call finds its account and, to file or to archive, its folder.        *)
(***************************************************************************)
Refuse(c, r) ==
  /\ pc[c] = "idle"
  /\ ~complete(r) \/ \A i \in DOMAIN accounts : meant(r) # {i}
  /\ pc' = [pc EXCEPT ![c] = "done"]
  /\ UNCHANGED <<accounts, cache, stage, task, target, found, waits, ok, sessions,
                 listing, mail, forms, clears, history>>

\* The part of a call's start that does not depend on its folder.
Begin(c, r, i) ==
  /\ pc[c] = "idle"
  /\ complete(r)
  /\ meant(r) = {i}
  /\ task' = [task EXCEPT ![c] = [account |-> accounts[i], op |-> r.op, query |-> r.query,
                                 folder |-> r.folder, uids |-> r.uids, flag |-> r.flag]]
  /\ since' = [since EXCEPT ![c] = clears]
  /\ UNCHANGED <<accounts, forms, found, ok, sessions, listing, mail, clears, asked>>

StartPlain(c, r, i) ==
  /\ ~looksUp(r.op)
  /\ Begin(c, r, i)
  /\ target' = [target EXCEPT ![c] = r.dest]
  /\ pc' = [pc EXCEPT ![c] = "connect"]
  /\ UNCHANGED <<cache, stage, waits, asof>>

StartKnown(c, r, i) ==
  LET cell == cache[kind(r.op)][accounts[i].id] IN
  /\ looksUp(r.op)
  /\ Begin(c, r, i)
  /\ cell.path # None
  /\ target' = [target EXCEPT ![c] = cell.path]
  /\ asof' = [asof EXCEPT ![c] = asked[kind(r.op)][accounts[i].id]]
  /\ pc' = [pc EXCEPT ![c] = "connect"]
  /\ UNCHANGED <<cache, stage, waits>>

StartWaiting(c, r, i) ==
  LET cell == cache[kind(r.op)][accounts[i].id] IN
  /\ looksUp(r.op)
  /\ Begin(c, r, i)
  /\ cell.by # None
  /\ waits' = [waits EXCEPT ![c] = cell.by]
  /\ pc' = [pc EXCEPT ![c] = "await"]
  /\ UNCHANGED <<cache, stage, target, asof>>

\* Mutant: only a folder that is known stops a second listing.
Unknown(cell) == cell.path = None

Unclaimed(cell) == cell = Empty

\* The promise is in the cache before the listing is asked.
StartListing(c, r, i) ==
  /\ looksUp(r.op)
  /\ Begin(c, r, i)
  /\ Unclaimed(cache[kind(r.op)][accounts[i].id])
  /\ cache' = [cache EXCEPT ![kind(r.op)][accounts[i].id] = [by |-> c, path |-> None]]
  /\ stage' = [stage EXCEPT ![c] = "list"]
  /\ pc' = [pc EXCEPT ![c] = "connect"]
  /\ UNCHANGED <<target, waits, asof>>

Start(c, r, i) ==
  \/ StartPlain(c, r, i)
  \/ StartKnown(c, r, i)
  \/ StartWaiting(c, r, i)
  \/ StartListing(c, r, i)

(***************************************************************************)
(* The session of a call (withConnection).                                 *)
(***************************************************************************)
session == <<accounts, cache, stage, task, target, waits, forms, clears, history>>

Connect(c) ==
  /\ pc[c] = "connect"
  /\ SignsIn(task[c].account)
  /\ sessions' = sessions \cup {c}
  /\ pc' = [pc EXCEPT ![c] = "work"]
  /\ ok' = [ok EXCEPT ![c] = TRUE]
  /\ UNCHANGED <<session, found, listing, mail>>

\* The token, the connection or the sign-in; logout is called all the same.
ConnectFails(c) ==
  /\ pc[c] = "connect"
  /\ pc' = [pc EXCEPT ![c] = "logout"]
  /\ ok' = [ok EXCEPT ![c] = FALSE]
  /\ UNCHANGED <<session, found, sessions, listing, mail>>

List(c) ==
  LET a == task[c].account IN
  /\ pc[c] = "work" /\ stage[c] = "list"
  /\ found' = [found EXCEPT ![c] =
                 specialFolder(kind(task[c].op), a.imap.host, listing[Mailbox(a)])]
  /\ pc' = [pc EXCEPT ![c] = "logout"]
  /\ UNCHANGED <<session, ok, sessions, listing, mail>>

\* The messages of the request that are in its folder.
named(c) ==
  {x \in mail : /\ x.msg \in task[c].uids
                /\ x.box = Mailbox(task[c].account) /\ x.folder = task[c].folder}

\* What the server makes of a request it carries out.
effect(c) ==
  LET t == task[c]
      rest == mail \ named(c)
  IN
  CASE t.op \in {"read", "status"} -> mail
    [] t.op = "mark" -> rest \cup {[x EXCEPT !.flags = @ \cup {t.flag}] : x \in named(c)}
    [] t.op = "unmark" -> rest \cup {[x EXCEPT !.flags = @ \ {t.flag}] : x \in named(c)}
    [] t.op \in {"move", "archive"} -> rest \cup {[x EXCEPT !.folder = target[c]] : x \in named(c)}
    [] t.op = "trash" -> rest
    [] t.op = "file" ->
         mail \cup {[msg |-> m, box |-> Mailbox(t.account), folder |-> target[c],
                     flags |-> {"\\Seen"}] : m \in t.uids}

\* A server may answer NO to a change of messages: the tools do not look.
Act(c) ==
  /\ pc[c] = "work" /\ stage[c] = "act"
  /\ mail' \in {effect(c), mail}
  /\ ok' = [ok EXCEPT ![c] = task[c].op = "read" => named(c) # {}]
  /\ pc' = [pc EXCEPT ![c] = "logout"]
  /\ UNCHANGED <<session, found, sessions, listing>>

\* The folder cannot be opened, the request fails, or its answer is lost.
WorkFails(c) ==
  /\ pc[c] = "work"
  /\ mail' \in {IF stage[c] = "act" THEN effect(c) ELSE mail, mail}
  /\ ok' = [ok EXCEPT ![c] = FALSE]
  /\ pc' = [pc EXCEPT ![c] = "logout"]
  /\ UNCHANGED <<session, found, sessions, listing>>

Finish(c) ==
  /\ pc[c] = "logout" /\ stage[c] = "act"
  /\ sessions' = sessions \ {c}
  /\ pc' = [pc EXCEPT ![c] = "done"]
  /\ task' = [task EXCEPT ![c] = None]
  /\ target' = [target EXCEPT ![c] = None]
  /\ since' = [since EXCEPT ![c] = 0]
  /\ asof' = [asof EXCEPT ![c] = 0]
  /\ ok' = [ok EXCEPT ![c] = TRUE]
  /\ UNCHANGED <<accounts, cache, stage, found, waits, listing, mail, forms,
                 clears, asked>>

\* Mutant: a listing that fails leaves the calls that await it.
servedIfListed(c) ==
  {c} \cup {d \in Calls : pc[d] = "await" /\ waits[d] = c /\ ok[c]}

served(c) == {c} \cup {d \in Calls : pc[d] = "await" /\ waits[d] = c}

\* Mutant: the promise is still in the cell beside its folder.
filledBeside(cell, c, path) == IF cell.by = c THEN [cell EXCEPT !.path = path] ELSE cell

\* Mutant: what a listing comes to is stored after the await.
filledAnyway(cell, c, path) == [by |-> None, path |-> path]

\* A promise that cache_clear took out of the cell is not put back.
filled(cell, c, path) == IF cell.by = c THEN [by |-> None, path |-> path] ELSE cell

\* The promise of c resolves, to the usual folder if the listing failed: c and
\* the calls that await it go on.
Settle(c) ==
  LET k == kind(task[c].op)
      a == task[c].account
      path == IF ok[c] THEN found[c] ELSE defaultFolder(k, a.imap.host)
      fills == filled(cache[k][a.id], c, path)
  IN
  /\ pc[c] = "logout" /\ stage[c] = "list"
  /\ sessions' = sessions \ {c}
  /\ cache' = [cache EXCEPT ![k][a.id] = fills]
  /\ asked' = IF fills # cache[k][a.id]
              THEN [asked EXCEPT ![k][a.id] = since[c]] ELSE asked
  /\ target' = [d \in Calls |-> IF d \in served(c) THEN path ELSE target[d]]
  /\ asof' = [d \in Calls |-> IF d \in served(c) THEN since[c] ELSE asof[d]]
  /\ pc' = [d \in Calls |-> IF d \in served(c) THEN "connect" ELSE pc[d]]
  /\ waits' = [d \in Calls |-> IF d \in served(c) THEN None ELSE waits[d]]
  /\ stage' = [stage EXCEPT ![c] = "act"]
  /\ found' = [found EXCEPT ![c] = None]
  /\ UNCHANGED <<accounts, forms, task, ok, listing, mail, clears, since>>

ClearCaches ==
  /\ clears < MaxClears
  /\ clears' = clears + 1
  /\ cache' = [k \in Kinds |-> [i \in Ids |-> Empty]]
  /\ asked' = [k \in Kinds |-> [i \in Ids |-> 0]]
  /\ UNCHANGED <<accounts, pc, stage, task, target, found, waits, ok, sessions,
                 listing, mail, forms, since, asof>>

\* Folders are made, renamed and removed at the server.
Rearrange(box) ==
  /\ \E l \in Listings[box] \ {listing[box]} : listing' = [listing EXCEPT ![box] = l]
  /\ UNCHANGED <<accounts, cache, pc, stage, task, target, found, waits, ok,
                 sessions, mail, forms, clears, history>>

Step(c) ==
  \/ Connect(c) \/ ConnectFails(c)
  \/ List(c) \/ Act(c) \/ WorkFails(c)
  \/ Finish(c) \/ Settle(c)

Next ==
  \/ \E f \in Forms : Submit(f)
  \/ \E c \in Calls, r \in Requests :
       Refuse(c, r) \/ \E i \in DOMAIN accounts : Start(c, r, i)
  \/ \E c \in Calls : Step(c)
  \/ ClearCaches
  \/ \E box \in Mailboxes : Rearrange(box)

Spec == Init /\ [][Next]_vars

\* A request is answered, refused or times out.
FairSpec == Spec /\ \A c \in Calls : WF_vars(Step(c))

(***************************************************************************)
(* Properties.                                                             *)
(***************************************************************************)
Tasks == [account : Account, op : Ops, query : {r.query : r \in Requests},
          folder : {r.folder : r \in Requests}, uids : SUBSET Msgs,
          flag : {r.flag : r \in Requests}]
Cell == [by : Calls \cup {None}, path : {None}] \cup [by : {None}, path : Paths]
Targets == Paths \cup {r.dest : r \in Requests} \cup {None}
Copies == [msg : Msgs, box : Mailboxes, folder : Targets \cup {x.folder : x \in MailAtStart},
           flags : SUBSET UNION ({x.flags : x \in MailAtStart} \cup
                                 {{r.flag} : r \in Requests} \cup {{"\\Seen"}})]

\* Every variable has its type.
TypeOK ==
  /\ accounts \in Seq(Account)
  /\ forms \in 0 .. MaxForms
  /\ cache \in [Kinds -> [Ids -> Cell]]
  /\ pc \in [Calls -> {"idle", "await", "connect", "work", "logout", "done"}]
  /\ stage \in [Calls -> {"list", "act"}]
  /\ task \in [Calls -> Tasks \cup {None}]
  /\ target \in [Calls -> Targets]
  /\ found \in [Calls -> Paths \cup {None}]
  /\ waits \in [Calls -> Calls \cup {None}]
  /\ ok \in [Calls -> BOOLEAN]
  /\ sessions \subseteq Calls
  /\ listing \in [Mailboxes -> Shown]
  /\ mail \subseteq Copies
  /\ clears \in 0 .. MaxClears
  /\ since \in [Calls -> 0 .. MaxClears]
  /\ asked \in [Kinds -> [Ids -> 0 .. MaxClears]]
  /\ asof \in [Calls -> 0 .. MaxClears]

\* The cell a call looks in.
cellOf(c) == <<kind(task[c].op), task[c].account.id>>
holds(x) == cache[x[1]][x[2]]

(***************************************************************************)
(* The caches of Sent and archive folders keep the promise of FolderCache: *)
(* calls that overlap share one listing, and one that cache_clear overtakes*)
(* is never kept (resolveSentFolder, resolveArchiveFolder,                 *)
(* handleCacheClear).                                                      *)
(***************************************************************************)
Cells == Kinds \X Ids
Promise == INSTANCE FolderCache WITH
  asker <- [x \in Cells |-> holds(x).by],
  kept  <- [x \in Cells |-> holds(x).path],
  stray <- {c \in Calls : stage[c] = "list" /\ holds(cellOf(c)).by # c}

CachesKeepPromise == Promise!Spec

(***************************************************************************)
(* A call made after cache_clear files or archives into a folder that was  *)
(* looked for since: a listing asked before the clearing never reaches it, *)
(* whenever it is answered (clearSentFolderCache, clearArchiveFolderCache).*)
(***************************************************************************)
FolderSinceClear ==
  \A c \in Calls :
    /\ pc[c] \in {"connect", "work", "logout"} /\ stage[c] = "act"
    /\ looksUp(task[c].op)
    => asof[c] = since[c]

\* The card a call means: the only one of that address or ID, or else the only one
\* whose address holds the query.
IsExact(query, card) == card.email = <<query>> \/ emailToId(card.email) = query
IsPartial(query, card) == card.email[1] \in Within[query]
Means(t, f, j) ==
  \/ t.query = None /\ DOMAIN f = {j}
  \/ /\ t.query # None
     /\ IsExact(t.query, f[j])
     /\ \A i \in DOMAIN f \ {j} : ~IsExact(t.query, f[i])
  \/ /\ t.query # None
     /\ IsPartial(t.query, f[j])
     /\ \A i \in DOMAIN f \ {j} : ~IsExact(t.query, f[i]) /\ ~IsPartial(t.query, f[i])

\* A form of which every card becomes the account that was typed, in order.
ReadAsTyped(f) ==
  /\ DOMAIN readBack(f) = DOMAIN f
  /\ \A j \in DOMAIN f : /\ Keeps(readBack(f)[j], f[j])
                         /\ readBack(f)[j].id = emailToId(f[j].email)
                         /\ Len(f[j].email) = 1

(***************************************************************************)
(* From the form to the server: a message changes only at a call that names*)
(* it, in the mailbox of the one card the call means, at the host typed on *)
(* that card and with its password, whatever was submitted since, and never*)
(* where the call could have meant another card: two may share an ID       *)
(* (assembleEmailCredentials, parseCredentials, resolveSingleAccount,      *)
(* withConnection).                                                        *)
(***************************************************************************)
OnlyMeantMailbox ==
  [][\A x \in SymDiff(mail, mail') :
       \E c \in Calls : LET t == task[c] IN
         /\ pc[c] = "work" /\ x.msg \in t.uids
         /\ x.box = Mailbox(t.account)
         /\ \E f \in Forms : \E j \in DOMAIN f :
              /\ Means(t, f, j)
              /\ Keeps(t.account, f[j])]_vars

(***************************************************************************)
(* Every call is answered, with its sessions closed: also one that waits   *)
(* for the listing of another call that fails or that a clearing overtook. *)
(***************************************************************************)
CallsAnswered ==
  \A c \in Calls : pc[c] # "idle" ~> pc[c] = "done" /\ c \notin sessions

(***************************************************************************)
(* Whenever a form is submitted, every card the string can carry, whatever *)
(* its password looks like, would be read back as the account that was     *)
(* typed (assembleEmailCredentials, then parseCredentials).                *)
(***************************************************************************)
CardsReadBack == [][Misread = {}]_forms

(***************************************************************************)
(* And however many segments a password has, and whatever they look like,  *)
(* the servers that follow it in one of the ways of ReadsBack are taken off*)
(* and the password is what is left (parsePasswordAndHost).                *)
(***************************************************************************)
TailsReadBack == [][MisreadTails = {}]_forms

(***************************************************************************)
(* Every card that the documentation says can be used becomes an account as*)
(* typed: no card vanishes, and none signs in elsewhere.                   *)
(***************************************************************************)
CardsServed ==
  [][\A f \in Forms : Submit(f) =>
       \A j \in DOMAIN f : Documented(f[j]) => Kept(readBack(f), f[j])]_vars
=============================================================================
